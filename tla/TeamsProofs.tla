---------------------------- MODULE TeamsProofs -----------------------------
(***************************************************************************)
(* Proofs about Teams.tla for every number of users, contests, teams and   *)
(* concurrent requests: every table and local variable has its type when   *)
(* it is used; a locked team stops changing once the requests that had     *)
(* passed the is_locked test when the contest started are over; users who  *)
(* wait for an answer before the next request are in one team of a contest *)
(* at most, and their teams have one creator at most; no team outgrows     *)
(* MaxSize by more than the requests in flight less one.                   *)
(***************************************************************************)
EXTENDS Teams, FiniteSetTheorems, TLAPS

-----------------------------------------------------------------------------
(* Types. *)

TableTypes ==
  /\ teams \in [TeamId -> TeamRow \cup {None}]
  /\ members \in [TeamId -> [User -> MemberRow \cup {None}]]
  /\ access \in SUBSET (User \X Contest)
  /\ drawn \in SUBSET Code
  /\ now \in 0 .. MaxTime

LocalTypes ==
  /\ pc \in [Request -> PC]
  /\ call \in [Request -> CreateCall \cup JoinCall \cup UpdateCall \cup OtherCall \cup {None}]
  /\ team \in [Request -> TeamId \cup {None}]
  /\ row \in [Request -> TeamRow \cup {None}]
  /\ member \in [Request -> MemberRow \cup {None}]
  /\ heir \in [Request -> User \cup {None}]
  /\ grace \in [TeamId -> SUBSET Request]

(* Only teams that exist have members (what a foreign key would say).      *)
NoOrphans == \A t \in TeamId, u \in User : IsMember(t, u) => Exists(t)

(* TypeOK is inductive together with NoOrphans: UpdateTeam and             *)
(* RenewTeamAccessCode take a member's word that the team exists.          *)
TypeInv == TypeOK /\ NoOrphans

(* No row of teams is ever deleted: a team that exists goes on existing. *)
TeamsStay == \A t \in TeamId : Exists(t) => Exists(t)'

(* A request that a step leaves alone still has what it had loaded. *)
LEMMA LoadedKept ==
  ASSUME NEW q \in Request, Loaded(q), TeamsStay,
         pc'[q] = pc[q], call'[q] = call[q], team'[q] = team[q], row'[q] = row[q],
         member'[q] = member[q], heir'[q] = heir[q]
  PROVE  Loaded(q)'
BY DEF Loaded, TeamsStay, Exists

(* A request that has been answered needs nothing. *)
LEMMA LoadedIdle ==
  ASSUME NEW q \in Request, pc'[q] = "idle"
  PROVE  Loaded(q)'
BY DEF Loaded, CreatePC, JoinPC, LeavePC, UpdatePC, RenewPC, TeamPC

(* What a step does to the other requests. *)
Spares(r) ==
  \A q \in Request \ {r} :
    /\ pc'[q] = pc[q] /\ call'[q] = call[q] /\ team'[q] = team[q]
    /\ row'[q] = row[q] /\ member'[q] = member[q] /\ heir'[q] = heir[q]

LEMMA LoadedByOne ==
  ASSUME TypeOK, TeamsStay, NEW r \in Request, Spares(r), Loaded(r)'
  PROVE  \A q \in Request : Loaded(q)'
<1> SUFFICES ASSUME NEW q \in Request PROVE Loaded(q)'
  OBVIOUS
<1>1. CASE q = r
  BY <1>1
<1>2. CASE q # r
  BY <1>2, LoadedKept DEF Spares, TypeOK
<1> QED BY <1>1, <1>2

LEMMA ReturnTypes ==
  ASSUME TypeOK, TeamsStay, NEW r \in Request, Return(r)
  PROVE  LocalTypes' /\ \A q \in Request : Loaded(q)'
<1>1. Spares(r)
  BY DEF Spares, Return, TypeOK
<1>2. Loaded(r)'
  BY LoadedIdle DEF Return, TypeOK
<1> QED BY <1>1, <1>2, LoadedByOne DEF Return, TypeOK, LocalTypes, PC

LEMMA CheckTypes ==
  ASSUME TypeOK, TeamsStay, NEW r \in Request, NEW ok \in BOOLEAN, NEW l \in PC,
         Check(r, ok, l), Goto(r, l) /\ UNCHANGED locals /\ ok => Loaded(r)'
  PROVE  LocalTypes' /\ \A q \in Request : Loaded(q)'
<1>1. CASE Return(r)
  BY <1>1, ReturnTypes
<1>2. CASE ok /\ Goto(r, l) /\ UNCHANGED locals
  <2>1. Spares(r)
    BY <1>2 DEF Spares, Goto, locals, TypeOK
  <2> QED BY <1>2, <2>1, LoadedByOne DEF Goto, locals, TypeOK, LocalTypes
<1> QED BY <1>1, <1>2 DEF Check

(* The requests a handler accepts, and what its first statement needs.     *)
Starts(c, t, l) ==
  \/ l = "createNotInTeam" /\ c \in CreateCall /\ t = None
  \/ l = "joinNotInTeam" /\ c \in JoinCall /\ t = None
  \/ l = "updateLoad" /\ c \in UpdateCall /\ t \in TeamId /\ Exists(t)
  \/ l \in {"leaveLoad", "renewLoad"} /\ c \in OtherCall /\ t \in TeamId /\ Exists(t)

LEMMA BeginTypes ==
  ASSUME TypeOK, NEW r \in Request, NEW c, NEW t, NEW l, Starts(c, t, l),
         Begin(r, c, t, l), UNCHANGED tables
  PROVE  LocalTypes' /\ \A q \in Request : Loaded(q)'
<1>1. Spares(r)
  BY DEF Spares, Begin, TypeOK
<1>2. TeamsStay
  BY DEF TeamsStay, Exists, tables
<1>3. pc'[r] = l /\ call'[r] = c /\ team'[r] = t /\ teams' = teams
  BY DEF Begin, TypeOK, tables
<1>4. Loaded(r)'
  BY <1>3 DEF Loaded, Starts, Exists, CreatePC, JoinPC, LeavePC, UpdatePC, RenewPC, TeamPC
<1>5. LocalTypes'
  BY DEF Starts, Begin, TypeOK, LocalTypes, PC, CreatePC, JoinPC, LeavePC, UpdatePC, RenewPC
<1> QED BY <1>1, <1>2, <1>4, <1>5, LoadedByOne

LEMMA TypeInit == Init => TypeInv
BY NoneAssumption, SizeAssumption
DEF Init, TypeInv, TypeOK, NoOrphans, IsMember, Loaded, PC,
    CreatePC, JoinPC, LeavePC, UpdatePC, RenewPC, TeamPC

(* What a step leaves in the tables. *)
TablesKept == TableTypes' /\ TeamsStay /\ NoOrphans'

LEMMA TablesUnchanged == TypeInv /\ UNCHANGED tables => TablesKept
BY DEF TypeInv, TypeOK, NoOrphans, IsMember, Exists, tables, TablesKept, TableTypes, TeamsStay

(* A team created or changed. *)
LEMMA TeamWritten ==
  ASSUME TypeInv, NEW t \in TeamId, NEW x \in TeamRow,
         teams' = [teams EXCEPT ![t] = x],
         drawn' \in SUBSET Code, UNCHANGED <<members, access, now>>
  PROVE  TablesKept
BY NoneAssumption
DEF TypeInv, TypeOK, NoOrphans, IsMember, Exists, TablesKept, TableTypes, TeamsStay

(* A member inserted, changed or deleted. *)
LEMMA MemberWritten ==
  ASSUME TypeInv, NEW t \in TeamId, Exists(t), NEW u \in User,
         NEW x \in MemberRow \cup {None},
         members' = [members EXCEPT ![t][u] = x],
         UNCHANGED <<teams, access, drawn, now>>
  PROVE  TablesKept
BY DEF TypeInv, TypeOK, NoOrphans, IsMember, Exists, TablesKept, TableTypes, TeamsStay

LEMMA MemberInserted ==
  ASSUME TypeInv, NEW t \in TeamId, Exists(t), NEW u \in User, NEW b \in BOOLEAN,
         InsertMember(t, u, b), UNCHANGED <<teams, access, drawn, now>>
  PROVE  TablesKept
<1>1. CASE IsMember(t, u)
  BY <1>1, TablesUnchanged DEF InsertMember, tables
<1>2. CASE ~IsMember(t, u)
  <2>1. [joined |-> now, creator |-> b] \in MemberRow
    BY SizeAssumption DEF MemberRow, TypeInv, TypeOK
  <2> QED BY <1>2, <2>1, MemberWritten DEF InsertMember
<1> QED BY <1>1, <1>2

LEMMA RosterFinite ==
  ASSUME NEW t
  PROVE  IsFiniteSet(Roster(t)) /\ Cardinality(Roster(t)) \in Nat
BY FiniteAssumption, FS_Subset, FS_CardinalityType DEF Roster

LEMMA TypeNext == TypeInv /\ [Next]_vars => TypeInv'
<1> SUFFICES ASSUME TypeInv, [Next]_vars PROVE TypeInv'
  OBVIOUS
<1> USE DEF TypeInv
<1> DEFINE LocalsKept == LocalTypes' /\ \A q \in Request : Loaded(q)'
<1>0. TablesKept /\ LocalsKept => TypeInv'
  BY DEF TablesKept, TableTypes, LocalTypes, TypeOK
<1>1. ASSUME NEW r \in Request, Arrival(r) PROVE TablesKept /\ LocalsKept
  <2>1. UNCHANGED tables
    BY <1>1 DEF Arrival, CreateBegin, JoinBegin, LeaveBegin, UpdateBegin, RenewBegin
  <2>2. PICK c, t, l : Starts(c, t, l) /\ Begin(r, c, t, l)
    <3>1. CASE CreateBegin(r)
      BY <3>1 DEF CreateBegin, Starts, CreateCall
    <3>2. CASE JoinBegin(r)
      BY <3>2 DEF JoinBegin, Starts, JoinCall, TypeOK
    <3>3. CASE LeaveBegin(r)
      BY <3>3 DEF LeaveBegin, Starts, OtherCall
    <3>4. CASE UpdateBegin(r)
      BY <3>4 DEF UpdateBegin, Starts, UpdateCall, NoOrphans
    <3>5. CASE RenewBegin(r)
      BY <3>5 DEF RenewBegin, Starts, OtherCall, NoOrphans
    <3> QED BY <1>1, <3>1, <3>2, <3>3, <3>4, <3>5 DEF Arrival
  <2> QED BY <2>1, <2>2, TablesUnchanged, BeginTypes
<1>2. ASSUME NEW r \in Request, Statement(r) PROVE TablesKept /\ LocalsKept
  <2> USE DEF LocalsKept
  <2>a. Loaded(r)
    BY DEF TypeOK
  <2>b. pc[r] \in PC
    BY DEF TypeOK
  <2>1. CASE CreateNotInTeam(r)
    <3>1. TablesKept
      BY <2>1, TablesUnchanged DEF CreateNotInTeam
    <3>2. ASSUME Goto(r, "createName"), UNCHANGED locals, NotInAnyTeam(call[r].user, call[r].contest) PROVE Loaded(r)'
      BY <2>1, <2>a, <3>1, <3>2
      DEF CreateNotInTeam, TablesKept, PC, CreatePC, JoinPC, LeavePC, UpdatePC, RenewPC, TeamPC,
          Loaded, Goto, locals, TypeOK, Exists, TeamsStay
    <3>3. LocalsKept
      BY <2>1, <3>1, <3>2, CheckTypes
      DEF CreateNotInTeam, TablesKept, PC, CreatePC, JoinPC, LeavePC, UpdatePC, RenewPC, TeamPC, NotInAnyTeam
    <3> QED BY <3>1, <3>3
  <2>2. CASE CreateName(r)
    <3>1. TablesKept
      BY <2>2, TablesUnchanged DEF CreateName
    <3>2. ASSUME Goto(r, "createTeam"), UNCHANGED locals, call[r].name # Blank /\ NameIsUnique(call[r].contest, call[r].name) PROVE Loaded(r)'
      BY <2>2, <2>a, <3>1, <3>2
      DEF CreateName, TablesKept, PC, CreatePC, JoinPC, LeavePC, UpdatePC, RenewPC, TeamPC,
          Loaded, Goto, locals, TypeOK, Exists, TeamsStay
    <3>3. LocalsKept
      BY <2>2, <3>1, <3>2, CheckTypes
      DEF CreateName, TablesKept, PC, CreatePC, JoinPC, LeavePC, UpdatePC, RenewPC, TeamPC, NameIsUnique
    <3> QED BY <3>1, <3>3
  <2>3. CASE CreateTeam(r)
    <3>1. CASE Return(r) /\ UNCHANGED tables
      BY <3>1, TablesUnchanged, ReturnTypes DEF TablesKept
    <3>2. CASE \E t \in TeamId, k \in Code \ drawn :
                 /\ ~Exists(t)
                 /\ teams' = [teams EXCEPT ![t] =
                      [contest |-> call[r].contest, name |-> call[r].name, code |-> k,
                       open |-> TRUE, locked |-> FALSE, deleted |-> FALSE]]
                 /\ drawn' = drawn \cup {k}
                 /\ team' = [team EXCEPT ![r] = t]
                 /\ Goto(r, "createMember")
                 /\ UNCHANGED <<members, access, now, call, row, member, heir>>
      <4> PICK t \in TeamId, k \in Code :
                 /\ teams' = [teams EXCEPT ![t] =
                      [contest |-> call[r].contest, name |-> call[r].name, code |-> k,
                       open |-> TRUE, locked |-> FALSE, deleted |-> FALSE]]
                 /\ drawn' = drawn \cup {k}
                 /\ team' = [team EXCEPT ![r] = t]
        BY <3>2
      <4> DEFINE x == [contest |-> call[r].contest, name |-> call[r].name, code |-> k,
                       open |-> TRUE, locked |-> FALSE, deleted |-> FALSE]
      <4>1. call[r] \in CreateCall /\ call[r].name # Blank
        BY <2>3, <2>a DEF CreateTeam, Loaded, CreatePC
      <4>2. x \in TeamRow
        BY <4>1 DEF TeamRow, CreateCall
      <4>3. drawn' \in SUBSET Code
        BY DEF TypeOK
      <4>4. TablesKept
        BY <3>2, <4>2, <4>3, TeamWritten
      <4>5. Exists(t)'
        BY <4>2, NoneAssumption DEF Exists, TypeOK
      <4>6. Spares(r)
        BY <3>2 DEF Spares, Goto, TypeOK
      <4>7. Loaded(r)'
        BY <3>2, <4>1, <4>5 DEF Loaded, Goto, TypeOK, Exists, PC, CreatePC, JoinPC, LeavePC, UpdatePC, RenewPC, TeamPC
      <4> QED BY <3>2, <4>4, <4>6, <4>7, LoadedByOne
              DEF TablesKept, Goto, LocalTypes, TypeOK, PC, CreatePC
    <3> QED BY <2>3, <3>1, <3>2 DEF CreateTeam, tables
  <2>4. CASE CreateMember(r)
    <3>1. team[r] \in TeamId /\ Exists(team[r]) /\ call[r].user \in User
      BY <2>4, <2>a DEF CreateMember, Loaded, CreatePC, JoinPC, TeamPC, CreateCall, JoinCall
    <3>2. TablesKept
      BY <2>4, <3>1, MemberInserted DEF CreateMember
    <3> QED BY <2>4, <3>2, ReturnTypes DEF CreateMember, TablesKept
  <2>5. CASE JoinNotInTeam(r)
    <3>1. TablesKept
      BY <2>5, TablesUnchanged DEF JoinNotInTeam
    <3>2. ASSUME Goto(r, "joinFind"), UNCHANGED locals, NotInAnyTeam(call[r].user, call[r].contest) PROVE Loaded(r)'
      BY <2>5, <2>a, <3>1, <3>2
      DEF JoinNotInTeam, TablesKept, PC, CreatePC, JoinPC, LeavePC, UpdatePC, RenewPC, TeamPC,
          Loaded, Goto, locals, TypeOK, Exists, TeamsStay
    <3>3. LocalsKept
      BY <2>5, <3>1, <3>2, CheckTypes
      DEF JoinNotInTeam, TablesKept, PC, CreatePC, JoinPC, LeavePC, UpdatePC, RenewPC, TeamPC, NotInAnyTeam
    <3> QED BY <3>1, <3>3
  <2>6. CASE JoinFind(r)
    <3>1. TablesKept
      BY <2>6, TablesUnchanged DEF JoinFind
    <3>2. CASE Return(r)
      BY <3>1, <3>2, ReturnTypes DEF TablesKept
    <3>3. CASE ~Return(r)
      <4>1. PICK t \in TeamId :
              /\ Joinable(t, call[r].contest, call[r].code)
              /\ team' = [team EXCEPT ![r] = t]
              /\ Goto(r, "joinSize")
              /\ UNCHANGED <<call, row, member, heir>>
        BY <2>6, <3>3 DEF JoinFind
      <4>2. Exists(t)'
        BY <3>1, <4>1 DEF TablesKept, TeamsStay, Joinable, Live
      <4>3. Spares(r)
        BY <4>1 DEF Spares, Goto, TypeOK
      <4>4. Loaded(r)'
        BY <2>6, <2>a, <4>1, <4>2 DEF JoinFind, Loaded, Goto, TypeOK, Exists, PC, CreatePC, JoinPC, LeavePC, UpdatePC, RenewPC, TeamPC
      <4> QED BY <3>1, <4>1, <4>3, <4>4, LoadedByOne
              DEF TablesKept, Goto, LocalTypes, TypeOK, PC, JoinPC
    <3> QED BY <3>2, <3>3
  <2>7. CASE JoinSize(r)
    <3>1. TablesKept
      BY <2>7, TablesUnchanged DEF JoinSize
    <3>2. ASSUME Goto(r, "joinMember"), UNCHANGED locals, HasRoom(team[r]) PROVE Loaded(r)'
      BY <2>7, <2>a, <3>1, <3>2
      DEF JoinSize, TablesKept, PC, CreatePC, JoinPC, LeavePC, UpdatePC, RenewPC, TeamPC,
          Loaded, Goto, locals, TypeOK, Exists, TeamsStay
    <3>3. HasRoom(team[r]) \in BOOLEAN
      BY RosterFinite, SizeAssumption DEF HasRoom
    <3>4. LocalsKept
      BY <2>7, <3>1, <3>2, <3>3, CheckTypes DEF JoinSize, TablesKept, PC, JoinPC
    <3> QED BY <3>1, <3>4
  <2>8. CASE JoinMember(r)
    <3>1. team[r] \in TeamId /\ Exists(team[r]) /\ call[r].user \in User
      BY <2>8, <2>a DEF JoinMember, Loaded, CreatePC, JoinPC, TeamPC, CreateCall, JoinCall
    <3>2. TablesKept
      BY <2>8, <3>1, MemberInserted DEF JoinMember
    <3> QED BY <2>8, <3>2, ReturnTypes DEF JoinMember, TablesKept
  <2>9. CASE LeaveLoad(r)
    <3>1. TablesKept
      BY <2>9, TablesUnchanged DEF LeaveLoad
    <3>2. CASE Return(r)
      BY <3>1, <3>2, ReturnTypes DEF TablesKept
    <3>3. CASE ~Return(r)
      <4>1. /\ pc[r] = "leaveLoad" /\ IsMember(team[r], call[r].user)
            /\ member' = [member EXCEPT ![r] = members[team[r]][call[r].user]]
            /\ Goto(r, "leaveDelete")
            /\ UNCHANGED <<call, team, row, heir>>
        BY <2>9, <3>3 DEF LeaveLoad
      <4>2. team[r] \in TeamId /\ call[r].user \in User
        BY <4>1, <2>a DEF Loaded, LeavePC, TeamPC, OtherCall
      <4>3. members[team[r]][call[r].user] \in MemberRow
        BY <4>1, <4>2 DEF IsMember, TypeOK
      <4>4. Spares(r)
        BY <4>1 DEF Spares, Goto, TypeOK
      <4>5. Loaded(r)'
        BY <2>a, <3>1, <4>1, <4>3
        DEF TablesKept, TeamsStay, Loaded, Goto, TypeOK, Exists, PC, CreatePC, JoinPC, LeavePC, UpdatePC, RenewPC, TeamPC
      <4> QED BY <3>1, <4>1, <4>3, <4>4, <4>5, LoadedByOne
              DEF TablesKept, Goto, LocalTypes, TypeOK, PC, LeavePC
    <3> QED BY <3>2, <3>3
  <2>10. CASE LeaveDelete(r)
    <3>1. team[r] \in TeamId /\ Exists(team[r]) /\ call[r].user \in User /\ member[r] \in MemberRow
      BY <2>10, <2>a DEF LeaveDelete, Loaded, LeavePC, TeamPC, OtherCall
    <3>2. TablesKept
      BY <2>10, <3>1, MemberWritten DEF LeaveDelete
    <3>3. member[r].creator \in BOOLEAN
      BY <3>1 DEF MemberRow
    <3>4. ASSUME Goto(r, "leaveHeir"), UNCHANGED locals PROVE Loaded(r)'
      BY <2>10, <2>a, <3>1, <3>2, <3>4
      DEF LeaveDelete, TablesKept, PC, CreatePC, JoinPC, LeavePC, UpdatePC, RenewPC, TeamPC, Loaded, Goto, locals, TypeOK, Exists, TeamsStay
    <3>5. LocalsKept
      BY <2>10, <3>2, <3>3, <3>4, CheckTypes DEF LeaveDelete, TablesKept, PC, LeavePC
    <3> QED BY <3>2, <3>5
  <2>11. CASE LeaveHeir(r)
    <3>1. TablesKept
      BY <2>11, TablesUnchanged DEF LeaveHeir
    <3>2. CASE Goto(r, "leaveMarkDeleted") /\ UNCHANGED locals
      <4>1. Spares(r)
        BY <3>2 DEF Spares, Goto, locals, TypeOK
      <4>2. Loaded(r)'
        BY <2>11, <2>a, <3>1, <3>2
        DEF LeaveHeir, TablesKept, TeamsStay, Loaded, Goto, locals, TypeOK, Exists, PC, CreatePC, JoinPC, LeavePC, UpdatePC, RenewPC, TeamPC
      <4> QED BY <3>1, <3>2, <4>1, <4>2, LoadedByOne
              DEF TablesKept, Goto, locals, LocalTypes, TypeOK, PC, LeavePC
    <3>3. CASE \E u \in User : /\ heir' = [heir EXCEPT ![r] = u]
                              /\ Goto(r, "leaveTransfer")
                              /\ UNCHANGED <<call, team, row, member>>
      <4>1. Spares(r)
        BY <3>3 DEF Spares, Goto, TypeOK
      <4>2. Loaded(r)'
        BY <2>11, <2>a, <3>1, <3>3
        DEF LeaveHeir, TablesKept, TeamsStay, Loaded, Goto, TypeOK, Exists, PC, CreatePC, JoinPC, LeavePC, UpdatePC, RenewPC, TeamPC
      <4> QED BY <3>1, <3>3, <4>1, <4>2, LoadedByOne
              DEF TablesKept, Goto, LocalTypes, TypeOK, PC, LeavePC
    <3> QED BY <2>11, <3>2, <3>3 DEF LeaveHeir, Oldest, Roster
  <2>12. CASE LeaveMarkDeleted(r)
    <3>1. team[r] \in TeamId /\ Exists(team[r])
      BY <2>12, <2>a DEF LeaveMarkDeleted, Loaded, LeavePC, TeamPC
    <3>2. teams[team[r]] \in TeamRow
      BY <3>1 DEF TypeOK, Exists
    <3>3. [teams[team[r]] EXCEPT !.deleted = TRUE] \in TeamRow
      BY <3>2 DEF TeamRow
    <3>4. TablesKept
      BY <2>12, <3>1, <3>3, TeamWritten DEF LeaveMarkDeleted, TypeOK
    <3> QED BY <2>12, <3>4, ReturnTypes DEF LeaveMarkDeleted, TablesKept
  <2>13. CASE LeaveTransfer(r)
    <3>1. team[r] \in TeamId /\ Exists(team[r]) /\ heir[r] \in User
      BY <2>13, <2>a DEF LeaveTransfer, Loaded, LeavePC, TeamPC
    <3>2. TablesKept
      <4>1. CASE ~IsMember(team[r], heir[r])
        BY <2>13, <4>1, TablesUnchanged DEF LeaveTransfer, tables
      <4>2. CASE IsMember(team[r], heir[r])
        <5>1. members[team[r]][heir[r]] \in MemberRow
          BY <3>1, <4>2 DEF IsMember, TypeOK
        <5>2. [members[team[r]][heir[r]] EXCEPT !.creator = TRUE] \in MemberRow
          BY <5>1 DEF MemberRow
        <5> QED BY <2>13, <3>1, <4>2, <5>2, MemberWritten DEF LeaveTransfer
      <4> QED BY <4>1, <4>2
    <3> QED BY <2>13, <3>2, ReturnTypes DEF LeaveTransfer, TablesKept
  <2>14. CASE UpdateLoad(r)
    <3>1. TablesKept
      BY <2>14, TablesUnchanged DEF UpdateLoad
    <3>2. CASE Return(r)
      BY <3>1, <3>2, ReturnTypes DEF TablesKept
    <3>3. CASE ~Return(r)
      <4> DEFINE x == [teams[team[r]] EXCEPT !.open = call[r].open]
      <4>1. /\ pc[r] = "updateLoad"
            /\ row' = [row EXCEPT ![r] = x]
            /\ Goto(r, "updateSave")
            /\ UNCHANGED <<call, team, member, heir>>
        BY <2>14, <3>3 DEF UpdateLoad
      <4>2. teams[team[r]] \in TeamRow /\ call[r] \in UpdateCall
        BY <2>a, <4>1 DEF Loaded, UpdatePC, TeamPC, TypeOK, Exists
      <4>3. x \in TeamRow
        BY <4>2 DEF TeamRow, UpdateCall
      <4> HIDE DEF x
      <4>4. Spares(r)
        BY <4>1 DEF Spares, Goto, TypeOK
      <4>5. Loaded(r)'
        BY <2>a, <3>1, <4>1, <4>3
        DEF TablesKept, TeamsStay, Loaded, Goto, TypeOK, Exists, PC, CreatePC, JoinPC, LeavePC, UpdatePC, RenewPC, TeamPC
      <4> QED BY <3>1, <4>1, <4>3, <4>4, <4>5, LoadedByOne
              DEF TablesKept, Goto, LocalTypes, TypeOK, PC, UpdatePC
    <3> QED BY <3>2, <3>3
  <2>15. CASE UpdateSave(r)
    <3>1. team[r] \in TeamId /\ row[r] \in TeamRow
      BY <2>15, <2>a DEF UpdateSave, Loaded, UpdatePC, TeamPC
    <3>2. TablesKept
      BY <2>15, <3>1, TeamWritten DEF UpdateSave, TypeOK
    <3> QED BY <2>15, <3>2, ReturnTypes DEF UpdateSave, TablesKept
  <2>16. CASE RenewLoad(r)
    <3>1. TablesKept
      BY <2>16, TablesUnchanged DEF RenewLoad
    <3>2. ASSUME Goto(r, "renewSave"), UNCHANGED locals, ~teams[team[r]].locked PROVE Loaded(r)'
      BY <2>16, <2>a, <3>1, <3>2
      DEF RenewLoad, TablesKept, PC, CreatePC, JoinPC, LeavePC, UpdatePC, RenewPC, TeamPC,
          Loaded, Goto, locals, TypeOK, Exists, TeamsStay
    <3>3. teams[team[r]].locked \in BOOLEAN
      BY <2>16, <2>a DEF RenewLoad, Loaded, RenewPC, TeamPC, TypeOK, Exists, TeamRow
    <3>4. LocalsKept
      BY <2>16, <3>1, <3>2, <3>3, CheckTypes
      DEF RenewLoad, TablesKept, PC, CreatePC, JoinPC, LeavePC, UpdatePC, RenewPC, TeamPC
    <3> QED BY <3>1, <3>4
  <2>17. CASE RenewSave(r)
    <3>1. team[r] \in TeamId /\ teams[team[r]] \in TeamRow
      BY <2>17, <2>a DEF RenewSave, Loaded, RenewPC, TeamPC, TypeOK, Exists
    <3>2. ASSUME NEW k \in Code PROVE [teams[team[r]] EXCEPT !.code = k] \in TeamRow
      BY <3>1 DEF TeamRow
    <3>3. TablesKept
      <4>1. CASE UNCHANGED <<teams, drawn>>
        BY <2>17, <4>1, TablesUnchanged DEF RenewSave, tables
      <4>2. ASSUME NEW k \in Code \ drawn, teams' = [teams EXCEPT ![team[r]].code = k],
                   drawn' = drawn \cup {k}
            PROVE  TablesKept
        BY <2>17, <3>1, <3>2, <4>2, TeamWritten DEF RenewSave, TypeOK
      <4> QED BY <2>17, <4>1, <4>2 DEF RenewSave
    <3> QED BY <2>17, <3>3, ReturnTypes DEF RenewSave, TablesKept
  <2> QED BY <1>2, <2>1, <2>2, <2>3, <2>4, <2>5, <2>6, <2>7, <2>8, <2>9, <2>10, <2>11, <2>12, <2>13, <2>14, <2>15, <2>16, <2>17 DEF Statement
<1>3. ASSUME NEW r \in Request, Fault(r) PROVE TablesKept /\ LocalsKept
  BY <1>3, TablesUnchanged, ReturnTypes DEF Fault, TablesKept
<1>4. ASSUME UNCHANGED <<pc, locals>>, grace' \in [TeamId -> SUBSET Request], TablesKept
      PROVE  LocalsKept
  BY <1>4, LoadedKept DEF TablesKept, LocalTypes, TypeOK, locals
<1>5. ASSUME NEW t \in TeamId, Lock(t) PROVE TablesKept /\ LocalsKept
  <2>1. teams[t] \in TeamRow
    BY <1>5 DEF Lock, Exists, TypeOK
  <2>2. [teams[t] EXCEPT !.locked = TRUE] \in TeamRow
    BY <2>1 DEF TeamRow
  <2>3. TablesKept
    BY <1>5, <2>2, TeamWritten DEF Lock, TypeOK
  <2>4. grace' \in [TeamId -> SUBSET Request]
    BY <1>5 DEF Lock, TypeOK
  <2> QED BY <1>4, <1>5, <2>3, <2>4 DEF Lock
<1>6. ASSUME NEW u \in User, BadgesImported(u) PROVE TablesKept /\ LocalsKept
  <2>1. TablesKept
    BY <1>6 DEF BadgesImported, TypeOK, NoOrphans, IsMember, Exists, TablesKept, TableTypes, TeamsStay
  <2> QED BY <1>4, <1>6, <2>1 DEF BadgesImported, TypeOK
<1>7. ASSUME Tick PROVE TablesKept /\ LocalsKept
  <2>1. TablesKept
    BY <1>7, SizeAssumption DEF Tick, TypeOK, NoOrphans, IsMember, Exists, TablesKept, TableTypes, TeamsStay
  <2> QED BY <1>4, <1>7, <2>1 DEF Tick, TypeOK
<1>8. ASSUME UNCHANGED vars PROVE TablesKept /\ LocalsKept
  <2>1. TablesKept
    BY <1>8, TablesUnchanged DEF vars
  <2> QED BY <1>4, <1>8, <2>1 DEF vars, TypeOK
<1> QED BY <1>0, <1>1, <1>2, <1>3, <1>5, <1>6, <1>7, <1>8 DEF Next

(* The handlers keep every row and every local variable of its type, and   *)
(* never use one that is not set: no lookup of a missing team, no zero     *)
(* TeamMember, no heir that was not found.                                 *)
THEOREM TypeCorrect == Spec => []TypeOK
<1>1. Init => TypeInv
  BY TypeInit
<1>2. TypeInv /\ [Next]_vars => TypeInv'
  BY TypeNext
<1>3. TypeInv => TypeOK
  BY DEF TypeInv
<1> QED BY <1>1, <1>2, <1>3, PTL DEF Spec

-----------------------------------------------------------------------------
(* The lock. *)

(* A request can only get past the lock test of a team that is not locked; *)
(* when the team is locked, those that are past it enter grace.  The row   *)
(* UpdateTeam saves was loaded unlocked, so saving it ends the lock.       *)
LockInv ==
  /\ \A r \in Request, t \in TeamId :
       Committed(r, t) /\ Exists(t) /\ teams[t].locked => r \in grace[t]
  /\ \A r \in Request : pc[r] = "updateSave" => ~row[r].locked

LEMMA LockInit == Init => LockInv
BY DEF Init, LockInv, Committed, PastLockTest

NoNewLocks == \A t \in TeamId : Exists(t)' /\ teams'[t].locked => Exists(t) /\ teams[t].locked

(* Requests that keep their statement, team, row and grace, in tables      *)
(* where no lock appears, keep LockInv.                                    *)
LEMMA LockKeptByOthers ==
  ASSUME TypeInv, LockInv, NEW r \in Request, Spares(r),
         NoNewLocks,
         \A t \in TeamId : grace[t] \subseteq grace'[t] \cup {r},
         \A t \in TeamId : Committed(r, t)' /\ Exists(t)' /\ teams'[t].locked => r \in grace'[t],
         pc'[r] = "updateSave" => ~row'[r].locked
  PROVE  LockInv'
<1>1. ASSUME NEW q \in Request, NEW t \in TeamId, Committed(q, t)', Exists(t)', teams'[t].locked
      PROVE  q \in grace'[t]
  <2>1. CASE q = r
    BY <1>1, <2>1
  <2>2. CASE q # r
    BY <1>1, <2>2 DEF Spares, Committed, LockInv, NoNewLocks, TypeInv, TypeOK
  <2> QED BY <2>1, <2>2
<1>2. ASSUME NEW q \in Request, pc'[q] = "updateSave" PROVE ~row'[q].locked
  BY <1>2 DEF Spares, LockInv
<1> QED BY <1>1, <1>2 DEF LockInv

LEMMA LockReturn ==
  ASSUME TypeInv, LockInv, NEW r \in Request, Return(r), NoNewLocks
  PROVE  LockInv'
<1>1. Spares(r)
  BY DEF Spares, Return, TypeInv, TypeOK
<1>2. \A t \in TeamId : ~Committed(r, t)'
  BY DEF Return, Committed, PastLockTest, TypeInv, TypeOK
<1>3. pc'[r] # "updateSave"
  BY DEF Return, TypeInv, TypeOK
<1>4. \A t \in TeamId : grace[t] \subseteq grace'[t] \cup {r}
  BY DEF Return
<1> QED BY <1>1, <1>2, <1>3, <1>4, LockKeptByOthers

(* A request that goes on to a statement of a team it was committed to, or *)
(* to one before the lock test.                                            *)
LEMMA LockGoto ==
  ASSUME TypeInv, LockInv, NEW r \in Request, NEW l, Goto(r, l), UNCHANGED team, Spares(r),
         NoNewLocks,
         l \in PastLockTest => pc[r] \in PastLockTest,
         l # "updateSave"
  PROVE  LockInv'
<1>1. pc'[r] = l
  BY DEF Goto, TypeInv, TypeOK
<1>2. \A t \in TeamId : Committed(r, t)' /\ Exists(t)' /\ teams'[t].locked => r \in grace'[t]
  BY <1>1 DEF Goto, Committed, LockInv, NoNewLocks
<1> QED BY <1>1, <1>2, LockKeptByOthers DEF Goto

LEMMA LockCheck ==
  ASSUME TypeInv, LockInv, NEW r \in Request, NEW ok, NEW l, Check(r, ok, l), NoNewLocks,
         l \in PastLockTest => pc[r] \in PastLockTest, l # "updateSave"
  PROVE  LockInv'
<1>1. CASE Return(r)
  BY <1>1, LockReturn
<1>2. CASE Goto(r, l) /\ UNCHANGED locals
  <2>1. Spares(r)
    BY <1>2 DEF Spares, Goto, locals, TypeInv, TypeOK
  <2> QED BY <1>2, <2>1, LockGoto DEF locals
<1> QED BY <1>1, <1>2 DEF Check

LEMMA LockBegin ==
  ASSUME TypeInv, LockInv, NEW r \in Request, NEW c, NEW t, NEW l, Begin(r, c, t, l),
         UNCHANGED tables, l # "updateSave",
         l \in PastLockTest => t \in TeamId /\ ~teams[t].locked
  PROVE  LockInv'
<1>1. Spares(r) /\ NoNewLocks
  BY DEF Spares, NoNewLocks, Exists, Begin, tables, TypeInv, TypeOK
<1>2. pc'[r] = l /\ team'[r] = t /\ teams' = teams /\ grace' = grace
  BY DEF Begin, tables, TypeInv, TypeOK
<1>3. \A s \in TeamId : Committed(r, s)' /\ Exists(s)' /\ teams'[s].locked => r \in grace'[s]
  BY <1>2 DEF Committed
<1> QED BY <1>1, <1>2, <1>3, LockKeptByOthers

LEMMA LockNext == TypeInv /\ LockInv /\ [Next]_vars => LockInv'
<1> SUFFICES ASSUME TypeInv, LockInv, [Next]_vars PROVE LockInv'
  OBVIOUS
<1>1. UNCHANGED teams => NoNewLocks
  BY DEF NoNewLocks, Exists
<1>2. ASSUME NEW r \in Request, Arrival(r) PROVE LockInv'
  <2>1. CASE CreateBegin(r)
    BY <2>1, LockBegin DEF CreateBegin, PastLockTest
  <2>2. CASE JoinBegin(r)
    BY <2>2, LockBegin DEF JoinBegin, PastLockTest
  <2>3. CASE LeaveBegin(r)
    BY <2>3, LockBegin DEF LeaveBegin, PastLockTest
  <2>4. CASE UpdateBegin(r)
    BY <2>4, LockBegin DEF UpdateBegin, PastLockTest
  <2>5. CASE RenewBegin(r)
    BY <2>5, LockBegin DEF RenewBegin, PastLockTest
  <2> QED BY <1>2, <2>1, <2>2, <2>3, <2>4, <2>5 DEF Arrival
<1>3. ASSUME NEW r \in Request, Statement(r) PROVE LockInv'
  <2>0. Loaded(r)
    BY DEF TypeInv, TypeOK
  <2>1. CASE CreateNotInTeam(r)
    BY <2>1, <1>1, LockCheck DEF CreateNotInTeam, PastLockTest, tables
  <2>2. CASE CreateName(r)
    BY <2>2, <1>1, LockCheck DEF CreateName, PastLockTest, tables
  <2>3. CASE JoinNotInTeam(r)
    BY <2>3, <1>1, LockCheck DEF JoinNotInTeam, PastLockTest, tables
  <2>4. CASE JoinSize(r)
    BY <2>4, <1>1, LockCheck DEF JoinSize, PastLockTest, tables
  <2>5. CASE LeaveDelete(r)
    BY <2>5, <1>1, LockCheck DEF LeaveDelete, PastLockTest, tables
  <2>6. CASE CreateTeam(r)
    <3>1. CASE Return(r) /\ UNCHANGED teams
      BY <3>1, <1>1, LockReturn
    <3>2. CASE ~(Return(r) /\ UNCHANGED teams)
      <4>1. PICK t \in TeamId, k \in Code :
              /\ ~Exists(t)
              /\ teams' = [teams EXCEPT ![t] =
                   [contest |-> call[r].contest, name |-> call[r].name, code |-> k,
                    open |-> TRUE, locked |-> FALSE, deleted |-> FALSE]]
              /\ team' = [team EXCEPT ![r] = t]
              /\ Goto(r, "createMember")
              /\ UNCHANGED <<call, row, member, heir>>
        BY <2>6, <3>2 DEF CreateTeam
      <4>2. Spares(r) /\ grace' = grace /\ pc'[r] = "createMember" /\ team'[r] = t
        BY <4>1 DEF Spares, Goto, TypeInv, TypeOK
      <4>3. ~teams'[t].locked /\ \A s \in TeamId \ {t} : teams'[s] = teams[s]
        BY <4>1 DEF TypeInv, TypeOK
      <4>4. NoNewLocks
        BY <4>3 DEF NoNewLocks, Exists
      <4>5. \A s \in TeamId : Committed(r, s)' /\ Exists(s)' /\ teams'[s].locked => r \in grace'[s]
        BY <4>2, <4>3 DEF Committed
      <4> QED BY <4>2, <4>4, <4>5, LockKeptByOthers
    <3> QED BY <3>1, <3>2
  <2>7. CASE CreateMember(r)
    BY <2>7, <1>1, LockReturn DEF CreateMember
  <2>8. CASE JoinMember(r)
    BY <2>8, <1>1, LockReturn DEF JoinMember
  <2>9. CASE LeaveTransfer(r)
    BY <2>9, <1>1, LockReturn DEF LeaveTransfer
  <2>10. CASE JoinFind(r)
    <3>1. CASE Return(r)
      BY <2>10, <3>1, <1>1, LockReturn DEF JoinFind, tables
    <3>2. CASE ~Return(r)
      <4>1. PICK t \in TeamId :
              /\ Joinable(t, call[r].contest, call[r].code)
              /\ team' = [team EXCEPT ![r] = t]
              /\ Goto(r, "joinSize")
              /\ UNCHANGED <<call, row, member, heir, teams>>
        BY <2>10, <3>2 DEF JoinFind, tables
      <4>2. Spares(r) /\ grace' = grace /\ pc'[r] = "joinSize" /\ team'[r] = t
        BY <4>1 DEF Spares, Goto, TypeInv, TypeOK
      <4>3. \A s \in TeamId : Committed(r, s)' /\ Exists(s)' /\ teams'[s].locked => r \in grace'[s]
        BY <4>1, <4>2 DEF Committed, Joinable
      <4> QED BY <1>1, <4>1, <4>2, <4>3, LockKeptByOthers
    <3> QED BY <3>1, <3>2
  <2>11. CASE LeaveLoad(r)
    <3>1. CASE Return(r)
      BY <2>11, <3>1, <1>1, LockReturn DEF LeaveLoad, tables
    <3>2. CASE Goto(r, "leaveDelete") /\ UNCHANGED <<call, team, row, heir>>
                 /\ member' = [member EXCEPT ![r] = members[team[r]][call[r].user]]
      <4>1. Spares(r)
        BY <3>2 DEF Spares, Goto, TypeInv, TypeOK
      <4> QED BY <2>11, <3>2, <4>1, <1>1, LockGoto DEF LeaveLoad, PastLockTest, tables
    <3> QED BY <2>11, <3>1, <3>2 DEF LeaveLoad
  <2>12. CASE LeaveHeir(r)
    <3>1. PICK l \in {"leaveMarkDeleted", "leaveTransfer"} : Goto(r, l)
      BY <2>12 DEF LeaveHeir
    <3>2. UNCHANGED <<call, team, row, member, teams>>
      BY <2>12 DEF LeaveHeir, locals, tables
    <3>3. Spares(r)
      BY <2>12, <3>1, <3>2 DEF LeaveHeir, Spares, Goto, locals, TypeInv, TypeOK
    <3> QED BY <2>12, <3>1, <3>2, <3>3, <1>1, LockGoto DEF LeaveHeir, PastLockTest
  <2>13. CASE LeaveMarkDeleted(r)
    <3>1. \A t \in TeamId : Exists(t)' => Exists(t) /\ teams'[t].locked = teams[t].locked
      BY <2>13, <2>0 DEF LeaveMarkDeleted, Loaded, LeavePC, TeamPC, Exists, TypeInv, TypeOK, TeamRow
    <3> QED BY <2>13, <3>1, LockReturn DEF LeaveMarkDeleted, NoNewLocks
  <2>14. CASE UpdateLoad(r)
    <3>1. CASE Return(r)
      BY <2>14, <3>1, <1>1, LockReturn DEF UpdateLoad, tables
    <3>2. CASE ~Return(r)
      <4> DEFINE x == [teams[team[r]] EXCEPT !.open = call[r].open]
      <4>1. /\ pc[r] = "updateLoad" /\ ~teams[team[r]].locked
            /\ row' = [row EXCEPT ![r] = x] /\ Goto(r, "updateSave")
            /\ UNCHANGED <<teams, call, team, member, heir>>
        BY <2>14, <3>2 DEF UpdateLoad, tables
      <4>2. team[r] \in TeamId /\ teams[team[r]] \in TeamRow
        BY <2>0, <4>1 DEF Loaded, UpdatePC, TeamPC, Exists, TypeInv, TypeOK
      <4>3. ~x.locked
        BY <4>1, <4>2 DEF TeamRow
      <4> HIDE DEF x
      <4>4. Spares(r) /\ grace' = grace /\ pc'[r] = "updateSave" /\ row'[r] = x
        BY <4>1 DEF Spares, Goto, TypeInv, TypeOK
      <4>5. \A s \in TeamId : Committed(r, s)' /\ Exists(s)' /\ teams'[s].locked => r \in grace'[s]
        BY <4>1, <4>4 DEF Committed
      <4> QED BY <1>1, <4>1, <4>3, <4>4, <4>5, LockKeptByOthers
    <3> QED BY <3>1, <3>2
  <2>15. CASE UpdateSave(r)
    <3>1. ~row[r].locked
      BY <2>15 DEF UpdateSave, LockInv
    <3>2. NoNewLocks
      BY <2>15, <2>0, <3>1
      DEF UpdateSave, NoNewLocks, Loaded, UpdatePC, TeamPC, Exists, TypeInv, TypeOK
    <3> QED BY <2>15, <3>2, LockReturn DEF UpdateSave
  <2>16. CASE RenewLoad(r)
    <3>1. CASE Return(r)
      BY <2>16, <3>1, <1>1, LockReturn DEF RenewLoad, tables
    <3>2. CASE ~teams[team[r]].locked /\ Goto(r, "renewSave") /\ UNCHANGED locals
      <4>1. Spares(r) /\ grace' = grace /\ pc'[r] = "renewSave" /\ team'[r] = team[r] /\ teams' = teams
        BY <2>16, <3>2 DEF RenewLoad, tables, Spares, Goto, locals, TypeInv, TypeOK
      <4>2. \A s \in TeamId : Committed(r, s)' /\ Exists(s)' /\ teams'[s].locked => r \in grace'[s]
        BY <3>2, <4>1 DEF Committed
      <4> QED BY <1>1, <4>1, <4>2, LockKeptByOthers
    <3> QED BY <2>16, <3>1, <3>2 DEF RenewLoad, Check
  <2>17. CASE RenewSave(r)
    <3>1. team[r] \in TeamId /\ teams[team[r]] \in TeamRow
      BY <2>17, <2>0 DEF RenewSave, Loaded, RenewPC, TeamPC, Exists, TypeInv, TypeOK
    <3>2. ASSUME NEW k \in Code, teams' = [teams EXCEPT ![team[r]].code = k] PROVE NoNewLocks
      <4>1. [teams[team[r]] EXCEPT !.code = k].locked = teams[team[r]].locked
        BY <3>1 DEF TeamRow
      <4>2. teams'[team[r]].locked = teams[team[r]].locked
        BY <3>1, <3>2, <4>1 DEF TypeInv, TypeOK
      <4>3. \A s \in TeamId \ {team[r]} : teams'[s] = teams[s]
        BY <3>2 DEF TypeInv, TypeOK
      <4>4. Exists(team[r])
        BY <3>1, NoneAssumption DEF Exists
      <4> QED BY <4>2, <4>3, <4>4 DEF NoNewLocks, Exists
    <3>3. NoNewLocks
      BY <2>17, <1>1, <3>2 DEF RenewSave
    <3> QED BY <2>17, <3>3, LockReturn DEF RenewSave
  <2> QED BY <1>3, <2>1, <2>2, <2>3, <2>4, <2>5, <2>6, <2>7, <2>8, <2>9, <2>10, <2>11, <2>12, <2>13, <2>14, <2>15, <2>16, <2>17 DEF Statement
<1>4. ASSUME NEW r \in Request, Fault(r) PROVE LockInv'
  BY <1>4, <1>1, LockReturn DEF Fault, tables
<1>5. ASSUME NEW t \in TeamId, Lock(t) PROVE LockInv'
  <2>1. \A s \in TeamId \ {t} : teams'[s] = teams[s] /\ grace'[s] = grace[s]
    BY <1>5 DEF Lock, TypeInv, TypeOK
  <2>2. grace'[t] = {r \in Request : Committed(r, t)}
    BY <1>5 DEF Lock, TypeInv, TypeOK
  <2> QED BY <1>5, <2>1, <2>2 DEF Lock, LockInv, Committed, Exists, locals
<1>6. ASSUME UNCHANGED <<teams, pc, locals, grace>> PROVE LockInv'
  BY <1>6 DEF LockInv, Committed, Exists, locals
<1>7. ASSUME NEW u \in User, BadgesImported(u) PROVE LockInv'
  BY <1>6, <1>7 DEF BadgesImported
<1>8. CASE Tick
  BY <1>6, <1>8 DEF Tick
<1>9. CASE UNCHANGED vars
  BY <1>6, <1>9 DEF vars, tables
<1> QED BY <1>2, <1>3, <1>4, <1>5, <1>7, <1>8, <1>9 DEF Next

(* Without a committed request, nothing that concerns a locked team is     *)
(* written.                                                                *)
LEMMA FrozenStep ==
  ASSUME TypeInv, LockInv, [Next]_vars,
         NEW t \in TeamId, Exists(t), teams[t].locked, grace[t] = {}
  PROVE  teams'[t] = teams[t] /\ members'[t] = members[t]
<1>1. \A r \in Request : ~Committed(r, t)
  BY DEF LockInv
<1>2. ASSUME NEW r \in Request, Arrival(r) PROVE UNCHANGED <<teams, members>>
  BY <1>2 DEF Arrival, CreateBegin, JoinBegin, LeaveBegin, UpdateBegin, RenewBegin, tables
<1>3. ASSUME NEW r \in Request, Statement(r)
      PROVE  teams'[t] = teams[t] /\ members'[t] = members[t]
  <2>1. Loaded(r) /\ (team[r] = t => pc[r] \notin PastLockTest)
    BY <1>1 DEF Committed, TypeInv, TypeOK
  <2> USE <2>1 DEF PastLockTest, TypeInv, TypeOK
  <2>2. CASE CreateTeam(r)
    BY <2>2 DEF CreateTeam
  <2>3. CASE CreateMember(r)
    BY <2>3 DEF CreateMember, InsertMember, Loaded, TeamPC
  <2>4. CASE JoinMember(r)
    BY <2>4 DEF JoinMember, InsertMember, Loaded, TeamPC
  <2>5. CASE LeaveDelete(r)
    BY <2>5 DEF LeaveDelete, Loaded, TeamPC, LeavePC
  <2>6. CASE LeaveMarkDeleted(r)
    BY <2>6 DEF LeaveMarkDeleted, Loaded, TeamPC, LeavePC
  <2>7. CASE LeaveTransfer(r)
    BY <2>7 DEF LeaveTransfer, Loaded, TeamPC, LeavePC
  <2>8. CASE UpdateSave(r)
    BY <2>8 DEF UpdateSave, Loaded, TeamPC, UpdatePC
  <2>9. CASE RenewSave(r)
    BY <2>9 DEF RenewSave, Loaded, TeamPC, RenewPC
  <2> HIDE DEF TypeInv, TypeOK
  <2> QED BY <1>3, <2>2, <2>3, <2>4, <2>5, <2>6, <2>7, <2>8, <2>9
          DEF Statement, CreateNotInTeam, CreateName, JoinNotInTeam, JoinFind, JoinSize,
              LeaveLoad, LeaveHeir, UpdateLoad, RenewLoad, tables
<1>4. ASSUME NEW s \in TeamId, Lock(s) PROVE teams'[t] = teams[t] /\ members'[t] = members[t]
  BY <1>4 DEF Lock, TypeInv, TypeOK
<1> QED BY <1>2, <1>3, <1>4 DEF Next, Fault, BadgesImported, Tick, vars, tables

(* For any number of teams and concurrent requests, with or without        *)
(* faults: once the requests that were past the lock test when the contest *)
(* started are over, the rows of the team never change again.              *)
THEOREM LockedTeamsFreeze == Spec => FrozenOnceDrained
<1>1. Init => TypeInv /\ LockInv
  BY TypeInit, LockInit
<1>2. TypeInv /\ LockInv /\ [Next]_vars => TypeInv' /\ LockInv'
  BY TypeNext, LockNext
<1>3. TypeInv /\ LockInv /\ [Next]_vars
      => [\A t \in TeamId : Exists(t) /\ teams[t].locked /\ grace[t] = {}
             => teams'[t] = teams[t] /\ members'[t] = members[t]]_<<teams, members>>
  BY FrozenStep
<1> QED BY <1>1, <1>2, <1>3, PTL DEF Spec, FrozenOnceDrained

-----------------------------------------------------------------------------
(* The members of a team: creators, users in one team, sizes.              *)

(* Two requests in flight are of two users. *)
OneRequestPerUser ==
  \A q, r \in Request : Running(q) /\ Running(r) /\ call[q].user = call[r].user => q = r

(* A request about to make a creator of team t. *)
Holder(r, t) == team[r] = t /\ pc[r] \in {"createMember", "leaveHeir", "leaveTransfer"}

(* The right to make a creator exists once: it is with the creator, or     *)
(* with the one request that deleted the creator's row or inserted the     *)
(* team.  A creator on the way out is still the creator.                   *)
CreatorInv ==
  /\ AtMostOneCreator
  /\ \A r \in Request, t \in TeamId, u \in User : Holder(r, t) => ~IsCreator(t, u)
  /\ \A q, r \in Request, t \in TeamId : Holder(q, t) /\ Holder(r, t) => q = r
  /\ \A r \in Request : pc[r] = "leaveDelete" /\ member[r].creator
                        => IsCreator(team[r], call[r].user)

(* A request past the membership test: its user is still in no team of the *)
(* contest, and the team it has found is of that contest.                  *)
Joining == {"joinFind", "joinSize", "joinMember", "createName", "createTeam", "createMember"}
MembershipInv ==
  /\ OneTeamPerContest
  /\ \A r \in Request : pc[r] \in Joining => NotInAnyTeam(call[r].user, call[r].contest)
  /\ \A r \in Request : pc[r] \in {"joinSize", "joinMember", "createMember"}
                        => teams[team[r]].contest = call[r].contest
  /\ \A r \in Request : pc[r] = "updateSave" => row[r].contest = teams[team[r]].contest

-----------------------------------------------------------------------------
(* The requests of a user. *)

(* A step of request r that leaves the caller and the other requests.      *)
Continues(r) == Spares(r) /\ (pc'[r] = "idle" \/ (Running(r) /\ call'[r] = call[r]))

LEMMA ReturnContinues ==
  ASSUME TypeInv, NEW r \in Request, Return(r) PROVE Continues(r) /\ pc'[r] = "idle"
BY DEF Return, Continues, Spares, TypeInv, TypeOK

LEMMA GotoContinues ==
  ASSUME TypeInv, NEW r \in Request, Running(r), NEW l \in PC, Goto(r, l), Spares(r),
         UNCHANGED call
  PROVE  Continues(r) /\ pc'[r] = l
BY DEF Goto, Continues, Spares, TypeInv, TypeOK

LEMMA CheckContinues ==
  ASSUME TypeInv, NEW r \in Request, Running(r), NEW ok, NEW l \in PC, Check(r, ok, l)
  PROVE  Continues(r) /\ (pc'[r] = "idle" \/ (ok /\ pc'[r] = l /\ UNCHANGED locals))
<1>1. CASE Return(r)
  BY <1>1, ReturnContinues
<1>2. CASE ok /\ Goto(r, l) /\ UNCHANGED locals
  <2>1. Spares(r)
    BY <1>2 DEF Spares, Goto, locals, TypeInv, TypeOK
  <2> QED BY <1>2, <2>1, GotoContinues DEF locals
<1> QED BY <1>1, <1>2 DEF Check

LEMMA StatementContinues ==
  ASSUME TypeInv, NEW r \in Request, Statement(r) PROVE Continues(r)
<1> USE DEF PC, CreatePC, JoinPC, LeavePC, UpdatePC, RenewPC, Running
<1>1. CASE Return(r)
  BY <1>1, ReturnContinues
<1>2. CASE ~Return(r)
  <2>1. PICK l \in PC : Goto(r, l)
    BY <1>2 DEF Statement, CreateNotInTeam, CreateName, CreateTeam, CreateMember,
      JoinNotInTeam, JoinFind, JoinSize, JoinMember, LeaveLoad, LeaveDelete, LeaveHeir,
      LeaveMarkDeleted, LeaveTransfer, UpdateLoad, UpdateSave, RenewLoad, RenewSave, Check
  <2>2. Running(r)
    BY DEF Statement, CreateNotInTeam, CreateName, CreateTeam, CreateMember,
      JoinNotInTeam, JoinFind, JoinSize, JoinMember, LeaveLoad, LeaveDelete, LeaveHeir,
      LeaveMarkDeleted, LeaveTransfer, UpdateLoad, UpdateSave, RenewLoad, RenewSave
  <2>3. /\ UNCHANGED call
        /\ \A q \in Request \ {r} : /\ team'[q] = team[q] /\ row'[q] = row[q]
                                     /\ member'[q] = member[q] /\ heir'[q] = heir[q]
    BY <1>2 DEF Statement, CreateNotInTeam, CreateName, CreateTeam, CreateMember,
      JoinNotInTeam, JoinFind, JoinSize, JoinMember, LeaveLoad, LeaveDelete, LeaveHeir,
      LeaveMarkDeleted, LeaveTransfer, UpdateLoad, UpdateSave, RenewLoad, RenewSave, Check,
      locals, TypeInv, TypeOK
  <2>4. Spares(r)
    BY <2>1, <2>3 DEF Spares, Goto, TypeInv, TypeOK
  <2> QED BY <2>1, <2>2, <2>3, <2>4, GotoContinues
<1> QED BY <1>1, <1>2

(* No user has more than Tabs requests under way. *)
FewRequests == \A u \in User : Cardinality(Of(u)) <= Tabs

LEMMA RequestsAreFinite ==
  ASSUME NEW u
  PROVE  IsFiniteSet(Of(u)) /\ Cardinality(Of(u)) \in Nat
<1>1. Of(u) \subseteq Request
  BY DEF Of
<1> QED BY <1>1, FiniteAssumption, FS_Subset, FS_CardinalityType

LEMMA FewRequestsInit == Init => FewRequests
<1> SUFFICES ASSUME Init, NEW u \in User PROVE Cardinality(Of(u)) <= Tabs
  BY DEF FewRequests
<1>1. Of(u) = {}
  BY DEF Init, Of, Running
<1> QED BY <1>1, FS_EmptySet, TabsAssumption

LEMMA FewRequestsNext ==
  ASSUME TypeInv, FewRequests, [Next]_vars
  PROVE  FewRequests'
<1> SUFFICES ASSUME NEW u \in User PROVE Cardinality(Of(u)') <= Tabs
  BY DEF FewRequests
<1>1. ASSUME Of(u)' \subseteq Of(u) PROVE Cardinality(Of(u)') <= Tabs
  <2>1. Cardinality(Of(u)') <= Cardinality(Of(u)) /\ Cardinality(Of(u)') \in Nat
    BY <1>1, RequestsAreFinite, FS_Subset, FS_CardinalityType
  <2> QED BY <2>1, RequestsAreFinite, TabsAssumption DEF FewRequests
<1>2. ASSUME NEW r \in Request, Continues(r) PROVE Of(u)' \subseteq Of(u)
  BY <1>2 DEF Continues, Spares, Of, Running
<1>3. ASSUME NEW r \in Request, Arrival(r) PROVE Cardinality(Of(u)') <= Tabs
  <2>1. PICK c, t, l : Begin(r, c, t, l)
    BY <1>3 DEF Arrival, CreateBegin, JoinBegin, LeaveBegin, UpdateBegin, RenewBegin
  <2>2. call'[r] = c /\ Spares(r) /\ Cardinality(Of(c.user)) < Tabs
    BY <2>1 DEF Begin, Spares, TypeInv, TypeOK
  <2>3. CASE c.user # u
    BY <1>1, <2>2, <2>3 DEF Of, Spares, Running
  <2>4. CASE c.user = u
    <3>1. Of(u)' \subseteq Of(u) \cup {r}
      BY <2>2 DEF Of, Spares, Running
    <3>2. /\ IsFiniteSet(Of(u) \cup {r})
          /\ Cardinality(Of(u) \cup {r}) = IF r \in Of(u) THEN Cardinality(Of(u)) ELSE Cardinality(Of(u)) + 1
      BY RequestsAreFinite, FS_AddElement
    <3>3. Cardinality(Of(u)') <= Cardinality(Of(u) \cup {r}) /\ Cardinality(Of(u)') \in Nat
      BY <3>1, <3>2, FS_Subset, FS_CardinalityType
    <3> QED BY <2>2, <2>4, <3>2, <3>3, RequestsAreFinite, TabsAssumption
  <2> QED BY <2>3, <2>4
<1>4. ASSUME NEW r \in Request, Statement(r) PROVE Of(u)' \subseteq Of(u)
  BY <1>2, <1>4, StatementContinues
<1>5. ASSUME NEW r \in Request, Fault(r) PROVE Of(u)' \subseteq Of(u)
  BY <1>2, <1>5, ReturnContinues DEF Fault
<1>6. ASSUME UNCHANGED <<pc, locals>> PROVE Of(u)' \subseteq Of(u)
  BY <1>6 DEF Of, Running, locals
<1> QED BY <1>1, <1>3, <1>4, <1>5, <1>6 DEF Next, Lock, BadgesImported, Tick, vars

(* A running request has its caller. *)
LEMMA CallerKnown ==
  ASSUME TypeInv, NEW r \in Request, Running(r) PROVE call[r].user \in User
BY DEF TypeInv, TypeOK, Loaded, Running, PC, CreatePC, JoinPC, LeavePC, UpdatePC, RenewPC,
  CreateCall, JoinCall, UpdateCall, OtherCall

LEMMA OneEach ==
  ASSUME OnePerUser, TypeInv, FewRequests
  PROVE  OneRequestPerUser
<1> SUFFICES ASSUME NEW q \in Request, NEW r \in Request, Running(q), Running(r),
                    call[q].user = call[r].user, q # r
             PROVE  FALSE
  BY DEF OneRequestPerUser
<1> DEFINE S == Of(call[q].user)
<1>1. call[q].user \in User /\ q \in S /\ r \in S \ {q}
  BY CallerKnown DEF Of
<1>2. IsFiniteSet(S) /\ Cardinality(S) \in Nat /\ Cardinality(S) <= 1
  BY <1>1, RequestsAreFinite DEF FewRequests, OnePerUser
<1>3. IsFiniteSet(S \ {q}) /\ Cardinality(S \ {q}) = Cardinality(S) - 1
  BY <1>1, <1>2, FS_RemoveElement
<1>4. Cardinality(S \ {q}) \in Nat
  BY <1>3, FS_CardinalityType
<1>5. Cardinality(S \ {q}) = 0
  BY <1>2, <1>3, <1>4
<1> QED BY <1>1, <1>3, <1>5, FS_EmptySet

-----------------------------------------------------------------------------
(* At most one creator. *)

LEMMA CreatorInit == Init => CreatorInv
BY DEF Init, CreatorInv, AtMostOneCreator, Holder, IsCreator, IsMember

(* Steps that write no member and end in no statement CreatorInv is about. *)
LEMMA CreatorQuiet ==
  ASSUME CreatorInv, NEW r \in Request, Spares(r), UNCHANGED members,
         pc'[r] \notin {"createMember", "leaveHeir", "leaveTransfer", "leaveDelete"}
  PROVE  CreatorInv'
BY DEF CreatorInv, AtMostOneCreator, Holder, IsCreator, IsMember, Spares

(* Inserting a plain member changes no creator. *)
LEMMA CreatorJoin ==
  ASSUME TypeInv, CreatorInv, NEW r \in Request, pc[r] = "joinMember",
         InsertMember(team[r], call[r].user, FALSE), Return(r)
  PROVE  CreatorInv'
<1>1. team[r] \in TeamId /\ call[r].user \in User
  BY DEF TypeInv, TypeOK, Loaded, JoinPC, TeamPC, JoinCall
<1>2. \A t \in TeamId, u \in User : IsCreator(t, u)' <=> IsCreator(t, u)
  BY <1>1 DEF InsertMember, IsCreator, IsMember, TypeInv, TypeOK
<1>3. Spares(r) /\ pc'[r] = "idle"
  BY DEF Spares, Return, TypeInv, TypeOK
<1>4. \A q \in Request : pc[q] = "leaveDelete" => team[q] \in TeamId /\ call[q].user \in User
  BY DEF TypeInv, TypeOK, Loaded, LeavePC, TeamPC, OtherCall
<1>5. AtMostOneCreator'
  BY <1>2 DEF CreatorInv, AtMostOneCreator
<1>6. \A q \in Request, t \in TeamId, u \in User : Holder(q, t)' => ~IsCreator(t, u)'
  BY <1>2, <1>3 DEF CreatorInv, Holder, Spares
<1>7. \A p, q \in Request, t \in TeamId : Holder(p, t)' /\ Holder(q, t)' => p = q
  BY <1>3 DEF CreatorInv, Holder, Spares
<1>8. \A q \in Request : pc'[q] = "leaveDelete" /\ member'[q].creator
                        => IsCreator(team[q], call[q].user)'
  BY <1>2, <1>3, <1>4 DEF CreatorInv, Spares, IsCreator, IsMember
<1> QED BY <1>5, <1>6, <1>7, <1>8 DEF CreatorInv

(* The holder makes its creator, or finds the row gone. *)
LEMMA CreatorMade ==
  ASSUME TypeInv, CreatorInv, NEW r \in Request, NEW t \in TeamId, NEW u \in User,
         Holder(r, t), Return(r),
         \A s \in TeamId, v \in User : IsCreator(s, v)' => IsCreator(s, v) \/ (s = t /\ v = u),
         \A s \in TeamId, v \in User : IsCreator(s, v) => IsCreator(s, v)'
  PROVE  CreatorInv'
<1>1. Spares(r) /\ pc'[r] = "idle"
  BY DEF Spares, Return, TypeInv, TypeOK
<1>2. \A v \in User : ~IsCreator(t, v)
  BY DEF CreatorInv
<1>3. \A q \in Request \ {r} : ~Holder(q, t)
  BY DEF CreatorInv
<1>4. AtMostOneCreator'
  BY <1>2 DEF CreatorInv, AtMostOneCreator
<1>5. \A q \in Request, s \in TeamId, v \in User : Holder(q, s)' => ~IsCreator(s, v)'
  BY <1>1, <1>3 DEF CreatorInv, Holder, Spares
<1>6. \A p, q \in Request, s \in TeamId : Holder(p, s)' /\ Holder(q, s)' => p = q
  BY <1>1 DEF CreatorInv, Holder, Spares
<1>7. \A q \in Request : pc[q] = "leaveDelete" => team[q] \in TeamId /\ call[q].user \in User
  BY DEF TypeInv, TypeOK, Loaded, LeavePC, TeamPC, OtherCall
<1>8. \A q \in Request : pc'[q] = "leaveDelete" /\ member'[q].creator
                        => IsCreator(team[q], call[q].user)'
  BY <1>1, <1>7 DEF CreatorInv, Spares
<1> QED BY <1>1, <1>4, <1>5, <1>6, <1>8 DEF CreatorInv, IsCreator, IsMember, Spares

(* A member's row is deleted: if it was the creator's, the right to make   *)
(* the next creator passes to the request.                                 *)
LEMMA CreatorLeaves ==
  ASSUME TypeInv, OneRequestPerUser, CreatorInv, NEW r \in Request, LeaveDelete(r)
  PROVE  CreatorInv'
<1>0. team[r] \in TeamId /\ call[r].user \in User /\ Running(r)
  BY DEF LeaveDelete, Running, TypeInv, TypeOK, Loaded, LeavePC, TeamPC, OtherCall
<1>1. PICK t \in TeamId, u \in User : t = team[r] /\ u = call[r].user
  BY <1>0
<1>2. ~IsMember(t, u)'
  BY <1>1 DEF LeaveDelete, IsMember, TypeInv, TypeOK
<1>3. \A s \in TeamId, v \in User : s # t \/ v # u => members'[s][v] = members[s][v]
  BY <1>1 DEF LeaveDelete, TypeInv, TypeOK
<1>4. \A s \in TeamId, v \in User : IsCreator(s, v)' => IsCreator(s, v) /\ (s # t \/ v # u)
  BY <1>2, <1>3 DEF IsCreator, IsMember
<1>5. Spares(r) /\ (pc'[r] = "idle" \/ (member[r].creator /\ pc'[r] = "leaveHeir" /\ UNCHANGED locals))
  BY <1>0, CheckContinues DEF LeaveDelete, Continues, PC, LeavePC
<1>6. ASSUME member[r].creator PROVE IsCreator(t, u)
  BY <1>1, <1>6 DEF CreatorInv, LeaveDelete
<1>7. AtMostOneCreator'
  BY <1>4 DEF CreatorInv, AtMostOneCreator
<1>8. ASSUME NEW q \in Request, NEW s \in TeamId, NEW v \in User, Holder(q, s)'
      PROVE  ~IsCreator(s, v)'
  <2>1. CASE q # r
    BY <1>4, <1>5, <1>8, <2>1 DEF CreatorInv, Holder, Spares
  <2>2. CASE q = r
    <3>1. member[r].creator /\ s = t
      BY <1>1, <1>5, <1>8, <2>2 DEF Holder, locals
    <3> QED BY <1>1, <1>4, <1>6, <3>1 DEF CreatorInv, AtMostOneCreator
  <2> QED BY <2>1, <2>2
<1>9. ASSUME NEW p \in Request, NEW q \in Request, NEW s \in TeamId, Holder(p, s)', Holder(q, s)'
      PROVE  p = q
  <2>1. CASE p # r /\ q # r
    BY <1>5, <1>9, <2>1 DEF CreatorInv, Holder, Spares
  <2>2. ASSUME NEW x \in Request, x # r, Holder(x, s)', Holder(r, s)' PROVE FALSE
    <3>1. Holder(x, s)
      BY <1>5, <2>2 DEF Holder, Spares
    <3>2. member[r].creator /\ s = t
      BY <1>1, <1>5, <2>2 DEF Holder, locals
    <3> QED BY <1>1, <1>6, <3>1, <3>2 DEF CreatorInv
  <2> QED BY <1>9, <2>1, <2>2
<1>10. ASSUME NEW q \in Request, pc'[q] = "leaveDelete", member'[q].creator
       PROVE  IsCreator(team[q], call[q].user)' /\ team'[q] = team[q] /\ call'[q] = call[q]
  <2>1. q # r /\ pc[q] = "leaveDelete" /\ member[q].creator /\ team'[q] = team[q] /\ call'[q] = call[q]
    BY <1>5, <1>10 DEF Spares
  <2>2. team[q] \in TeamId /\ call[q].user \in User /\ call[q].user # u
    BY <1>0, <1>1, <2>1 DEF OneRequestPerUser, Running, TypeInv, TypeOK, Loaded, LeavePC, TeamPC, OtherCall
  <2>3. IsCreator(team[q], call[q].user)
    BY <2>1 DEF CreatorInv
  <2> QED BY <1>3, <2>1, <2>2, <2>3 DEF IsCreator, IsMember
<1> QED BY <1>7, <1>8, <1>9, <1>10 DEF CreatorInv, IsCreator, IsMember

LEMMA CreatorNext ==
  ASSUME TypeInv, OneRequestPerUser, CreatorInv, [Next]_vars
  PROVE  CreatorInv'
<1>1. ASSUME NEW r \in Request, Arrival(r) PROVE CreatorInv'
  <2>1. \E c, t : \E l \in PC \ {"createMember", "leaveHeir", "leaveTransfer", "leaveDelete"} :
          Begin(r, c, t, l)
    <3> USE DEF PC, CreatePC, JoinPC, LeavePC, UpdatePC, RenewPC
    <3>1. CASE CreateBegin(r)
      BY <3>1 DEF CreateBegin
    <3>2. CASE JoinBegin(r)
      BY <3>2 DEF JoinBegin
    <3>3. CASE LeaveBegin(r)
      BY <3>3 DEF LeaveBegin
    <3>4. CASE UpdateBegin(r)
      BY <3>4 DEF UpdateBegin
    <3>5. CASE RenewBegin(r)
      BY <3>5 DEF RenewBegin
    <3> QED BY <1>1, <3>1, <3>2, <3>3, <3>4, <3>5 DEF Arrival
  <2>2. UNCHANGED members
    BY <1>1 DEF Arrival, CreateBegin, JoinBegin, LeaveBegin, UpdateBegin, RenewBegin, tables
  <2>3. Spares(r) /\ pc'[r] \notin {"createMember", "leaveHeir", "leaveTransfer", "leaveDelete"}
    BY <2>1 DEF Begin, Spares, TypeInv, TypeOK
  <2> QED BY <2>2, <2>3, CreatorQuiet
<1>2. ASSUME NEW r \in Request, Statement(r) PROVE CreatorInv'
  <2>0. Loaded(r) /\ Spares(r)
    BY <1>2, StatementContinues DEF TypeInv, TypeOK, Continues
  <2>1. CASE CreateNotInTeam(r)
    BY <2>1, CheckContinues, CreatorQuiet DEF CreateNotInTeam, tables, Continues, Running, PC, CreatePC, JoinPC, LeavePC, UpdatePC, RenewPC
  <2>2. CASE CreateName(r)
    BY <2>2, CheckContinues, CreatorQuiet DEF CreateName, tables, Continues, Running, PC, CreatePC, JoinPC, LeavePC, UpdatePC, RenewPC
  <2>3. CASE JoinNotInTeam(r)
    BY <2>3, CheckContinues, CreatorQuiet DEF JoinNotInTeam, tables, Continues, Running, PC, CreatePC, JoinPC, LeavePC, UpdatePC, RenewPC
  <2>4. CASE JoinSize(r)
    BY <2>4, CheckContinues, CreatorQuiet DEF JoinSize, tables, Continues, Running, PC, CreatePC, JoinPC, LeavePC, UpdatePC, RenewPC
  <2>5. CASE RenewLoad(r)
    BY <2>5, CheckContinues, CreatorQuiet DEF RenewLoad, tables, Continues, Running, PC, CreatePC, JoinPC, LeavePC, UpdatePC, RenewPC
  <2>6. CASE LeaveMarkDeleted(r)
    BY <2>6, ReturnContinues, CreatorQuiet DEF LeaveMarkDeleted, tables, Continues
  <2>7. CASE UpdateSave(r)
    BY <2>7, ReturnContinues, CreatorQuiet DEF UpdateSave, tables, Continues
  <2>8. CASE RenewSave(r)
    BY <2>8, ReturnContinues, CreatorQuiet DEF RenewSave, tables, Continues
  <2>9. CASE JoinFind(r)
    BY <2>9, <2>0, CreatorQuiet DEF JoinFind, tables, Goto, Return, TypeInv, TypeOK
  <2>10. CASE UpdateLoad(r)
    BY <2>10, <2>0, CreatorQuiet DEF UpdateLoad, tables, Goto, Return, TypeInv, TypeOK
  <2>11. CASE CreateTeam(r)
    <3>1. CASE Return(r)
      BY <2>11, <3>1, ReturnContinues, CreatorQuiet DEF CreateTeam, Continues
    <3>2. CASE ~Return(r)
      <4>1. PICK t \in TeamId : /\ ~Exists(t) /\ team' = [team EXCEPT ![r] = t]
                               /\ Goto(r, "createMember")
                               /\ UNCHANGED <<members, call, member>>
        BY <2>11, <3>2 DEF CreateTeam
      <4>2. team'[r] = t /\ pc'[r] = "createMember"
        BY <4>1 DEF Goto, TypeInv, TypeOK
      <4>3. \A u \in User : ~IsCreator(t, u)
        BY <4>1 DEF IsCreator, NoOrphans, TypeInv
      <4>4. \A q \in Request : ~Holder(q, t)
        BY <4>1 DEF Holder, TypeInv, TypeOK, Loaded, TeamPC, LeavePC
      <4>5. \A q \in Request, s \in TeamId : Holder(q, s)' => Holder(q, s) \/ (q = r /\ s = t)
        BY <2>0, <4>2 DEF Holder, Spares
      <4> QED BY <2>0, <4>1, <4>2, <4>3, <4>4, <4>5
              DEF CreatorInv, AtMostOneCreator, IsCreator, IsMember, Spares
    <3> QED BY <3>1, <3>2
  <2>12. CASE CreateMember(r)
    <3>1. team[r] \in TeamId /\ call[r].user \in User /\ Holder(r, team[r])
      BY <2>12, <2>0 DEF CreateMember, Holder, Loaded, CreatePC, TeamPC, CreateCall
    <3>2. \A s \in TeamId, v \in User :
             /\ IsCreator(s, v)' => IsCreator(s, v) \/ (s = team[r] /\ v = call[r].user)
             /\ IsCreator(s, v) => IsCreator(s, v)'
      BY <2>12, <3>1 DEF CreateMember, InsertMember, IsCreator, IsMember, TypeInv, TypeOK
    <3> QED BY <2>12, <3>1, <3>2, CreatorMade DEF CreateMember
  <2>13. CASE JoinMember(r)
    BY <2>13, CreatorJoin DEF JoinMember
  <2>14. CASE LeaveLoad(r)
    <3>1. CASE Return(r)
      BY <2>14, <3>1, ReturnContinues, CreatorQuiet DEF LeaveLoad, tables, Continues
    <3>2. CASE ~Return(r)
      <4>1. /\ pc[r] = "leaveLoad" /\ IsMember(team[r], call[r].user)
            /\ member' = [member EXCEPT ![r] = members[team[r]][call[r].user]]
            /\ Goto(r, "leaveDelete") /\ UNCHANGED <<call, team, members>>
        BY <2>14, <3>2 DEF LeaveLoad, tables
      <4>2. pc'[r] = "leaveDelete" /\ member'[r] = members[team[r]][call[r].user]
        BY <4>1 DEF Goto, TypeInv, TypeOK
      <4>3. \A q \in Request, s \in TeamId : Holder(q, s)' => Holder(q, s)
        BY <2>0, <4>2 DEF Holder, Spares
      <4>4. \A q \in Request : pc'[q] = "leaveDelete" /\ member'[q].creator
                              => IsCreator(team[q], call[q].user)
        BY <2>0, <4>1, <4>2 DEF CreatorInv, Spares, IsCreator
      <4> QED BY <4>1, <4>3, <4>4 DEF CreatorInv, AtMostOneCreator, IsCreator, IsMember
    <3> QED BY <3>1, <3>2
  <2>15. CASE LeaveDelete(r)
    BY <2>15, CreatorLeaves
  <2>16. CASE LeaveHeir(r)
    <3>1. UNCHANGED <<members, call, team, member>> /\ pc[r] = "leaveHeir"
      BY <2>16 DEF LeaveHeir, tables, locals
    <3>2. pc'[r] \in {"leaveMarkDeleted", "leaveTransfer"}
      BY <2>16 DEF LeaveHeir, Goto, TypeInv, TypeOK
    <3>3. \A q \in Request, s \in TeamId : Holder(q, s)' => Holder(q, s)
      BY <2>0, <3>1, <3>2 DEF Holder, Spares
    <3> QED BY <2>0, <3>1, <3>2, <3>3
            DEF CreatorInv, AtMostOneCreator, IsCreator, IsMember, Spares
  <2>17. CASE LeaveTransfer(r)
    <3>1. team[r] \in TeamId /\ heir[r] \in User /\ Holder(r, team[r])
      BY <2>17, <2>0 DEF LeaveTransfer, Holder, Loaded, LeavePC, TeamPC
    <3>2. \A s \in TeamId, v \in User :
             s # team[r] \/ v # heir[r] => members'[s][v] = members[s][v]
      BY <2>17, <3>1 DEF LeaveTransfer, TypeInv, TypeOK
    <3>3. ~IsCreator(team[r], heir[r])
      BY <3>1 DEF CreatorInv
    <3>4. \A s \in TeamId, v \in User :
             /\ IsCreator(s, v)' => IsCreator(s, v) \/ (s = team[r] /\ v = heir[r])
             /\ IsCreator(s, v) => IsCreator(s, v)'
      BY <3>2, <3>3 DEF IsCreator, IsMember
    <3> QED BY <2>17, <3>1, <3>4, CreatorMade DEF LeaveTransfer
  <2> QED BY <1>2, <2>1, <2>2, <2>3, <2>4, <2>5, <2>6, <2>7, <2>8, <2>9, <2>10, <2>11, <2>12, <2>13, <2>14, <2>15, <2>16, <2>17
          DEF Statement
<1>3. ASSUME NEW r \in Request, Fault(r) PROVE CreatorInv'
  BY <1>3, ReturnContinues, CreatorQuiet DEF Fault, tables, Continues
<1>4. ASSUME UNCHANGED <<members, pc, locals>> PROVE CreatorInv'
  BY <1>4 DEF CreatorInv, AtMostOneCreator, Holder, IsCreator, IsMember, locals
<1> QED BY <1>1, <1>2, <1>3, <1>4 DEF Next, Lock, BadgesImported, Tick, vars, tables

-----------------------------------------------------------------------------
(* The teams of a contest a user is in. *)

(* A team stays in its contest. *)
ContestsStay == \A t \in TeamId : Exists(t) => Exists(t)' /\ teams'[t].contest = teams[t].contest

NoNewMembers == \A t \in TeamId, u \in User : IsMember(t, u)' => IsMember(t, u)

(* The team a request has found is of the contest it asked for, and the    *)
(* struct it will save of the contest of its team.                         *)
RightContests ==
  /\ \A r \in Request : pc[r] \in {"joinSize", "joinMember", "createMember"}
                        => teams[team[r]].contest = call[r].contest
  /\ \A r \in Request : pc[r] = "updateSave" => row[r].contest = teams[team[r]].contest

RightContest(r) ==
  /\ pc[r] \in {"joinSize", "joinMember", "createMember"}
     => teams[team[r]].contest = call[r].contest
  /\ pc[r] = "updateSave" => row[r].contest = teams[team[r]].contest

LEMMA RightContestKept ==
  ASSUME TypeInv, RightContests, ContestsStay, NEW q \in Request,
         pc'[q] = pc[q], call'[q] = call[q], team'[q] = team[q], row'[q] = row[q]
  PROVE  RightContest(q)'
BY DEF RightContest, RightContests, ContestsStay, TypeInv, TypeOK, Loaded, TeamPC, UpdatePC

LEMMA ContestsByOne ==
  ASSUME TypeInv, RightContests, ContestsStay, NEW r \in Request, Spares(r), RightContest(r)'
  PROVE  ContestsStay /\ RightContests'
<1> SUFFICES ASSUME NEW q \in Request, q # r PROVE RightContest(q)'
  BY DEF RightContest, RightContests
<1> QED BY RightContestKept DEF Spares

(* A row written over another of the same contest. *)
LEMMA ContestWritten ==
  ASSUME TypeInv, NEW t \in TeamId, NEW x \in TeamRow, x.contest = teams[t].contest,
         teams' = [teams EXCEPT ![t] = x]
  PROVE  ContestsStay
BY NoneAssumption DEF ContestsStay, Exists, TypeInv, TypeOK

LEMMA ContestsNext ==
  ASSUME TypeInv, RightContests, [Next]_vars
  PROVE  ContestsStay /\ RightContests'
<1>0. UNCHANGED teams => ContestsStay
  BY DEF ContestsStay, Exists
<1>1. ASSUME NEW r \in Request, Arrival(r) PROVE ContestsStay /\ RightContests'
  <2>1. \E c, t : \E l \in {"createNotInTeam", "joinNotInTeam", "leaveLoad", "updateLoad", "renewLoad"} :
          Begin(r, c, t, l)
    BY <1>1 DEF Arrival, CreateBegin, JoinBegin, LeaveBegin, UpdateBegin, RenewBegin
  <2>2. UNCHANGED teams
    BY <1>1 DEF Arrival, CreateBegin, JoinBegin, LeaveBegin, UpdateBegin, RenewBegin, tables
  <2>3. Spares(r) /\ RightContest(r)'
    BY <2>1 DEF Begin, Spares, RightContest, TypeInv, TypeOK
  <2> QED BY <1>0, <2>2, <2>3, ContestsByOne
<1>2. ASSUME NEW r \in Request, Statement(r) PROVE ContestsStay /\ RightContests'
  <2>0. Loaded(r) /\ Spares(r)
    BY <1>2, StatementContinues DEF TypeInv, TypeOK, Continues
  <2>1. ASSUME Return(r) PROVE RightContest(r)'
    BY <2>1 DEF Return, RightContest, TypeInv, TypeOK
  <2>2. CASE CreateTeam(r)
    <3>1. CASE Return(r) /\ UNCHANGED teams
      BY <3>1, <1>0, <2>0, <2>1, ContestsByOne
    <3>2. CASE ~(Return(r) /\ UNCHANGED teams)
      <4>1. PICK t \in TeamId, k \in Code :
              /\ ~Exists(t)
              /\ teams' = [teams EXCEPT ![t] =
                   [contest |-> call[r].contest, name |-> call[r].name, code |-> k,
                    open |-> TRUE, locked |-> FALSE, deleted |-> FALSE]]
              /\ team' = [team EXCEPT ![r] = t]
              /\ Goto(r, "createMember")
              /\ UNCHANGED <<members, call, row>>
        BY <2>2, <3>2 DEF CreateTeam
      <4>2. RightContest(r)'
        BY <4>1 DEF Goto, RightContest, TypeInv, TypeOK
      <4>3. ContestsStay
        BY <4>1 DEF ContestsStay, Exists, TypeInv, TypeOK
      <4> QED BY <2>0, <4>2, <4>3, ContestsByOne
    <3> QED BY <3>1, <3>2
  <2>3. CASE JoinFind(r)
    <3>1. CASE Return(r)
      BY <2>3, <3>1, <1>0, <2>0, <2>1, ContestsByOne DEF JoinFind, tables
    <3>2. CASE ~Return(r)
      <4>1. RightContest(r)'
        BY <2>3, <3>2 DEF JoinFind, Joinable, Goto, RightContest, tables, TypeInv, TypeOK
      <4> QED BY <2>3, <4>1, <1>0, <2>0, ContestsByOne DEF JoinFind, tables
    <3> QED BY <3>1, <3>2
  <2>4. CASE JoinSize(r)
    <3>1. RightContest(r)'
      BY <2>1, <2>4 DEF JoinSize, Check, Goto, RightContest, RightContests, tables, locals, TypeInv, TypeOK
    <3> QED BY <2>4, <3>1, <1>0, <2>0, ContestsByOne DEF JoinSize, tables
  <2>5. CASE UpdateLoad(r)
    <3>1. CASE Return(r)
      BY <2>5, <3>1, <1>0, <2>0, <2>1, ContestsByOne DEF UpdateLoad, tables
    <3>2. CASE ~Return(r)
      <4> DEFINE x == [teams[team[r]] EXCEPT !.open = call[r].open]
      <4>1. /\ pc[r] = "updateLoad"
            /\ row' = [row EXCEPT ![r] = x] /\ Goto(r, "updateSave")
            /\ UNCHANGED <<teams, team>>
        BY <2>5, <3>2 DEF UpdateLoad, tables
      <4>2. teams[team[r]] \in TeamRow
        BY <2>0, <4>1 DEF Loaded, UpdatePC, TeamPC, Exists, TypeInv, TypeOK
      <4>3. x.contest = teams[team[r]].contest
        BY <4>2 DEF TeamRow
      <4> HIDE DEF x
      <4>4. RightContest(r)'
        BY <4>1, <4>3 DEF Goto, RightContest, TypeInv, TypeOK
      <4> QED BY <1>0, <2>0, <4>1, <4>4, ContestsByOne
    <3> QED BY <3>1, <3>2
  <2>6. CASE UpdateSave(r)
    <3>1. row[r] \in TeamRow /\ team[r] \in TeamId /\ row[r].contest = teams[team[r]].contest
      BY <2>0, <2>6 DEF UpdateSave, Loaded, UpdatePC, TeamPC, RightContests
    <3>2. ContestsStay
      BY <2>6, <3>1, ContestWritten DEF UpdateSave
    <3> QED BY <2>0, <2>1, <2>6, <3>2, ContestsByOne DEF UpdateSave
  <2>7. CASE LeaveMarkDeleted(r)
    <3>1. team[r] \in TeamId /\ teams[team[r]] \in TeamRow
      BY <2>0, <2>7 DEF LeaveMarkDeleted, Loaded, LeavePC, TeamPC, Exists, TypeInv, TypeOK
    <3>2. /\ [teams[team[r]] EXCEPT !.deleted = TRUE] \in TeamRow
          /\ [teams[team[r]] EXCEPT !.deleted = TRUE].contest = teams[team[r]].contest
      BY <3>1 DEF TeamRow
    <3>3. ContestsStay
      BY <2>7, <3>1, <3>2, ContestWritten DEF LeaveMarkDeleted
    <3> QED BY <2>0, <2>1, <2>7, <3>3, ContestsByOne DEF LeaveMarkDeleted
  <2>8. CASE RenewSave(r)
    <3>1. team[r] \in TeamId /\ teams[team[r]] \in TeamRow
      BY <2>0, <2>8 DEF RenewSave, Loaded, RenewPC, TeamPC, Exists, TypeInv, TypeOK
    <3>2. ASSUME NEW k \in Code, teams' = [teams EXCEPT ![team[r]].code = k] PROVE ContestsStay
      <4>1. /\ [teams[team[r]] EXCEPT !.code = k] \in TeamRow
            /\ [teams[team[r]] EXCEPT !.code = k].contest = teams[team[r]].contest
        BY <3>1 DEF TeamRow
      <4> QED BY <3>1, <3>2, <4>1, ContestWritten
    <3>3. ContestsStay
      BY <1>0, <2>8, <3>2 DEF RenewSave
    <3> QED BY <2>0, <2>1, <2>8, <3>3, ContestsByOne DEF RenewSave
  <2>9. CASE \/ CreateNotInTeam(r) \/ CreateName(r) \/ CreateMember(r)
             \/ JoinNotInTeam(r) \/ JoinMember(r)
             \/ LeaveLoad(r) \/ LeaveDelete(r) \/ LeaveHeir(r) \/ LeaveTransfer(r)
             \/ RenewLoad(r)
    <3>1. UNCHANGED teams
      BY <2>9 DEF CreateNotInTeam, CreateName, CreateMember, JoinNotInTeam, JoinMember,
        LeaveLoad, LeaveDelete, LeaveHeir, LeaveTransfer, RenewLoad, tables
    <3>2. Return(r) \/ \E l \in PC \ {"joinSize", "joinMember", "createMember", "updateSave"} : Goto(r, l)
      BY <2>9 DEF CreateNotInTeam, CreateName, CreateMember, JoinNotInTeam, JoinMember,
        LeaveLoad, LeaveDelete, LeaveHeir, LeaveTransfer, RenewLoad, Check,
        PC, CreatePC, JoinPC, LeavePC, UpdatePC, RenewPC
    <3>3. RightContest(r)'
      BY <2>1, <3>2 DEF Goto, RightContest, TypeInv, TypeOK
    <3> QED BY <1>0, <2>0, <3>1, <3>3, ContestsByOne
  <2> QED BY <1>2, <2>2, <2>3, <2>4, <2>5, <2>6, <2>7, <2>8, <2>9 DEF Statement
<1>3. ASSUME NEW r \in Request, Fault(r) PROVE ContestsStay /\ RightContests'
  <2>1. Spares(r) /\ pc'[r] = "idle" /\ UNCHANGED teams
    BY <1>3, ReturnContinues DEF Fault, Continues, tables
  <2>2. RightContest(r)'
    BY <2>1 DEF RightContest
  <2> QED BY <1>0, <2>1, <2>2, ContestsByOne
<1>4. ASSUME NEW t \in TeamId, Lock(t) PROVE ContestsStay /\ RightContests'
  <2>1. teams[t] \in TeamRow
    BY <1>4 DEF Lock, Exists, TypeInv, TypeOK
  <2>2. /\ [teams[t] EXCEPT !.locked = TRUE] \in TeamRow
        /\ [teams[t] EXCEPT !.locked = TRUE].contest = teams[t].contest
    BY <2>1 DEF TeamRow
  <2>3. ContestsStay
    BY <1>4, <2>2, ContestWritten DEF Lock
  <2>4. ASSUME NEW q \in Request PROVE RightContest(q)'
    BY <1>4, <2>3, RightContestKept DEF Lock, locals
  <2> QED BY <2>3, <2>4 DEF RightContest, RightContests
<1>5. ASSUME UNCHANGED <<teams, pc, locals>> PROVE ContestsStay /\ RightContests'
  BY <1>0, <1>5 DEF RightContests, locals
<1> QED BY <1>1, <1>2, <1>3, <1>4, <1>5 DEF Next, BadgesImported, Tick, vars, tables

(* The request that inserts a member. *)
Inserts(r) ==
  /\ pc[r] \in {"createMember", "joinMember"}
  /\ \E b \in BOOLEAN : InsertMember(team[r], call[r].user, b)
  /\ Return(r) /\ UNCHANGED teams

LEMMA MembersStep ==
  ASSUME TypeInv, [Next]_vars
  PROVE  NoNewMembers \/ \E r \in Request : Inserts(r)
<1>0. UNCHANGED members => NoNewMembers
  BY DEF NoNewMembers, IsMember
<1>1. ASSUME NEW r \in Request, Statement(r) PROVE NoNewMembers \/ Inserts(r)
  <2>0. Loaded(r)
    BY DEF TypeInv, TypeOK
  <2>1. CASE CreateMember(r) \/ JoinMember(r)
    BY <2>1 DEF CreateMember, JoinMember, Inserts
  <2>2. CASE LeaveDelete(r)
    BY <2>0, <2>2 DEF LeaveDelete, NoNewMembers, IsMember, TypeInv, TypeOK, Loaded,
      LeavePC, TeamPC, OtherCall
  <2>3. CASE LeaveTransfer(r)
    BY <2>0, <2>3 DEF LeaveTransfer, NoNewMembers, IsMember, TypeInv, TypeOK, Loaded,
      LeavePC, TeamPC
  <2>4. CASE \/ CreateNotInTeam(r) \/ CreateName(r) \/ CreateTeam(r)
             \/ JoinNotInTeam(r) \/ JoinFind(r) \/ JoinSize(r)
             \/ LeaveLoad(r) \/ LeaveHeir(r) \/ LeaveMarkDeleted(r)
             \/ UpdateLoad(r) \/ UpdateSave(r) \/ RenewLoad(r) \/ RenewSave(r)
    BY <1>0, <2>4 DEF CreateNotInTeam, CreateName, CreateTeam, JoinNotInTeam, JoinFind,
      JoinSize, LeaveLoad, LeaveHeir, LeaveMarkDeleted, UpdateLoad, UpdateSave, RenewLoad,
      RenewSave, tables
  <2> QED BY <1>1, <2>1, <2>2, <2>3, <2>4 DEF Statement
<1>2. ASSUME UNCHANGED members PROVE NoNewMembers
  BY <1>0, <1>2
<1> QED BY <1>1, <1>2 DEF Next, Arrival, CreateBegin, JoinBegin, LeaveBegin, UpdateBegin,
      RenewBegin, Fault, Lock, BadgesImported, Tick, vars, tables

(* A request gets past the membership test by that test alone. *)
Tested(q) ==
  /\ pc[q] \in {"createNotInTeam", "joinNotInTeam"}
  /\ NotInAnyTeam(call[q].user, call[q].contest) /\ UNCHANGED <<teams, members>>

LEMMA JoiningStep ==
  ASSUME TypeInv, [Next]_vars, NEW q \in Request, pc'[q] \in Joining
  PROVE  call'[q] = call[q] /\ (pc[q] \in Joining \/ Tested(q))
<1>1. ASSUME NEW r \in Request, Spares(r), r = q => pc'[r] \notin Joining
      PROVE  call'[q] = call[q] /\ pc[q] \in Joining
  BY <1>1 DEF Spares
<1>2. ASSUME NEW r \in Request, Arrival(r) PROVE call'[q] = call[q] /\ pc[q] \in Joining
  <2>1. \E c, t : \E l \in {"createNotInTeam", "joinNotInTeam", "leaveLoad", "updateLoad", "renewLoad"} :
          Begin(r, c, t, l)
    BY <1>2 DEF Arrival, CreateBegin, JoinBegin, LeaveBegin, UpdateBegin, RenewBegin
  <2> QED BY <1>1, <2>1 DEF Begin, Spares, Joining, TypeInv, TypeOK
<1>3. ASSUME NEW r \in Request, Statement(r)
      PROVE  call'[q] = call[q] /\ (pc[q] \in Joining \/ Tested(q))
  <2>0. Continues(r)
    BY <1>3, StatementContinues
  <2>1. CASE r # q \/ pc'[r] = "idle"
    BY <1>1, <2>0, <2>1 DEF Continues, Joining
  <2>2. CASE r = q /\ pc'[r] # "idle"
    <3>1. call'[q] = call[q]
      BY <2>0, <2>2 DEF Continues
    <3>2. CASE CreateNotInTeam(r) \/ JoinNotInTeam(r)
      <4>1. pc[r] \in {"createNotInTeam", "joinNotInTeam"} /\ UNCHANGED <<teams, members>>
        BY <3>2 DEF CreateNotInTeam, JoinNotInTeam, tables
      <4>2. ~Return(r)
        BY <2>2 DEF Return, TypeInv, TypeOK
      <4>3. NotInAnyTeam(call[r].user, call[r].contest)
        BY <3>2, <4>2 DEF CreateNotInTeam, JoinNotInTeam, Check
      <4> QED BY <2>2, <3>1, <4>1, <4>3 DEF Tested
    <3>3. CASE \/ CreateName(r) \/ CreateTeam(r) \/ CreateMember(r)
               \/ JoinFind(r) \/ JoinSize(r) \/ JoinMember(r)
      BY <2>2, <3>1, <3>3 DEF CreateName, CreateTeam, CreateMember, JoinFind, JoinSize,
        JoinMember, Joining
    <3>4. CASE \/ LeaveLoad(r) \/ LeaveDelete(r) \/ LeaveHeir(r)
               \/ LeaveMarkDeleted(r) \/ LeaveTransfer(r)
               \/ UpdateLoad(r) \/ UpdateSave(r) \/ RenewLoad(r) \/ RenewSave(r)
      <4>1. Return(r) \/ \E l \in PC \ Joining : Goto(r, l)
        BY <3>4 DEF LeaveLoad, LeaveDelete, LeaveHeir, LeaveMarkDeleted, LeaveTransfer,
          UpdateLoad, UpdateSave, RenewLoad, RenewSave, Check, Joining,
          PC, CreatePC, JoinPC, LeavePC, UpdatePC, RenewPC
      <4>2. pc'[r] \notin Joining
        BY <4>1 DEF Return, Goto, Joining, TypeInv, TypeOK
      <4> QED BY <2>2, <4>2
    <3> QED BY <1>3, <3>2, <3>3, <3>4 DEF Statement
  <2> QED BY <2>1, <2>2
<1>4. ASSUME NEW r \in Request, Fault(r) PROVE call'[q] = call[q] /\ pc[q] \in Joining
  <2>1. Spares(r) /\ pc'[r] = "idle"
    BY <1>4, ReturnContinues DEF Fault, Continues
  <2> QED BY <1>1, <2>1 DEF Joining
<1>5. ASSUME UNCHANGED <<pc, locals>> PROVE call'[q] = call[q] /\ pc[q] \in Joining
  BY <1>5 DEF locals
<1> QED BY <1>2, <1>3, <1>4, <1>5 DEF Next, Lock, BadgesImported, Tick, vars

LEMMA JoiningCaller ==
  ASSUME TypeInv, [Next]_vars, NEW q \in Request, pc'[q] \in Joining
  PROVE  Running(q) /\ call[q].user \in User
<1>1. Running(q)
  BY JoiningStep DEF Tested, Joining, Running
<1> QED BY <1>1, CallerKnown

(* What an insertion changes. *)
LEMMA InsertsOne ==
  ASSUME TypeInv, NEW r \in Request, Inserts(r)
  PROVE  /\ call[r].user \in User /\ team[r] \in TeamId /\ Exists(team[r])
         /\ pc'[r] = "idle"
         /\ \A t \in TeamId, u \in User :
              IsMember(t, u)' => IsMember(t, u) \/ (t = team[r] /\ u = call[r].user)
<1>1. call[r].user \in User /\ team[r] \in TeamId /\ Exists(team[r])
  BY DEF Inserts, TypeInv, TypeOK, Loaded, CreatePC, JoinPC, TeamPC, CreateCall, JoinCall
<1>2. pc'[r] = "idle"
  BY DEF Inserts, Return, TypeInv, TypeOK
<1>3. \A t \in TeamId, u \in User :
        IsMember(t, u)' => IsMember(t, u) \/ (t = team[r] /\ u = call[r].user)
  BY <1>1 DEF Inserts, InsertMember, IsMember, TypeInv, TypeOK
<1> QED BY <1>1, <1>2, <1>3

LEMMA MembershipInit == Init => MembershipInv
BY DEF Init, MembershipInv, OneTeamPerContest, IsMember, Joining

(* With one request at a time per user, the test made two statements       *)
(* before the insert is still true when the row is inserted: no other      *)
(* request is about the same user.                                         *)
LEMMA MembershipNext ==
  ASSUME TypeInv, OneRequestPerUser, MembershipInv, [Next]_vars
  PROVE  MembershipInv'
<1>1. ContestsStay /\ RightContests'
  BY ContestsNext DEF MembershipInv, RightContests
<1>2. ASSUME NEW q \in Request, pc'[q] \in Joining, NEW u \in User, u = call[q].user,
             \A t \in TeamId : IsMember(t, u)' => IsMember(t, u)
      PROVE  NotInAnyTeam(call[q].user, call[q].contest)'
  <2>1. call'[q] = call[q] /\ (pc[q] \in Joining \/ Tested(q))
    BY <1>2, JoiningStep
  <2>2. NotInAnyTeam(call[q].user, call[q].contest)
    BY <2>1 DEF Tested, MembershipInv
  <2> DEFINE c == call[q].contest
  <2>4. ASSUME NEW t \in TeamId, Exists(t)', teams'[t].contest = c PROVE ~IsMember(t, u)'
    <3>1. (Exists(t) /\ teams[t].contest = c) \/ ~IsMember(t, u)
      BY <1>1, <1>2, <2>4 DEF ContestsStay, TypeInv, NoOrphans
    <3> QED BY <1>2, <2>2, <3>1 DEF NotInAnyTeam
  <2> QED BY <1>2, <2>1, <2>4 DEF NotInAnyTeam
<1>3. CASE NoNewMembers
  <2>1. OneTeamPerContest'
    BY <1>1, <1>3 DEF MembershipInv, OneTeamPerContest, ContestsStay, NoNewMembers, TypeInv, NoOrphans
  <2>2. ASSUME NEW q \in Request, pc'[q] \in Joining
        PROVE  NotInAnyTeam(call[q].user, call[q].contest)'
    <3>1. call[q].user \in User
      BY <2>2, JoiningCaller
    <3> QED BY <1>2, <1>3, <2>2, <3>1 DEF NoNewMembers
  <2> QED BY <1>1, <2>1, <2>2 DEF MembershipInv, RightContests, NotInAnyTeam
<1>4. ASSUME NEW r \in Request, Inserts(r) PROVE MembershipInv'
  <2> DEFINE s == team[r]  v == call[r].user
  <2>1. /\ v \in User /\ s \in TeamId /\ Exists(s) /\ pc'[r] = "idle"
        /\ \A t \in TeamId, u \in User :
             IsMember(t, u)' => IsMember(t, u) \/ (t = s /\ u = v)
    BY <1>4, InsertsOne
  <2>2. /\ NotInAnyTeam(v, teams[s].contest)
        /\ \A t \in TeamId : (Exists(t)' <=> Exists(t)) /\ teams'[t] = teams[t]
    BY <1>4 DEF Inserts, MembershipInv, Joining, Exists
  <2>3. OneTeamPerContest'
    <3> SUFFICES ASSUME NEW u \in User, NEW t1 \in TeamId, NEW t2 \in TeamId,
                        IsMember(t1, u)', IsMember(t2, u)', Exists(t1)', Exists(t2)',
                        teams'[t1].contest = teams'[t2].contest
                 PROVE  t1 = t2
      BY DEF OneTeamPerContest
    <3>1. CASE u # v
      BY <2>1, <2>2, <3>1 DEF MembershipInv, OneTeamPerContest
    <3>2. CASE u = v
      <4>1. \A t \in TeamId : Exists(t) /\ teams[t].contest = teams[s].contest => ~IsMember(t, v)
        BY <2>2 DEF NotInAnyTeam
      <4> QED BY <2>1, <2>2, <3>2, <4>1 DEF MembershipInv, OneTeamPerContest
    <3> QED BY <3>1, <3>2
  <2>4. ASSUME NEW q \in Request, pc'[q] \in Joining
        PROVE  NotInAnyTeam(call[q].user, call[q].contest)'
    <3>1. q # r /\ Running(q) /\ call[q].user \in User
      BY <2>1, <2>4, JoiningCaller DEF Joining
    <3>2. call[q].user # v
      BY <1>4, <3>1 DEF Inserts, OneRequestPerUser, Running
    <3> QED BY <1>2, <2>1, <2>4, <3>1, <3>2
  <2> QED BY <1>1, <2>3, <2>4 DEF MembershipInv, RightContests, NotInAnyTeam
<1> QED BY <1>3, <1>4, MembersStep

(* Of users who do not wait: each request past the test is a membership to *)
(* come, and a test is only passed by a user in no team, so that those     *)
(* requests are of the Tabs that are under way.                            *)
Joiners(u, c) == {r \in Request : pc[r] \in Joining /\ call[r].user = u /\ call[r].contest = c}
Counted(u, c) ==
  /\ IsFiniteSet(TeamsOf(u, c))
  /\ Cardinality(TeamsOf(u, c)) + Cardinality(Joiners(u, c)) <= Tabs
TabsInv == RightContests /\ \A u \in User, c \in Contest : Counted(u, c)

LEMMA JoinersAreFew ==
  ASSUME NEW u, NEW c
  PROVE  IsFiniteSet(Joiners(u, c)) /\ Cardinality(Joiners(u, c)) \in Nat
<1>1. Joiners(u, c) \subseteq Request
  BY DEF Joiners
<1> QED BY <1>1, FiniteAssumption, FS_Subset, FS_CardinalityType

LEMMA TabsInit == Init => TabsInv
<1> SUFFICES ASSUME Init, NEW u \in User, NEW c \in Contest PROVE Counted(u, c)
  BY DEF TabsInv, RightContests, Init
<1>1. TeamsOf(u, c) = {} /\ Joiners(u, c) = {}
  BY DEF Init, TeamsOf, IsMember, Joiners, Joining
<1> QED BY <1>1, FS_EmptySet, TabsAssumption DEF Counted

LEMMA TabsNext ==
  ASSUME TypeInv, FewRequests', TabsInv, [Next]_vars
  PROVE  TabsInv'
<1>1. ContestsStay /\ RightContests'
  BY ContestsNext DEF TabsInv
<1> SUFFICES ASSUME NEW u \in User, NEW c \in Contest PROVE Counted(u, c)'
  BY <1>1 DEF TabsInv
<1> DEFINE T == TeamsOf(u, c)  J == Joiners(u, c)
<1>2. /\ IsFiniteSet(T) /\ Cardinality(T) \in Nat /\ Cardinality(T) + Cardinality(J) <= Tabs
      /\ IsFiniteSet(J) /\ Cardinality(J) \in Nat
  BY JoinersAreFew, FS_CardinalityType DEF TabsInv, Counted
<1>3. CASE \E q \in J' : Tested(q)
  <2>1. PICK q \in J' : Tested(q)
    BY <1>3
  <2>2. call[q].user = u /\ call[q].contest = c
    BY <2>1, JoiningStep DEF Joiners
  <2>3. T' = {}
    BY <2>1, <2>2 DEF Tested, NotInAnyTeam, TeamsOf, Exists, IsMember
  <2>4. J' \subseteq Of(u)'
    BY DEF Joiners, Of, Joining, Running
  <2>5. IsFiniteSet(Of(u)') /\ Cardinality(Of(u)') <= Tabs
    <3>1. Of(u)' \subseteq Request
      BY DEF Of
    <3> QED BY <3>1, FiniteAssumption, FS_Subset DEF FewRequests
  <2>6. IsFiniteSet(J') /\ Cardinality(J') <= Cardinality(Of(u)') /\ Cardinality(J') \in Nat
        /\ Cardinality(Of(u)') \in Nat
    BY <2>4, <2>5, FS_Subset, FS_CardinalityType
  <2>7. Cardinality(T') = 0 /\ IsFiniteSet(T')
    BY <2>3, FS_EmptySet
  <2> HIDE DEF T, J
  <2>8. IsFiniteSet(T') /\ Cardinality(T') + Cardinality(J') <= Tabs
    BY <2>5, <2>6, <2>7, TabsAssumption
  <2> QED BY <2>8 DEF Counted, T, J
<1>4. CASE \A q \in J' : ~Tested(q)
  <2>1. J' \subseteq J
    BY <1>4, JoiningStep DEF Joiners
  <2>2. CASE NoNewMembers
    <3>1. T' \subseteq T
      BY <1>1, <2>2 DEF TeamsOf, NoNewMembers, ContestsStay, TypeInv, NoOrphans
    <3>2. /\ IsFiniteSet(T') /\ Cardinality(T') <= Cardinality(T) /\ Cardinality(T') \in Nat
          /\ Cardinality(J') <= Cardinality(J) /\ Cardinality(J') \in Nat
      BY <1>2, <2>1, <3>1, FS_Subset, FS_CardinalityType
    <3> HIDE DEF T, J
    <3>3. IsFiniteSet(T') /\ Cardinality(T') + Cardinality(J') <= Tabs
      BY <1>2, <3>2, TabsAssumption
    <3> QED BY <3>3 DEF Counted, T, J
  <2>3. ASSUME NEW r \in Request, Inserts(r), r \in J PROVE Counted(u, c)'
    <3>1. T' \subseteq T \cup {team[r]}
      BY <1>1, <2>3, InsertsOne DEF TeamsOf, ContestsStay, TypeInv, NoOrphans
    <3>2. J' \subseteq J \ {r}
      BY <2>1, <2>3, InsertsOne DEF Joiners, Joining
    <3>0. /\ IsFiniteSet(T \cup {team[r]})
          /\ Cardinality(T \cup {team[r]})
             = IF team[r] \in T THEN Cardinality(T) ELSE Cardinality(T) + 1
      BY <1>2, FS_AddElement
    <3>3. IsFiniteSet(T \cup {team[r]}) /\ Cardinality(T \cup {team[r]}) <= Cardinality(T) + 1
          /\ Cardinality(T \cup {team[r]}) \in Nat
      BY <1>2, <3>0
    <3>4. IsFiniteSet(J \ {r}) /\ Cardinality(J \ {r}) = Cardinality(J) - 1
      BY <1>2, <2>3, FS_RemoveElement
    <3>5. /\ IsFiniteSet(T') /\ Cardinality(T') <= Cardinality(T \cup {team[r]})
          /\ Cardinality(T') \in Nat /\ Cardinality(J') <= Cardinality(J \ {r}) /\ Cardinality(J') \in Nat
      BY <3>1, <3>2, <3>3, <3>4, FS_Subset, FS_CardinalityType
    <3> HIDE DEF T, J
    <3>6. IsFiniteSet(T') /\ Cardinality(T') + Cardinality(J') <= Tabs
      BY <1>2, <3>3, <3>4, <3>5, TabsAssumption
    <3> QED BY <3>6 DEF Counted, T, J
  <2>4. ASSUME NEW r \in Request, Inserts(r), r \notin J PROVE Counted(u, c)'
    <3>1. T' \subseteq T
      <4> SUFFICES ASSUME NEW t \in TeamId, IsMember(t, u)', Exists(t)', teams'[t].contest = c
                   PROVE  Exists(t) /\ teams[t].contest = c /\ IsMember(t, u)
        BY DEF TeamsOf
      <4>1. teams'[t] = teams[t] /\ Exists(t)
        BY <2>4 DEF Inserts, Exists
      <4>2. CASE t = team[r] /\ u = call[r].user
        BY <2>4, <4>1, <4>2 DEF Inserts, Joiners, Joining, TabsInv, RightContests
      <4>3. CASE ~(t = team[r] /\ u = call[r].user)
        BY <2>4, <4>1, <4>3, InsertsOne
      <4> QED BY <4>2, <4>3
    <3>2. /\ IsFiniteSet(T') /\ Cardinality(T') <= Cardinality(T) /\ Cardinality(T') \in Nat
          /\ Cardinality(J') <= Cardinality(J) /\ Cardinality(J') \in Nat
      BY <1>2, <2>1, <3>1, FS_Subset, FS_CardinalityType
    <3> HIDE DEF T, J
    <3>3. IsFiniteSet(T') /\ Cardinality(T') + Cardinality(J') <= Tabs
      BY <1>2, <3>2, TabsAssumption
    <3> QED BY <3>3 DEF Counted, T, J
  <2> QED BY <2>2, <2>3, <2>4, MembersStep
<1> QED BY <1>3, <1>4

-----------------------------------------------------------------------------
(* However many users create, join and leave at once, and whichever        *)
(* statements fail: a team never has two creators.                         *)
THEOREM CreatorUnique == ASSUME OnePerUser PROVE Spec => []AtMostOneCreator
<1> DEFINE Inv == TypeInv /\ FewRequests /\ CreatorInv
<1>1. Init => Inv
  BY TypeInit, FewRequestsInit, CreatorInit
<1>2. Inv /\ [Next]_vars => Inv'
  BY TypeNext, FewRequestsNext, OneEach, CreatorNext
<1>3. Inv => AtMostOneCreator
  BY DEF CreatorInv
<1> QED BY <1>1, <1>2, <1>3, PTL DEF Spec

(* Nor is a user ever in more teams of a contest than the user has         *)
(* requests under way at once, whatever the other users do and whichever   *)
(* statements fail; a user who waits for answers is in one at most.        *)
THEOREM TeamsPerUser == Spec => []MembershipsBounded
<1> DEFINE Inv == TypeInv /\ FewRequests /\ TabsInv
<1>1. Init => Inv
  BY TypeInit, FewRequestsInit, TabsInit
<1>2. Inv /\ [Next]_vars => Inv'
  BY TypeNext, FewRequestsNext, TabsNext
<1>3. Inv => MembershipsBounded
  <2> SUFFICES ASSUME Inv, NEW u \in User, NEW c \in Contest
               PROVE  Cardinality(TeamsOf(u, c)) <= Tabs
    BY DEF MembershipsBounded
  <2>1. /\ Cardinality(TeamsOf(u, c)) \in Nat /\ Cardinality(Joiners(u, c)) \in Nat
        /\ Cardinality(TeamsOf(u, c)) + Cardinality(Joiners(u, c)) <= Tabs
    BY JoinersAreFew, FS_CardinalityType DEF TabsInv, Counted
  <2> QED BY <2>1, TabsAssumption
<1> QED BY <1>1, <1>2, <1>3, PTL DEF Spec

-----------------------------------------------------------------------------
(* The size of a team. *)

(* The requests whose next statement inserts a member of t. *)
Entering(t) == {r \in Request : team[r] = t /\ pc[r] \in {"createMember", "joinMember"}}

Places(t) == Cardinality(Roster(t)) + Cardinality(Entering(t))
Limit   == MaxSize - 1 + Cardinality(Request)

(* SizeBounded is not inductive: joins that have counted the members are   *)
(* members to come.                                                        *)
SizeInv == \A t \in TeamId : Places(t) <= Limit

LEMMA SizesAreNumbers ==
  ASSUME NEW t
  PROVE  /\ IsFiniteSet(Roster(t)) /\ Cardinality(Roster(t)) \in Nat
         /\ IsFiniteSet(Entering(t)) /\ Cardinality(Entering(t)) \in Nat
         /\ Cardinality(Entering(t)) <= Cardinality(Request)
         /\ Cardinality(Request) \in Nat
<1>1. Entering(t) \subseteq Request
  BY DEF Entering
<1> QED BY <1>1, RosterFinite, FiniteAssumption, FS_Subset, FS_CardinalityType

LEMMA SizesAreNumbersNext ==
  ASSUME NEW t
  PROVE  /\ IsFiniteSet(Roster(t)') /\ Cardinality(Roster(t)') \in Nat
         /\ IsFiniteSet(Entering(t)') /\ Cardinality(Entering(t)') \in Nat
         /\ Cardinality(Entering(t)') <= Cardinality(Request)
<1>1. Entering(t)' \subseteq Request /\ Roster(t)' \subseteq User
  BY DEF Entering, Roster
<1> QED BY <1>1, FiniteAssumption, FS_Subset, FS_CardinalityType

(* What a step may do to the members of t, present and to come. *)
Shrinks(t) == Roster(t)' \subseteq Roster(t) /\ Entering(t)' \subseteq Entering(t)
Enters(t)  ==
  \E u \in User, r \in Entering(t) :
    Roster(t)' \subseteq Roster(t) \cup {u} /\ Entering(t)' \subseteq Entering(t) \ {r}
StaysWithin(t) == Cardinality(Roster(t)') < MaxSize
SizeStep(t) == Shrinks(t) \/ Enters(t) \/ StaysWithin(t)

LEMMA SizeByStep ==
  ASSUME NEW t \in TeamId, Places(t) <= Limit, SizeStep(t)
  PROVE  Places(t)' <= Limit
<1> DEFINE a == Cardinality(Roster(t))  b == Cardinality(Entering(t))
           x == Cardinality(Roster(t)') y == Cardinality(Entering(t)')
           n == Cardinality(Request)
<1>1. a \in Nat /\ b \in Nat /\ x \in Nat /\ y \in Nat /\ n \in Nat /\ y <= n
  BY SizesAreNumbers, SizesAreNumbersNext
<1>2. CASE Shrinks(t)
  <2>1. x <= a /\ y <= b
    BY <1>2, SizesAreNumbers, FS_Subset DEF Shrinks
  <2> QED BY <1>1, <2>1, SizeAssumption DEF Places, Limit
<1>3. CASE Enters(t)
  <2>1. PICK u \in User, r \in Entering(t) :
          Roster(t)' \subseteq Roster(t) \cup {u} /\ Entering(t)' \subseteq Entering(t) \ {r}
    BY <1>3 DEF Enters
  <2>2. x <= a + 1
    <3>0. /\ IsFiniteSet(Roster(t) \cup {u})
          /\ Cardinality(Roster(t) \cup {u}) = IF u \in Roster(t) THEN a ELSE a + 1
      BY SizesAreNumbers, FS_AddElement
    <3>1. IsFiniteSet(Roster(t) \cup {u}) /\ Cardinality(Roster(t) \cup {u}) <= a + 1
          /\ Cardinality(Roster(t) \cup {u}) \in Nat
      BY <1>1, <3>0
    <3>2. x <= Cardinality(Roster(t) \cup {u})
      BY <2>1, <3>1, FS_Subset
    <3> QED BY <1>1, <3>1, <3>2
  <2>3. y <= b - 1
    <3>1. IsFiniteSet(Entering(t) \ {r}) /\ Cardinality(Entering(t) \ {r}) = b - 1
      BY SizesAreNumbers, FS_RemoveElement
    <3> QED BY <2>1, <3>1, FS_Subset
  <2> QED BY <1>1, <2>2, <2>3, SizeAssumption DEF Places, Limit
<1>4. CASE StaysWithin(t)
  BY <1>1, <1>4, SizeAssumption DEF StaysWithin, Places, Limit
<1> QED BY <1>2, <1>3, <1>4 DEF SizeStep

(* A step that inserts nobody and after which its request inserts nobody.  *)
LEMMA SizeQuiet ==
  ASSUME TypeInv, NEW r \in Request, Spares(r),
         pc'[r] \notin {"createMember", "joinMember"},
         NEW t \in TeamId, Roster(t)' \subseteq Roster(t)
  PROVE  SizeStep(t)
<1>1. Entering(t)' \subseteq Entering(t)
  BY DEF Entering, Spares
<1> QED BY <1>1 DEF SizeStep, Shrinks

(* A request that starts to enter a team with room. *)
LEMMA SizeEnter ==
  ASSUME TypeInv, NEW r \in Request, Spares(r), UNCHANGED members,
         HasRoom(team'[r]), NEW t \in TeamId
  PROVE  SizeStep(t)
<1>1. Roster(t)' = Roster(t)
  BY DEF Roster, IsMember
<1>2. CASE team'[r] = t
  BY <1>1, <1>2 DEF SizeStep, StaysWithin, HasRoom
<1>3. CASE team'[r] # t
  <2>1. Entering(t)' \subseteq Entering(t)
    BY <1>3 DEF Entering, Spares
  <2> QED BY <1>1, <2>1 DEF SizeStep, Shrinks
<1> QED BY <1>2, <1>3

LEMMA SizeInserted ==
  ASSUME TypeInv, NEW r \in Request, pc[r] \in {"createMember", "joinMember"},
         NEW b \in BOOLEAN, InsertMember(team[r], call[r].user, b), Return(r),
         NEW t \in TeamId
  PROVE  SizeStep(t)
<1>0. Spares(r) /\ pc'[r] = "idle"
  BY DEF Return, Spares, TypeInv, TypeOK
<1>1. call[r].user \in User /\ team[r] \in TeamId
  BY DEF TypeInv, TypeOK, Loaded, CreatePC, JoinPC, TeamPC, CreateCall, JoinCall
<1>2. CASE team[r] = t
  <2>1. Roster(t)' \subseteq Roster(t) \cup {call[r].user}
    BY <1>1, <1>2 DEF InsertMember, Roster, IsMember, TypeInv, TypeOK
  <2>2. r \in Entering(t) /\ Entering(t)' \subseteq Entering(t) \ {r}
    BY <1>0, <1>2 DEF Entering, Spares
  <2> QED BY <1>1, <2>1, <2>2 DEF SizeStep, Enters
<1>3. CASE team[r] # t
  <2>1. Roster(t)' \subseteq Roster(t)
    BY <1>1, <1>3 DEF InsertMember, Roster, IsMember, TypeInv, TypeOK
  <2> QED BY <1>0, <2>1, SizeQuiet
<1> QED BY <1>2, <1>3

LEMMA SizeInit == Init => SizeInv
<1> SUFFICES ASSUME Init, NEW t \in TeamId PROVE Places(t) <= Limit
  BY DEF SizeInv
<1>1. Roster(t) = {}
  BY DEF Init, Roster, IsMember
<1>2. Entering(t) = {}
  BY DEF Init, Entering
<1>3. Cardinality(Request) \in Nat
  BY FiniteAssumption, FS_CardinalityType
<1> QED BY <1>1, <1>2, <1>3, FS_EmptySet, SizeAssumption DEF Places, Limit

LEMMA SizeNext == ASSUME TypeInv, SizeInv, [Next]_vars PROVE SizeInv'
<1> SUFFICES ASSUME NEW t \in TeamId PROVE SizeStep(t)
  BY SizeByStep DEF SizeInv
<1>0. UNCHANGED members => Roster(t)' = Roster(t)
  BY DEF Roster, IsMember
<1>1. ASSUME NEW r \in Request, Arrival(r) PROVE SizeStep(t)
  <2>1. UNCHANGED members
    BY <1>1 DEF Arrival, CreateBegin, JoinBegin, LeaveBegin, UpdateBegin, RenewBegin, tables
  <2>2. \E c, s : \E l \in PC \ {"createMember", "joinMember"} : Begin(r, c, s, l)
    BY <1>1 DEF Arrival, CreateBegin, JoinBegin, LeaveBegin, UpdateBegin, RenewBegin,
       PC, CreatePC, JoinPC, LeavePC, UpdatePC, RenewPC
  <2>3. Spares(r) /\ pc'[r] \notin {"createMember", "joinMember"}
    BY <2>2 DEF Begin, Spares, TypeInv, TypeOK
  <2> QED BY <1>0, <2>1, <2>3, SizeQuiet
<1>2. ASSUME NEW r \in Request, Statement(r) PROVE SizeStep(t)
  <2>0. Loaded(r) /\ Spares(r)
    BY <1>2, StatementContinues DEF TypeInv, TypeOK, Continues
  <2>1. CASE CreateMember(r)
    BY <2>1, SizeInserted DEF CreateMember
  <2>2. CASE JoinMember(r)
    BY <2>2, SizeInserted DEF JoinMember
  <2>3. CASE CreateTeam(r)
    <3>1. UNCHANGED members
      BY <2>3 DEF CreateTeam
    <3>2. CASE Return(r)
      <4>1. pc'[r] = "idle"
        BY <3>2 DEF Return, TypeInv, TypeOK
      <4> QED BY <1>0, <2>0, <3>1, <4>1, SizeQuiet
    <3>3. CASE ~Return(r)
      <4>1. PICK s \in TeamId : ~Exists(s) /\ team' = [team EXCEPT ![r] = s]
        BY <2>3, <3>3 DEF CreateTeam
      <4>2. team'[r] = s
        BY <4>1 DEF TypeInv, TypeOK
      <4>3. Roster(s) = {}
        BY <4>1 DEF Roster, TypeInv, NoOrphans
      <4>4. HasRoom(team'[r])
        BY <4>2, <4>3, FS_EmptySet, SizeAssumption DEF HasRoom
      <4> QED BY <2>0, <3>1, <4>4, SizeEnter
    <3> QED BY <3>2, <3>3
  <2>4. CASE JoinSize(r)
    <3>1. UNCHANGED members
      BY <2>4 DEF JoinSize, tables
    <3>2. CASE Return(r)
      <4>1. pc'[r] = "idle"
        BY <3>2 DEF Return, TypeInv, TypeOK
      <4> QED BY <1>0, <2>0, <3>1, <4>1, SizeQuiet
    <3>3. CASE ~Return(r)
      <4>1. HasRoom(team'[r])
        BY <2>4, <3>3 DEF JoinSize, Check, locals
      <4> QED BY <2>0, <3>1, <4>1, SizeEnter
    <3> QED BY <3>2, <3>3
  <2>5. CASE LeaveDelete(r) \/ LeaveTransfer(r)
    <3>1. Roster(t)' \subseteq Roster(t)
      <4>1. CASE LeaveDelete(r)
        BY <2>0, <4>1 DEF LeaveDelete, Loaded, LeavePC, TeamPC, OtherCall, Roster, IsMember,
          TypeInv, TypeOK
      <4>2. CASE LeaveTransfer(r)
        BY <2>0, <4>2 DEF LeaveTransfer, Loaded, LeavePC, TeamPC, Roster, IsMember,
          TypeInv, TypeOK
      <4> QED BY <2>5, <4>1, <4>2
    <3>2. pc'[r] \in {"idle", "leaveHeir"}
      BY <2>5 DEF LeaveDelete, LeaveTransfer, Check, Goto, Return, TypeInv, TypeOK
    <3> QED BY <2>0, <3>1, <3>2, SizeQuiet
  <2>6. CASE \/ CreateNotInTeam(r) \/ CreateName(r) \/ JoinNotInTeam(r) \/ JoinFind(r)
             \/ LeaveLoad(r) \/ LeaveHeir(r) \/ LeaveMarkDeleted(r)
             \/ UpdateLoad(r) \/ UpdateSave(r) \/ RenewLoad(r) \/ RenewSave(r)
    <3>1. UNCHANGED members
      BY <2>6 DEF CreateNotInTeam, CreateName, JoinNotInTeam, JoinFind, LeaveLoad, LeaveHeir,
        LeaveMarkDeleted, UpdateLoad, UpdateSave, RenewLoad, RenewSave, tables
    <3>2. Return(r) \/ \E l \in PC \ {"createMember", "joinMember"} : Goto(r, l)
      BY <2>6 DEF CreateNotInTeam, CreateName, JoinNotInTeam, JoinFind, LeaveLoad, LeaveHeir,
        LeaveMarkDeleted, UpdateLoad, UpdateSave, RenewLoad, RenewSave, Check,
        PC, CreatePC, JoinPC, LeavePC, UpdatePC, RenewPC
    <3>3. pc'[r] \notin {"createMember", "joinMember"}
      BY <3>2 DEF Return, Goto, TypeInv, TypeOK
    <3> QED BY <1>0, <2>0, <3>1, <3>3, SizeQuiet
  <2> QED BY <1>2, <2>1, <2>2, <2>3, <2>4, <2>5, <2>6 DEF Statement
<1>3. ASSUME NEW r \in Request, Fault(r) PROVE SizeStep(t)
  <2>1. Spares(r) /\ pc'[r] = "idle" /\ UNCHANGED members
    BY <1>3, ReturnContinues DEF Fault, Continues, tables
  <2> QED BY <1>0, <2>1, SizeQuiet
<1>4. ASSUME UNCHANGED <<members, pc, team>> PROVE SizeStep(t)
  BY <1>0, <1>4 DEF SizeStep, Shrinks, Entering
<1> QED BY <1>1, <1>2, <1>3, <1>4 DEF Next, Lock, BadgesImported, Tick, vars, tables, locals

(* However many requests are in flight, and from however many tabs of one  *)
(* user: JoinTeam and CreateTeam never take a team past the bound.         *)
THEOREM SizesBounded == Spec => []SizeBounded
<1> DEFINE Inv == TypeInv /\ SizeInv
<1>1. Init => Inv
  BY TypeInit, SizeInit
<1>2. Inv /\ [Next]_vars => Inv'
  BY TypeNext, SizeNext
<1>3. SizeInv => SizeBounded
  <2> SUFFICES ASSUME NEW t \in TeamId, Places(t) <= Limit
               PROVE  Cardinality(Roster(t)) <= Limit
    BY DEF SizeInv, SizeBounded, Limit
  <2> QED BY SizesAreNumbers, SizeAssumption DEF Places, Limit
<1> QED BY <1>1, <1>2, <1>3, PTL DEF Spec

=============================================================================
