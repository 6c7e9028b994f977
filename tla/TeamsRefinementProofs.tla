----------------------- MODULE TeamsRefinementProofs ------------------------
(***************************************************************************)
(* One request at a time.  If none fails between two of its writes, the    *)
(* requests leave the tables consistent, whenever contests start and       *)
(* badges are imported; if moreover those wait for a request they          *)
(* concern, the handlers implement the service.                            *)
(*                                                                         *)
(* Both rest on ConsInv: the rows of a team as the service has them, where *)
(* a creator who is leaving stays until the hand-over, always form a sound *)
(* team, and the request in flight still has what it has tested.  Each     *)
(* statement that writes has one lemma that says what it does to those     *)
(* rows; the invariant and the refinement both follow from it.             *)
(***************************************************************************)
EXTENDS TeamsRefinement, TeamsProofs

-----------------------------------------------------------------------------
(* The rows of a team: one creator, who joined first, and room for all.    *)

Rows == [User -> MemberRow \cup {None}]

Present(rows) == {u \in User : rows[u] # None}

CreatorIn(rows, u) ==
  /\ u \in Present(rows) /\ rows[u].creator
  /\ \A v \in Present(rows) : (rows[v].creator => v = u) /\ rows[u].joined <= rows[v].joined

Sound(rows, n) ==
  /\ rows \in Rows
  /\ Cardinality(Present(rows)) <= MaxSize
  /\ \A v \in Present(rows) : rows[v].joined <= n
  /\ \E u \in User : CreatorIn(rows, u)

LEMMA PresentFinite ==
  ASSUME NEW rows PROVE IsFiniteSet(Present(rows)) /\ Cardinality(Present(rows)) \in Nat
BY FiniteAssumption, FS_Subset, FS_CardinalityType DEF Present

LEMMA FoundedSound ==
  ASSUME NEW u \in User, NEW n \in Nat, NEW rows \in Rows,
         rows[u] = [joined |-> n, creator |-> TRUE], \A v \in User \ {u} : rows[v] = None
  PROVE  Sound(rows, n) /\ Present(rows) = {u}
<1>1. rows[u] \in MemberRow /\ rows[u].creator = TRUE /\ rows[u].joined = n
  BY DEF MemberRow
<1>2. rows[u] # None
  BY <1>1, NoneAssumption
<1>3. Present(rows) = {u}
  BY <1>2 DEF Present
<1>4. Cardinality(Present(rows)) <= MaxSize
  <2>1. Cardinality({u}) = 1
    BY FS_Singleton
  <2>2. 1 <= MaxSize
    BY SizeAssumption
  <2> QED BY <1>3, <2>1, <2>2
<1>5. CreatorIn(rows, u)
  BY <1>1, <1>3 DEF CreatorIn
<1>6. \A v \in Present(rows) : rows[v].joined <= n
  BY <1>1, <1>3
<1> QED BY <1>3, <1>4, <1>5, <1>6 DEF Sound

LEMMA GrownSound ==
  ASSUME NEW rows, NEW n \in Nat, Sound(rows, n), NEW u \in User, rows[u] = None,
         Cardinality(Present(rows)) < MaxSize,
         NEW new, new = [rows EXCEPT ![u] = [joined |-> n, creator |-> FALSE]]
  PROVE  Sound(new, n) /\ Present(new) = Present(rows) \cup {u}
<1> DEFINE x == [joined |-> n, creator |-> FALSE]
<1>0. x \in MemberRow /\ x.joined = n /\ x.creator = FALSE
  BY DEF MemberRow
<1>1. x \in MemberRow /\ x # None /\ x.joined = n /\ x.creator = FALSE
  BY <1>0, NoneAssumption
<1>2. new[u] = x /\ (\A v \in User \ {u} : new[v] = rows[v]) /\ new \in Rows
  BY <1>1 DEF Sound, Rows
<1> HIDE DEF x
<1>3. Present(new) = Present(rows) \cup {u}
  BY <1>1, <1>2 DEF Present
<1>4. Cardinality(Present(new)) <= MaxSize
  <2>1. u \notin Present(rows)
    BY DEF Present
  <2>2. Cardinality(Present(rows) \cup {u}) = Cardinality(Present(rows)) + 1
    BY <2>1, PresentFinite, FS_AddElement
  <2>3. Cardinality(Present(rows)) + 1 <= MaxSize
    BY PresentFinite, SizeAssumption
  <2> QED BY <1>3, <2>2, <2>3
<1>5. \A v \in Present(new) : new[v].joined <= n
  BY <1>1, <1>2, <1>3 DEF Sound, Present
<1>6. PICK c \in User : CreatorIn(rows, c)
  BY DEF Sound
<1>7. c # u /\ rows[c].joined <= n
  BY <1>6 DEF CreatorIn, Present, Sound
<1>8. CreatorIn(new, c)
  BY <1>1, <1>2, <1>3, <1>6, <1>7 DEF CreatorIn, Present
<1> QED BY <1>2, <1>3, <1>4, <1>5, <1>8 DEF Sound

LEMMA ShrunkSound ==
  ASSUME NEW rows, NEW n, Sound(rows, n), NEW u \in User, rows[u] # None => ~rows[u].creator,
         NEW new, new = [rows EXCEPT ![u] = None]
  PROVE  Sound(new, n) /\ Present(new) = Present(rows) \ {u}
<1>1. new[u] = None /\ (\A v \in User \ {u} : new[v] = rows[v]) /\ new \in Rows
  BY DEF Sound, Rows
<1>2. Present(new) = Present(rows) \ {u}
  BY <1>1 DEF Present
<1>3. Cardinality(Present(new)) <= MaxSize
  <2>1. Cardinality(Present(new)) <= Cardinality(Present(rows))
    BY <1>2, PresentFinite, FS_Subset
  <2> QED BY <2>1, PresentFinite, SizeAssumption DEF Sound
<1>4. PICK c \in User : CreatorIn(rows, c)
  BY DEF Sound
<1>5. CreatorIn(new, c)
  BY <1>1, <1>2, <1>4 DEF CreatorIn, Present
<1>6. \A v \in Present(new) : new[v].joined <= n
  BY <1>1, <1>2 DEF Sound, Present
<1> QED BY <1>1, <1>2, <1>3, <1>5, <1>6 DEF Sound

LEMMA HandedOverSound ==
  ASSUME NEW rows, NEW n, Sound(rows, n), NEW u \in Present(rows), rows[u].creator,
         NEW h \in Present(rows) \ {u}, \A v \in Present(rows) \ {u} : rows[h].joined <= rows[v].joined,
         NEW new \in Rows, new[u] = None, new[h] \in MemberRow, new[h].creator,
         new[h].joined = rows[h].joined,
         \A v \in User \ {u, h} : new[v] = rows[v]
  PROVE  /\ Sound(new, n) /\ Present(new) = Present(rows) \ {u} /\ CreatorIn(new, h)
         /\ \A v \in Present(new) : new[v].joined = rows[v].joined
<1>1. rows[h] \in MemberRow /\ u \in User /\ h \in User
  BY DEF Present, Sound, Rows
<1>2. new[h] # None
  BY NoneAssumption
<1>3. Present(new) = Present(rows) \ {u}
  BY <1>2 DEF Present
<1>4. Cardinality(Present(new)) <= MaxSize
  <2>1. Cardinality(Present(new)) <= Cardinality(Present(rows))
    BY <1>3, PresentFinite, FS_Subset
  <2> QED BY <2>1, PresentFinite, SizeAssumption DEF Sound
<1>5. PICK c \in User : CreatorIn(rows, c)
  BY DEF Sound
<1>6. \A v \in Present(rows) : rows[v].creator => v = u
  BY <1>5 DEF CreatorIn
<1>7. \A v \in Present(new) : new[v].joined = rows[v].joined
  BY <1>2, <1>3 DEF Present
<1>8. CreatorIn(new, h)
  BY <1>1, <1>2, <1>3, <1>6, <1>7 DEF CreatorIn, Present
<1> QED BY <1>1, <1>3, <1>4, <1>7, <1>8 DEF Sound

LEMMA LaterSound ==
  ASSUME NEW rows, NEW n \in Nat, NEW m \in Nat, n <= m, Sound(rows, n)
  PROVE  Sound(rows, m)
<1>1. \A v \in Present(rows) : rows[v].joined \in Nat
  BY DEF Sound, Rows, Present, MemberRow
<1> QED BY <1>1 DEF Sound

-----------------------------------------------------------------------------
(* One request r, alone: what it leaves and what it relies on.             *)

OneRequest == \A q, r \in Request : q = r

Leaving        == {"leaveHeir", "leaveMarkDeleted", "leaveTransfer"}
Founding(r, t) == team[r] = t /\ pc[r] = "createMember"
Leaves(r, t)   == team[r] = t /\ pc[r] \in Leaving

(* The rows of a team as the service has them: a creator who leaves stays  *)
(* until the hand-over.                                                    *)
RowsOf(r, t) == IF Leaves(r, t) THEN RowsBefore(t, r) ELSE members[t]

TeamSound(r, t) ==
  Exists(t) /\ ~Founding(r, t) =>
    IF teams[t].deleted THEN Present(RowsOf(r, t)) = {} ELSE Sound(RowsOf(r, t), now)

(* What the next statement relies on. *)
RequestSound(r) ==
  /\ pc[r] = "createTeam" => NameIsUnique(call[r].contest, call[r].name)
  /\ pc[r] = "createMember" =>
       /\ Live(team[r]) /\ teams[team[r]].name = call[r].name
       /\ members[team[r]] = [v \in User |-> None]
  /\ pc[r] \in {"joinSize", "joinMember"} => Live(team[r])
  /\ pc[r] = "joinMember" => HasRoom(team[r])
  /\ pc[r] = "leaveDelete" =>
       /\ IsMember(team[r], call[r].user)
       /\ member[r] = members[team[r]][call[r].user]
  /\ pc[r] \in Leaving =>
       /\ Live(team[r]) /\ ~IsMember(team[r], call[r].user)
       /\ member[r] \in MemberRow /\ member[r].creator
  /\ pc[r] = "leaveMarkDeleted" => Roster(team[r]) = {}
  /\ pc[r] = "leaveTransfer" => heir[r] \in Oldest(team[r], Roster(team[r]))
  /\ pc[r] = "updateSave" =>
       /\ row[r].contest = teams[team[r]].contest /\ row[r].name = teams[team[r]].name
       /\ row[r].code = teams[team[r]].code /\ row[r].deleted = teams[team[r]].deleted

ConsInv ==
  /\ NamesUnique
  /\ \A r \in Request : RequestSound(r) /\ \A t \in TeamId : TeamSound(r, t)

(* Nothing has happened to team t. *)
Still(r, t) ==
  /\ teams'[t] = teams[t] /\ (Founding(r, t)' <=> Founding(r, t))
  /\ RowsOf(r, t)' = RowsOf(r, t)

Halves == {"createMember"} \cup Leaving

LEMMA AllStill ==
  ASSUME NEW r \in Request, UNCHANGED <<teams, members>>,
         pc[r] \notin Halves, pc'[r] \notin Halves
  PROVE  \A t \in TeamId : Still(r, t)
BY DEF Still, Founding, RowsOf, Leaves, Halves

LEMMA OthersStill ==
  ASSUME NEW r \in Request, NEW t \in TeamId,
         \A s \in TeamId \ {t} : teams'[s] = teams[s] /\ members'[s] = members[s],
         team[r] = t \/ pc[r] \notin Halves, team'[r] = t \/ pc'[r] \notin Halves
  PROVE  \A s \in TeamId \ {t} : Still(r, s)
BY DEF Still, Founding, RowsOf, Leaves, Halves

LEMMA StillSound ==
  ASSUME TypeInv, TypeInv', NEW r \in Request, NEW t \in TeamId, TeamSound(r, t), Still(r, t),
         now <= now'
  PROVE  TeamSound(r, t)'
<1>1. now \in Nat /\ now' \in Nat
  BY SizeAssumption DEF TypeInv, TypeOK
<1>2. Exists(t)' <=> Exists(t)
  BY DEF Still, Exists
<1>3. ASSUME Sound(RowsOf(r, t), now) PROVE Sound(RowsOf(r, t), now)'
  <2>1. Sound(RowsOf(r, t), now')
    BY <1>1, <1>3, LaterSound
  <2> QED BY <2>1 DEF Still, Sound, CreatorIn, Present
<1>4. Present(RowsOf(r, t))' = Present(RowsOf(r, t))
  BY DEF Still, Present
<1> QED BY <1>2, <1>3, <1>4 DEF TeamSound, Still

(* The names stay unique when no team becomes live or changes its name. *)
LEMMA NamesKept ==
  ASSUME NamesUnique,
         \A t \in TeamId : Live(t)' =>
           Live(t) /\ teams'[t].contest = teams[t].contest /\ teams'[t].name = teams[t].name
  PROVE  NamesUnique'
BY DEF NamesUnique

LEMMA ConsByStep ==
  ASSUME OneRequest, NEW r \in Request, NamesUnique', RequestSound(r)',
         \A t \in TeamId : TeamSound(r, t)'
  PROVE  ConsInv'
BY DEF ConsInv, OneRequest

(* A request that has been answered, or has only just begun. *)
LEMMA EasyRequest ==
  ASSUME NEW r \in Request,
         pc'[r] \notin Halves \cup {"createTeam", "joinSize", "joinMember", "leaveDelete", "updateSave"}
  PROVE  RequestSound(r)'
BY DEF RequestSound, Halves, Leaving

(* A step that writes nothing. *)
LEMMA ConsQuiet ==
  ASSUME OneRequest, TypeInv, TypeInv', ConsInv, NEW r \in Request,
         UNCHANGED teams, \A t \in TeamId : Still(r, t), now <= now', RequestSound(r)'
  PROVE  ConsInv'
<1>1. NamesUnique'
  BY NamesKept DEF ConsInv, Live, Exists
<1>2. \A t \in TeamId : TeamSound(r, t)'
  BY StillSound DEF ConsInv
<1> QED BY <1>1, <1>2, ConsByStep

-----------------------------------------------------------------------------
(* The statements that only read, and the DELETE of a creator, leave every *)
(* team as the service has it.                                             *)

NoTrace(r) == UNCHANGED tables /\ \A t \in TeamId : Still(r, t)

Reads(r) ==
  \/ CreateNotInTeam(r) \/ CreateName(r) \/ JoinNotInTeam(r) \/ JoinFind(r) \/ JoinSize(r)
  \/ LeaveLoad(r) \/ LeaveHeir(r) \/ UpdateLoad(r) \/ RenewLoad(r)

LEMMA ArrivalStep ==
  ASSUME TypeInv, NEW r \in Request, Arrival(r)
  PROVE  NoTrace(r) /\ RequestSound(r)'
<1>1. UNCHANGED tables /\ ~Running(r)
  BY DEF Arrival, CreateBegin, JoinBegin, LeaveBegin, UpdateBegin, RenewBegin, Begin
<1>2. pc'[r] \in {"createNotInTeam", "joinNotInTeam", "leaveLoad", "updateLoad", "renewLoad"}
  BY DEF Arrival, CreateBegin, JoinBegin, LeaveBegin, UpdateBegin, RenewBegin, Begin,
         TypeInv, TypeOK
<1>3. \A t \in TeamId : Still(r, t)
  BY <1>1, <1>2, AllStill DEF Running, Halves, Leaving, tables
<1>4. RequestSound(r)'
  BY <1>2, EasyRequest DEF Halves, Leaving
<1> QED BY <1>1, <1>3, <1>4 DEF NoTrace

LEMMA ReadStep ==
  ASSUME TypeInv, ConsInv, NEW r \in Request, Reads(r)
  PROVE  NoTrace(r) /\ RequestSound(r)'
<1> USE DEF PC, CreatePC, JoinPC, LeavePC, UpdatePC, RenewPC
<1>0. UNCHANGED tables /\ Loaded(r) /\ RequestSound(r)
  BY DEF Reads, CreateNotInTeam, CreateName, JoinNotInTeam, JoinFind, JoinSize,
         LeaveLoad, LeaveHeir, UpdateLoad, RenewLoad, TypeInv, TypeOK, ConsInv
<1>1. ASSUME pc[r] \notin Halves, pc'[r] \notin Halves PROVE \A t \in TeamId : Still(r, t)
  BY <1>0, <1>1, AllStill DEF tables
<1>2. ASSUME pc[r] \notin Halves, pc'[r] \in {"idle", "createName", "joinFind", "renewSave"}
      PROVE  NoTrace(r) /\ RequestSound(r)'
  BY <1>0, <1>1, <1>2, EasyRequest DEF NoTrace, Halves, Leaving
<1>3. ASSUME Return(r), pc[r] \notin Halves PROVE NoTrace(r) /\ RequestSound(r)'
  BY <1>2, <1>3 DEF Return, TypeInv, TypeOK
<1>4. CASE CreateNotInTeam(r)
  BY <1>2, <1>4, CheckContinues DEF CreateNotInTeam, Running, Halves, Leaving
<1>5. CASE CreateName(r)
  <2>1. CASE pc'[r] = "idle"
    BY <1>2, <1>5, <2>1 DEF CreateName, Halves, Leaving
  <2>2. CASE pc'[r] # "idle"
    <3>1. /\ NameIsUnique(call[r].contest, call[r].name) /\ pc'[r] = "createTeam"
          /\ UNCHANGED locals
      BY <1>5, <2>2, CheckContinues DEF CreateName, Running
    <3>2. RequestSound(r)'
      BY <1>0, <3>1 DEF RequestSound, NameIsUnique, Live, Exists, Leaving, tables, locals
    <3> QED BY <1>0, <1>1, <1>5, <3>1, <3>2 DEF CreateName, NoTrace, Halves, Leaving
  <2> QED BY <2>1, <2>2
<1>6. CASE JoinNotInTeam(r)
  BY <1>2, <1>6, CheckContinues DEF JoinNotInTeam, Running, Halves, Leaving
<1>7. CASE JoinFind(r)
  <2>1. CASE Return(r)
    BY <1>3, <1>7, <2>1 DEF JoinFind, Halves, Leaving
  <2>2. CASE ~Return(r)
    <3>1. PICK t \in TeamId : /\ Joinable(t, call[r].contest, call[r].code)
                             /\ team' = [team EXCEPT ![r] = t] /\ Goto(r, "joinSize")
      BY <1>7, <2>2 DEF JoinFind
    <3>2. pc'[r] = "joinSize" /\ team'[r] = t
      BY <3>1 DEF Goto, TypeInv, TypeOK
    <3>3. RequestSound(r)'
      BY <1>0, <3>1, <3>2 DEF RequestSound, Joinable, Live, Exists, Leaving, tables
    <3> QED BY <1>0, <1>1, <1>7, <3>2, <3>3 DEF JoinFind, NoTrace, Halves, Leaving
  <2> QED BY <2>1, <2>2
<1>8. CASE JoinSize(r)
  <2>1. CASE pc'[r] = "idle"
    BY <1>2, <1>8, <2>1 DEF JoinSize, Halves, Leaving
  <2>2. CASE pc'[r] # "idle"
    <3>1. HasRoom(team[r]) /\ pc'[r] = "joinMember" /\ UNCHANGED locals
      BY <1>8, <2>2, CheckContinues DEF JoinSize, Running
    <3>2. RequestSound(r)'
      BY <1>0, <1>8, <3>1
      DEF JoinSize, RequestSound, HasRoom, Roster, IsMember, Live, Exists, Leaving, tables, locals
    <3> QED BY <1>0, <1>1, <1>8, <3>1, <3>2 DEF JoinSize, NoTrace, Halves, Leaving
  <2> QED BY <2>1, <2>2
<1>9. CASE LeaveLoad(r)
  <2>1. CASE Return(r)
    BY <1>3, <1>9, <2>1 DEF LeaveLoad, Halves, Leaving
  <2>2. CASE ~Return(r)
    <3>1. /\ IsMember(team[r], call[r].user) /\ pc[r] = "leaveLoad"
          /\ member' = [member EXCEPT ![r] = members[team[r]][call[r].user]]
          /\ Goto(r, "leaveDelete") /\ UNCHANGED <<call, team, row, heir>>
      BY <1>9, <2>2 DEF LeaveLoad
    <3>2. pc'[r] = "leaveDelete" /\ member'[r] = members[team[r]][call[r].user]
      BY <3>1 DEF Goto, TypeInv, TypeOK
    <3>3. RequestSound(r)'
      BY <1>0, <3>1, <3>2 DEF RequestSound, IsMember, Leaving, tables
    <3> QED BY <1>0, <1>1, <3>1, <3>2, <3>3 DEF NoTrace, Halves, Leaving
  <2> QED BY <2>1, <2>2
<1>10. CASE LeaveHeir(r)
  <2>1. /\ pc[r] = "leaveHeir" /\ UNCHANGED <<call, team, member>> /\ team[r] \in TeamId
        /\ Live(team[r]) /\ ~IsMember(team[r], call[r].user)
        /\ member[r] \in MemberRow /\ member[r].creator
    BY <1>0, <1>10 DEF LeaveHeir, RequestSound, Leaving, locals, Loaded, TeamPC
  <2>2. \/ pc'[r] = "leaveMarkDeleted" /\ Roster(team[r]) = {}
        \/ pc'[r] = "leaveTransfer" /\ heir'[r] \in Oldest(team[r], Roster(team[r]))
    <3>1. Roster(team[r]) \ {call[r].user} = Roster(team[r])
      BY <2>1 DEF Roster
    <3> QED BY <1>10, <3>1 DEF LeaveHeir, Goto, locals, TypeInv, TypeOK
  <2>3. \A t \in TeamId : Still(r, t)
    BY <1>0, <2>1, <2>2 DEF Still, Founding, RowsOf, RowsBefore, Leaves, Leaving, tables
  <2>4. RequestSound(r)'
    BY <1>0, <2>1, <2>2
    DEF RequestSound, Live, Exists, IsMember, Roster, Oldest, Leaving, tables
  <2> QED BY <1>0, <2>3, <2>4 DEF NoTrace
<1>11. CASE UpdateLoad(r)
  <2>1. CASE Return(r)
    BY <1>3, <1>11, <2>1 DEF UpdateLoad, Halves, Leaving
  <2>2. CASE ~Return(r)
    <3> DEFINE x == [teams[team[r]] EXCEPT !.open = call[r].open]
    <3>1. /\ row' = [row EXCEPT ![r] = x] /\ pc[r] = "updateLoad"
          /\ Goto(r, "updateSave") /\ UNCHANGED <<call, team, member, heir>>
      BY <1>11, <2>2 DEF UpdateLoad
    <3>2. teams[team[r]] \in TeamRow
      BY <1>0, <3>1 DEF Loaded, TeamPC, TypeInv, TypeOK, Exists
    <3>3. /\ x.contest = teams[team[r]].contest /\ x.name = teams[team[r]].name
          /\ x.code = teams[team[r]].code /\ x.deleted = teams[team[r]].deleted
      BY <3>2 DEF TeamRow
    <3> HIDE DEF x
    <3>4. pc'[r] = "updateSave" /\ row'[r] = x
      BY <3>1 DEF Goto, TypeInv, TypeOK
    <3>5. RequestSound(r)'
      BY <1>0, <3>1, <3>3, <3>4 DEF RequestSound, Leaving, tables
    <3> QED BY <1>0, <1>1, <3>1, <3>4, <3>5 DEF NoTrace, Halves, Leaving
  <2> QED BY <2>1, <2>2
<1>12. CASE RenewLoad(r)
  BY <1>2, <1>12, CheckContinues DEF RenewLoad, Running, Halves, Leaving
<1> QED BY <1>4, <1>5, <1>6, <1>7, <1>8, <1>9, <1>10, <1>11, <1>12 DEF Reads

-----------------------------------------------------------------------------
(* The statements that write, each seen from the team it writes.           *)

(* Nothing but team t has changed. *)
Only(r, t) == (\A s \in TeamId \ {t} : Still(r, s)) /\ UNCHANGED <<access, now>>

LEMMA ConsWritten ==
  ASSUME OneRequest, TypeInv, TypeInv', ConsInv, NEW r \in Request, NEW t \in TeamId,
         Only(r, t), TeamSound(r, t)', NamesUnique', RequestSound(r)'
  PROVE  ConsInv'
<1>0. now <= now'
  BY SizeAssumption DEF Only, TypeInv, TypeOK
<1>1. ASSUME NEW s \in TeamId PROVE TeamSound(r, s)'
  <2>1. CASE s = t
    BY <2>1
  <2>2. CASE s # t
    BY <1>0, <2>2, StillSound DEF Only, ConsInv
  <2> QED BY <2>1, <2>2
<1> QED BY <1>1, ConsByStep

Founds(r, t, k) ==
  /\ Only(r, t) /\ ~Exists(t) /\ Founding(r, t)' /\ UNCHANGED <<members, call>>
  /\ call[r] \in CreateCall /\ call[r].name # Blank
  /\ drawn' = drawn \cup {k} /\ k \notin drawn
  /\ teams'[t] = [contest |-> call[r].contest, name |-> call[r].name, code |-> k,
                  open |-> TRUE, locked |-> FALSE, deleted |-> FALSE]

LEMMA CreateTeamStep ==
  ASSUME TypeInv, NEW r \in Request, CreateTeam(r)
  PROVE  \/ NoTrace(r) /\ pc'[r] = "idle"
         \/ \E t \in TeamId, k \in Code : Founds(r, t, k)
<1>1. CASE Return(r) /\ UNCHANGED tables
  <2>1. pc'[r] = "idle" /\ pc[r] = "createTeam"
    BY <1>1 DEF CreateTeam, Return, TypeInv, TypeOK
  <2> QED BY <1>1, <2>1, AllStill DEF NoTrace, Halves, Leaving, tables
<1>2. CASE \E t \in TeamId, k \in Code \ drawn :
             /\ ~Exists(t)
             /\ teams' = [teams EXCEPT ![t] =
                  [contest |-> call[r].contest, name |-> call[r].name, code |-> k,
                   open |-> TRUE, locked |-> FALSE, deleted |-> FALSE]]
             /\ drawn' = drawn \cup {k}
             /\ team' = [team EXCEPT ![r] = t]
             /\ Goto(r, "createMember")
             /\ UNCHANGED <<members, call, access, now>>
  <2>1. PICK t \in TeamId, k \in Code :
             /\ ~Exists(t) /\ k \notin drawn
             /\ teams' = [teams EXCEPT ![t] =
                  [contest |-> call[r].contest, name |-> call[r].name, code |-> k,
                   open |-> TRUE, locked |-> FALSE, deleted |-> FALSE]]
             /\ drawn' = drawn \cup {k}
             /\ team' = [team EXCEPT ![r] = t]
             /\ Goto(r, "createMember")
             /\ UNCHANGED <<members, call, access, now>>
    BY <1>2
  <2>2. /\ teams'[t] = [contest |-> call[r].contest, name |-> call[r].name, code |-> k,
                        open |-> TRUE, locked |-> FALSE, deleted |-> FALSE]
        /\ \A s \in TeamId \ {t} : teams'[s] = teams[s]
    BY <2>1 DEF TypeInv, TypeOK
  <2>3. team'[r] = t /\ pc'[r] = "createMember" /\ pc[r] = "createTeam"
    BY <2>1 DEF CreateTeam, Goto, TypeInv, TypeOK
  <2>4. call[r] \in CreateCall /\ call[r].name # Blank
    BY <2>3 DEF TypeInv, TypeOK, Loaded, CreatePC
  <2>5. \A s \in TeamId \ {t} : Still(r, s)
    BY <2>1, <2>2, <2>3, OthersStill DEF Halves, Leaving
  <2>6. Founding(r, t)'
    BY <2>3 DEF Founding
  <2>7. Founds(r, t, k)
    BY <2>1, <2>2, <2>4, <2>5, <2>6 DEF Founds, Only
  <2> QED BY <2>7
<1> QED BY <1>1, <1>2 DEF CreateTeam, tables

LEMMA ConsFounds ==
  ASSUME OneRequest, TypeInv, TypeInv', ConsInv, NEW r \in Request, CreateTeam(r),
         NEW t \in TeamId, NEW k \in Code, Founds(r, t, k)
  PROVE  ConsInv'
<1>1. NameIsUnique(call[r].contest, call[r].name)
  BY DEF CreateTeam, ConsInv, RequestSound
<1>2. \A s \in TeamId \ {t} : teams'[s] = teams[s]
  BY DEF Founds, Only, Still
<1>3. /\ teams'[t].contest = call[r].contest /\ teams'[t].name = call[r].name
      /\ ~teams'[t].deleted /\ Exists(t)'
  <2>1. team'[r] = t /\ pc'[r] = "createMember"
    BY DEF Founds, Founding
  <2>2. Exists(t)'
    BY <2>1 DEF TypeInv, TypeOK, Loaded, TeamPC
  <2> QED BY <2>2 DEF Founds
<1>4. NamesUnique'
  <2> SUFFICES ASSUME NEW s1 \in TeamId, NEW s2 \in TeamId, Live(s1)', Live(s2)',
                      teams'[s1].contest = teams'[s2].contest, teams'[s1].name = teams'[s2].name
               PROVE  s1 = s2
    BY DEF NamesUnique
  <2>1. ASSUME NEW s \in TeamId \ {t}, Live(s)'
        PROVE  Live(s) /\ ~(teams'[s].contest = call[r].contest /\ teams'[s].name = call[r].name)
    BY <1>1, <1>2, <2>1 DEF Live, Exists, NameIsUnique
  <2>2. CASE s1 # t /\ s2 # t
    BY <1>2, <2>1, <2>2 DEF ConsInv, NamesUnique
  <2>3. CASE s1 = t \/ s2 = t
    BY <1>3, <2>1, <2>3
  <2> QED BY <2>2, <2>3
<1>5. members'[t] = [v \in User |-> None]
  <2>1. members[t] \in [User -> MemberRow \cup {None}] /\ \A v \in User : members[t][v] = None
    BY DEF Founds, TypeInv, TypeOK, NoOrphans, IsMember
  <2> QED BY <2>1 DEF Founds
<1>6. RequestSound(r)'
  BY <1>3, <1>5 DEF Founds, Founding, RequestSound, Live, Leaving
<1>7. TeamSound(r, t)'
  BY DEF TeamSound, Founds
<1> QED BY <1>4, <1>6, <1>7, ConsWritten DEF Founds

(* The statement after which the request is answered: the rows of the team *)
(* are the rows of the service again. *)
LEMMA AnsweredOnly ==
  ASSUME TypeInv, NEW r \in Request, NEW t \in TeamId, t = team[r], Return(r),
         UNCHANGED <<access, now>>,
         \A s \in TeamId \ {t} : teams'[s] = teams[s] /\ members'[s] = members[s]
  PROVE  /\ Only(r, t) /\ pc'[r] = "idle" /\ RequestSound(r)'
         /\ ~Founding(r, t)' /\ RowsOf(r, t)' = members'[t]
<1>1. pc'[r] = "idle"
  BY DEF Return, TypeInv, TypeOK
<1>2. \A s \in TeamId \ {t} : Still(r, s)
  BY <1>1, OthersStill DEF Halves, Leaving
<1>3. RequestSound(r)'
  BY <1>1, EasyRequest DEF Halves, Leaving
<1> QED BY <1>1, <1>2, <1>3 DEF Only, Founding, RowsOf, Leaves, Leaving

(* A team is live and the service has rows for it. *)
Settled(r, t) == Live(t) /\ ~Founding(r, t) /\ Sound(RowsOf(r, t), now)

LEMMA SettledBefore ==
  ASSUME ConsInv, NEW r \in Request, NEW t \in TeamId, Live(t), ~Founding(r, t)
  PROVE  Settled(r, t)
BY DEF ConsInv, TeamSound, Live, Settled

LEMMA ConsSettled ==
  ASSUME OneRequest, TypeInv, TypeInv', ConsInv, NEW r \in Request, NEW t \in TeamId,
         UNCHANGED teams, Only(r, t), RequestSound(r)', Settled(r, t)'
  PROVE  ConsInv'
<1>1. NamesUnique'
  BY NamesKept DEF ConsInv, Live, Exists
<1>2. TeamSound(r, t)'
  BY DEF TeamSound, Settled, Live
<1> QED BY <1>1, <1>2, ConsWritten

LEMMA CreateMemberStep ==
  ASSUME TypeInv, ConsInv, NEW r \in Request, CreateMember(r), NEW t, t = team[r],
         NEW u, u = call[r].user
  PROVE  /\ t \in TeamId /\ u \in User /\ Founding(r, t) /\ teams[t].name = call[r].name
         /\ UNCHANGED <<teams, drawn>> /\ Only(r, t) /\ RequestSound(r)' /\ Settled(r, t)'
         /\ Present(RowsOf(r, t)') = {u} /\ CreatorIn(RowsOf(r, t)', u)
         /\ RowsOf(r, t)'[u].joined = now
<1>1. /\ pc[r] = "createMember" /\ UNCHANGED <<teams, access, drawn, now>> /\ Return(r)
      /\ InsertMember(t, u, TRUE)
  BY DEF CreateMember
<1>2. t \in TeamId /\ u \in User
  BY <1>1 DEF TypeInv, TypeOK, Loaded, CreatePC, TeamPC, CreateCall
<1>3. Live(t) /\ teams[t].name = call[r].name /\ members[t] = [v \in User |-> None]
  BY <1>1 DEF ConsInv, RequestSound
<1>4. members' = [members EXCEPT ![t][u] = [joined |-> now, creator |-> TRUE]]
  BY <1>1, <1>2, <1>3 DEF InsertMember, IsMember
<1>5. /\ members'[t][u] = [joined |-> now, creator |-> TRUE]
      /\ \A v \in User \ {u} : members'[t][v] = None
      /\ \A s \in TeamId \ {t} : members'[s] = members[s]
  BY <1>2, <1>3, <1>4 DEF TypeInv, TypeOK
<1>6. now \in Nat /\ [joined |-> now, creator |-> TRUE] \in MemberRow
  BY SizeAssumption DEF TypeInv, TypeOK, MemberRow
<1>7. members'[t] \in Rows
  BY <1>2, <1>3, <1>4, <1>6 DEF TypeInv, TypeOK, Rows
<1>8. Sound(members'[t], now) /\ Present(members'[t]) = {u}
  BY <1>2, <1>5, <1>6, <1>7, FoundedSound
<1>9. Only(r, t) /\ RequestSound(r)' /\ ~Founding(r, t)' /\ RowsOf(r, t)' = members'[t]
  BY <1>1, <1>2, <1>5, AnsweredOnly
<1>10. members'[t][u].joined = now
  BY <1>5
<1>11. CreatorIn(members'[t], u)
  BY <1>8 DEF Sound, CreatorIn
<1>12. Settled(r, t)'
  BY <1>1, <1>3, <1>8, <1>9 DEF Settled, Live, Exists, Sound, CreatorIn, Present
<1> QED BY <1>1, <1>2, <1>3, <1>8, <1>9, <1>10, <1>11, <1>12 DEF Founding

LEMMA JoinMemberStep ==
  ASSUME TypeInv, MembershipInv, ConsInv, NEW r \in Request, JoinMember(r), NEW t, t = team[r],
         NEW u, u = call[r].user
  PROVE  /\ t \in TeamId /\ u \in User /\ Settled(r, t) /\ RowsOf(r, t) = members[t]
         /\ UNCHANGED <<teams, drawn>> /\ Only(r, t) /\ RequestSound(r)' /\ Settled(r, t)'
         /\ ~IsMember(t, u) /\ HasRoom(t) /\ Present(RowsOf(r, t)') = Present(members[t]) \cup {u}
         /\ RowsOf(r, t)' = [members[t] EXCEPT ![u] = [joined |-> now, creator |-> FALSE]]
<1>1. /\ pc[r] = "joinMember" /\ UNCHANGED <<teams, access, drawn, now>> /\ Return(r)
      /\ InsertMember(t, u, FALSE)
  BY DEF JoinMember
<1>2. t \in TeamId /\ u \in User
  BY <1>1 DEF TypeInv, TypeOK, Loaded, JoinPC, TeamPC, JoinCall
<1>3. Live(t) /\ HasRoom(t)
  BY <1>1 DEF ConsInv, RequestSound
<1>4. ~IsMember(t, u)
  BY <1>1, <1>2, <1>3 DEF MembershipInv, Joining, NotInAnyTeam, Live
<1>5. RowsOf(r, t) = members[t] /\ Settled(r, t)
  BY <1>1, <1>2, <1>3, SettledBefore DEF RowsOf, Leaves, Leaving, Founding
<1>6. members' = [members EXCEPT ![t][u] = [joined |-> now, creator |-> FALSE]]
  BY <1>1, <1>4 DEF InsertMember
<1>7. /\ members'[t] = [members[t] EXCEPT ![u] = [joined |-> now, creator |-> FALSE]]
      /\ \A s \in TeamId \ {t} : members'[s] = members[s]
  BY <1>2, <1>6 DEF TypeInv, TypeOK
<1>8. now \in Nat /\ members[t][u] = None /\ Cardinality(Present(members[t])) < MaxSize
  BY <1>3, <1>4, SizeAssumption DEF TypeInv, TypeOK, IsMember, HasRoom, Roster, Present
<1>9. Sound(members'[t], now) /\ Present(members'[t]) = Present(members[t]) \cup {u}
  BY <1>2, <1>5, <1>7, <1>8, GrownSound DEF Settled
<1>10. Only(r, t) /\ RequestSound(r)' /\ ~Founding(r, t)' /\ RowsOf(r, t)' = members'[t]
  BY <1>1, <1>2, <1>7, AnsweredOnly
<1>11. Settled(r, t)'
  BY <1>1, <1>3, <1>9, <1>10 DEF Settled, Live, Exists, Sound, CreatorIn, Present
<1> QED BY <1>1, <1>2, <1>3, <1>4, <1>5, <1>7, <1>9, <1>10, <1>11

(* Who is about to be deleted is a member of a live team. *)
LEMMA LeaverIsMember ==
  ASSUME TypeInv, ConsInv, NEW r \in Request, LeaveDelete(r), NEW t, t = team[r],
         NEW u, u = call[r].user
  PROVE  /\ t \in TeamId /\ u \in User /\ Settled(r, t) /\ RowsOf(r, t) = members[t]
         /\ IsMember(t, u) /\ member[r] = members[t][u] /\ member[r] \in MemberRow
         /\ \A s \in TeamId \ {t} : members'[s] = members[s]
         /\ members'[t] = [members[t] EXCEPT ![u] = None]
<1>1. pc[r] = "leaveDelete" /\ members' = [members EXCEPT ![t][u] = None]
  BY DEF LeaveDelete
<1>2. t \in TeamId /\ u \in User /\ Exists(t) /\ member[r] \in MemberRow
  BY <1>1 DEF TypeInv, TypeOK, Loaded, LeavePC, TeamPC, OtherCall
<1>3. IsMember(t, u) /\ member[r] = members[t][u]
  BY <1>1 DEF ConsInv, RequestSound
<1>4. RowsOf(r, t) = members[t] /\ ~Founding(r, t)
  BY <1>1 DEF RowsOf, Leaves, Leaving, Founding
<1>5. Live(t)
  BY <1>2, <1>3, <1>4 DEF ConsInv, TeamSound, Live, Present, IsMember
<1>6. Settled(r, t)
  BY <1>2, <1>4, <1>5, SettledBefore
<1> QED BY <1>1, <1>2, <1>3, <1>4, <1>6 DEF TypeInv, TypeOK

LEMMA CreatorGoesStep ==
  ASSUME TypeInv, ConsInv, NEW r \in Request, LeaveDelete(r), member[r].creator
  PROVE  /\ UNCHANGED <<teams, access, drawn, now>> /\ \A s \in TeamId : Still(r, s)
         /\ RequestSound(r)'
<1>1. PICK t, u : t = team[r] /\ u = call[r].user
  OBVIOUS
<1>2. /\ UNCHANGED <<teams, access, drawn, now, locals>> /\ pc[r] = "leaveDelete"
      /\ pc'[r] = "leaveHeir"
  BY DEF LeaveDelete, Check, Goto, TypeInv, TypeOK
<1>3. /\ t \in TeamId /\ u \in User /\ Settled(r, t)
      /\ IsMember(t, u) /\ member[r] = members[t][u] /\ member[r] \in MemberRow
      /\ \A s \in TeamId \ {t} : members'[s] = members[s]
      /\ members'[t] = [members[t] EXCEPT ![u] = None]
  BY <1>1, LeaverIsMember
<1>4. \A s \in TeamId \ {t} : Still(r, s)
  BY <1>1, <1>2, <1>3, OthersStill DEF locals
<1>5. Still(r, t)
  <2>1. members[t] \in [User -> MemberRow \cup {None}]
    BY <1>3 DEF TypeInv, TypeOK
  <2>2. [members'[t] EXCEPT ![u] = member[r]] = members[t]
    BY <1>3, <2>1
  <2>3. RowsOf(r, t)' = [members'[t] EXCEPT ![u] = member[r]]
    BY <1>1, <1>2 DEF RowsOf, RowsBefore, Leaves, Leaving, locals
  <2>4. RowsOf(r, t) = members[t]
    BY <1>2 DEF RowsOf, Leaves, Leaving
  <2> QED BY <1>2, <2>2, <2>3, <2>4 DEF Still, Founding
<1>6. RequestSound(r)'
  <2>1. Live(t)' /\ ~IsMember(t, u)'
    BY <1>2, <1>3 DEF Settled, Live, Exists, IsMember, TypeInv, TypeOK
  <2>2. team'[r] = t /\ call'[r].user = u /\ member'[r] = member[r]
    BY <1>1, <1>2 DEF locals
  <2>3. Live(team[r])' /\ ~IsMember(team[r], call[r].user)'
    BY <2>1, <2>2 DEF Live, Exists, IsMember
  <2> QED BY <1>2, <1>3, <2>2, <2>3 DEF RequestSound, Leaving
<1> QED BY <1>2, <1>4, <1>5, <1>6

LEMMA MemberGoesStep ==
  ASSUME TypeInv, ConsInv, NEW r \in Request, LeaveDelete(r), ~member[r].creator,
         NEW t, t = team[r], NEW u, u = call[r].user
  PROVE  /\ t \in TeamId /\ u \in User /\ Settled(r, t) /\ RowsOf(r, t) = members[t]
         /\ UNCHANGED <<teams, drawn>> /\ Only(r, t) /\ RequestSound(r)' /\ Settled(r, t)'
         /\ IsMember(t, u) /\ ~members[t][u].creator
         /\ Present(RowsOf(r, t)') = Present(members[t]) \ {u}
         /\ \A v \in User \ {u} : RowsOf(r, t)'[v] = members[t][v]
<1>1. Return(r) /\ UNCHANGED <<teams, access, drawn, now>>
  BY DEF LeaveDelete, Check
<1>2. /\ t \in TeamId /\ u \in User /\ Settled(r, t) /\ RowsOf(r, t) = members[t]
      /\ IsMember(t, u) /\ member[r] = members[t][u] /\ member[r] \in MemberRow
      /\ \A s \in TeamId \ {t} : members'[s] = members[s]
      /\ members'[t] = [members[t] EXCEPT ![u] = None]
  BY LeaverIsMember
<1>3. Only(r, t) /\ RequestSound(r)' /\ ~Founding(r, t)' /\ RowsOf(r, t)' = members'[t]
  BY <1>1, <1>2, AnsweredOnly
<1>4. Sound(members'[t], now) /\ Present(members'[t]) = Present(members[t]) \ {u}
  BY <1>2, ShrunkSound DEF Settled
<1>5. Settled(r, t)'
  BY <1>1, <1>2, <1>3, <1>4 DEF Settled, Live, Exists, Sound, CreatorIn, Present
<1>6. \A v \in User \ {u} : members'[t][v] = members[t][v]
  BY <1>2 DEF TypeInv, TypeOK
<1> QED BY <1>1, <1>2, <1>3, <1>4, <1>5, <1>6

(* The rows of a team whose creator is leaving. *)
LEMMA LeavingRows ==
  ASSUME TypeInv, ConsInv, NEW r \in Request, pc[r] \in Leaving, NEW t, t = team[r],
         NEW u, u = call[r].user
  PROVE  /\ t \in TeamId /\ u \in User /\ Settled(r, t) /\ ~IsMember(t, u)
         /\ RowsOf(r, t) = [members[t] EXCEPT ![u] = member[r]]
         /\ u \in Present(RowsOf(r, t)) /\ RowsOf(r, t)[u].creator
         /\ Present(RowsOf(r, t)) = Roster(t) \cup {u} /\ u \notin Roster(t)
         /\ \A v \in Roster(t) : RowsOf(r, t)[v] = members[t][v]
<1>1. t \in TeamId /\ u \in User
  BY DEF TypeInv, TypeOK, Loaded, Leaving, LeavePC, TeamPC, OtherCall
<1>2. Live(t) /\ ~IsMember(t, u) /\ member[r] \in MemberRow /\ member[r].creator
  BY DEF ConsInv, RequestSound
<1>3. RowsOf(r, t) = [members[t] EXCEPT ![u] = member[r]] /\ ~Founding(r, t)
  BY DEF RowsOf, RowsBefore, Leaves, Leaving, Founding
<1>4. Settled(r, t)
  BY <1>1, <1>2, <1>3, SettledBefore
<1>5. member[r] # None
  BY <1>2, NoneAssumption
<1>6. members[t] \in [User -> MemberRow \cup {None}]
  BY <1>1 DEF TypeInv, TypeOK
<1>7. RowsOf(r, t)[u] = member[r] /\ \A v \in User \ {u} : RowsOf(r, t)[v] = members[t][v]
  BY <1>1, <1>3, <1>6
<1>8. u \notin Roster(t)
  BY <1>2 DEF Roster
<1>9. Present(RowsOf(r, t)) = Roster(t) \cup {u}
  BY <1>1, <1>5, <1>7 DEF Present, Roster, IsMember
<1>10. \A v \in Roster(t) : RowsOf(r, t)[v] = members[t][v]
  BY <1>7, <1>8 DEF Roster
<1> QED BY <1>1, <1>2, <1>3, <1>4, <1>7, <1>8, <1>9, <1>10

LEMMA MarkDeletedStep ==
  ASSUME TypeInv, ConsInv, NEW r \in Request, LeaveMarkDeleted(r), NEW t, t = team[r],
         NEW u, u = call[r].user
  PROVE  /\ t \in TeamId /\ u \in User /\ Settled(r, t) /\ Present(RowsOf(r, t)) = {u}
         /\ teams' = [teams EXCEPT ![t].deleted = TRUE] /\ teams'[t].deleted /\ UNCHANGED drawn
         /\ Only(r, t) /\ RequestSound(r)' /\ ~Founding(r, t)' /\ Present(RowsOf(r, t)') = {}
<1>1. /\ pc[r] = "leaveMarkDeleted" /\ UNCHANGED <<members, access, drawn, now>> /\ Return(r)
      /\ teams' = [teams EXCEPT ![t].deleted = TRUE]
  BY DEF LeaveMarkDeleted
<1>2. /\ t \in TeamId /\ u \in User /\ Settled(r, t)
      /\ Present(RowsOf(r, t)) = Roster(t) \cup {u}
  BY <1>1, LeavingRows DEF Leaving
<1>3. Roster(t) = {}
  BY <1>1 DEF ConsInv, RequestSound
<1>4. teams[t] \in TeamRow
  BY <1>2 DEF TypeInv, TypeOK, Settled, Live, Exists
<1>5. teams'[t].deleted /\ \A s \in TeamId \ {t} : teams'[s] = teams[s]
  BY <1>1, <1>2, <1>4 DEF TypeInv, TypeOK, TeamRow
<1>6. Only(r, t) /\ RequestSound(r)' /\ ~Founding(r, t)' /\ RowsOf(r, t)' = members'[t]
  BY <1>1, <1>2, <1>5, AnsweredOnly
<1>7. Present(RowsOf(r, t)') = {}
  BY <1>1, <1>3, <1>6 DEF Present, Roster, IsMember
<1> QED BY <1>1, <1>2, <1>3, <1>5, <1>6, <1>7

LEMMA TransferStep ==
  ASSUME TypeInv, ConsInv, NEW r \in Request, LeaveTransfer(r), NEW t, t = team[r],
         NEW u, u = call[r].user, NEW h, h = heir[r]
  PROVE  /\ t \in TeamId /\ u \in User /\ Settled(r, t)
         /\ u \in Present(RowsOf(r, t)) /\ RowsOf(r, t)[u].creator
         /\ h \in Present(RowsOf(r, t)) \ {u}
         /\ \A v \in Present(RowsOf(r, t)) \ {u} : RowsOf(r, t)[h].joined <= RowsOf(r, t)[v].joined
         /\ UNCHANGED <<teams, drawn>> /\ Only(r, t) /\ RequestSound(r)' /\ Settled(r, t)'
         /\ Present(RowsOf(r, t)') = Present(RowsOf(r, t)) \ {u} /\ CreatorIn(RowsOf(r, t)', h)
         /\ \A v \in Present(RowsOf(r, t)') : RowsOf(r, t)'[v].joined = RowsOf(r, t)[v].joined
<1>1. /\ pc[r] = "leaveTransfer" /\ UNCHANGED <<teams, access, drawn, now>> /\ Return(r)
  BY DEF LeaveTransfer
<1>2. /\ t \in TeamId /\ u \in User /\ Settled(r, t) /\ ~IsMember(t, u)
      /\ u \in Present(RowsOf(r, t)) /\ RowsOf(r, t)[u].creator
      /\ Present(RowsOf(r, t)) = Roster(t) \cup {u} /\ u \notin Roster(t)
      /\ \A v \in Roster(t) : RowsOf(r, t)[v] = members[t][v]
      /\ RowsOf(r, t) = [members[t] EXCEPT ![u] = member[r]]
  BY <1>1, LeavingRows DEF Leaving
<1>3. h \in Oldest(t, Roster(t))
  BY <1>1 DEF ConsInv, RequestSound
<1>4. h \in Roster(t) /\ h \in User /\ \A v \in Roster(t) : members[t][h].joined <= members[t][v].joined
  BY <1>3 DEF Oldest, Roster
<1>5. /\ h \in Present(RowsOf(r, t)) \ {u}
      /\ \A v \in Present(RowsOf(r, t)) \ {u} : RowsOf(r, t)[h].joined <= RowsOf(r, t)[v].joined
  BY <1>2, <1>4
<1>6. members' = [members EXCEPT ![t][h].creator = TRUE]
  BY <1>4 DEF LeaveTransfer, Roster
<1>7. members[t] \in [User -> MemberRow \cup {None}]
  BY <1>2 DEF TypeInv, TypeOK
<1>8. /\ members'[t][h] = [members[t][h] EXCEPT !.creator = TRUE]
      /\ \A v \in User \ {h} : members'[t][v] = members[t][v]
      /\ \A s \in TeamId \ {t} : members'[s] = members[s]
      /\ DOMAIN members'[t] = User
  BY <1>2, <1>4, <1>6 DEF TypeInv, TypeOK
<1>9. Only(r, t) /\ RequestSound(r)' /\ ~Founding(r, t)' /\ RowsOf(r, t)' = members'[t]
  BY <1>1, <1>2, <1>8, AnsweredOnly
<1>10. members[t][h] \in MemberRow
  BY <1>4, <1>7 DEF Roster, IsMember
<1>11. /\ members'[t][h] \in MemberRow /\ members'[t][h].creator
       /\ members'[t][h].joined = members[t][h].joined
  BY <1>8, <1>10 DEF MemberRow
<1>12. members'[t] \in Rows
  <2>1. members'[t] = [v \in User |-> members'[t][v]]
    BY <1>2, <1>4, <1>6 DEF TypeInv, TypeOK
  <2>2. \A v \in User : members'[t][v] \in MemberRow \cup {None}
    BY <1>7, <1>8, <1>11
  <2> QED BY <2>1, <2>2 DEF Rows
<1>13. members'[t][u] = None /\ \A v \in User \ {u, h} : members'[t][v] = RowsOf(r, t)[v]
  BY <1>2, <1>4, <1>7, <1>8 DEF IsMember
<1>14. /\ members'[t][h] \in MemberRow /\ members'[t][h].creator
       /\ members'[t][h].joined = RowsOf(r, t)[h].joined
  BY <1>2, <1>4, <1>11
<1>15. PICK rows, new : rows = RowsOf(r, t) /\ new = members'[t]
  OBVIOUS
<1>16. /\ Sound(new, now) /\ Present(new) = Present(rows) \ {u}
       /\ CreatorIn(new, h)
       /\ \A v \in Present(new) : new[v].joined = rows[v].joined
  <2>1. Sound(rows, now) /\ u \in Present(rows) /\ rows[u].creator
    BY <1>2, <1>15 DEF Settled
  <2>2. h \in Present(rows) \ {u} /\ \A v \in Present(rows) \ {u} : rows[h].joined <= rows[v].joined
    BY <1>5, <1>15
  <2>3. new[h] \in MemberRow /\ new[h].creator /\ new[h].joined = rows[h].joined /\ new[u] = None
    BY <1>13, <1>14, <1>15
  <2>4. new \in Rows /\ \A v \in User \ {u, h} : new[v] = rows[v]
    BY <1>12, <1>13, <1>15
  <2> QED BY <2>1, <2>2, <2>3, <2>4, HandedOverSound
<1>17. Settled(r, t)'
  BY <1>1, <1>2, <1>9, <1>15, <1>16 DEF Settled, Live, Exists, Sound, CreatorIn, Present
<1> QED BY <1>1, <1>2, <1>5, <1>9, <1>15, <1>16, <1>17

(* The two UPDATEs of a team change no column the other properties read.   *)
LEMMA SaveStep ==
  ASSUME TypeInv, ConsInv, NEW r \in Request, UpdateSave(r) \/ RenewSave(r), NEW t, t = team[r]
  PROVE  /\ t \in TeamId /\ call[r].user \in User /\ Exists(t) /\ Exists(t)' /\ UNCHANGED members
         /\ ~Founding(r, t) /\ RowsOf(r, t) = members[t]
         /\ teams'[t].contest = teams[t].contest /\ teams'[t].name = teams[t].name
         /\ teams'[t].deleted = teams[t].deleted
         /\ Only(r, t) /\ RequestSound(r)' /\ ~Founding(r, t)' /\ RowsOf(r, t)' = members[t]
<1>1. /\ pc[r] \in {"updateSave", "renewSave"} /\ UNCHANGED <<members, access, now>> /\ Return(r)
  BY DEF UpdateSave, RenewSave
<1>2. t \in TeamId /\ call[r].user \in User /\ teams[t] \in TeamRow /\ Exists(t)
  BY <1>1 DEF TypeInv, TypeOK, Loaded, UpdatePC, RenewPC, LeavePC, TeamPC, OtherCall, UpdateCall,
              Exists
<1>3. /\ teams'[t].contest = teams[t].contest /\ teams'[t].name = teams[t].name
      /\ teams'[t].deleted = teams[t].deleted /\ teams'[t] \in TeamRow
      /\ \A s \in TeamId \ {t} : teams'[s] = teams[s]
  <2>1. CASE UpdateSave(r)
    <3>1. pc[r] = "updateSave" /\ row[r] \in TeamRow /\ teams' = [teams EXCEPT ![t] = row[r]]
      BY <2>1 DEF UpdateSave, TypeInv, TypeOK, Loaded
    <3>2. teams'[t] = row[r] /\ \A s \in TeamId \ {t} : teams'[s] = teams[s]
      BY <1>2, <3>1 DEF TypeInv, TypeOK
    <3> QED BY <3>1, <3>2 DEF ConsInv, RequestSound
  <2>2. CASE RenewSave(r) /\ UNCHANGED teams
    BY <1>2, <2>2
  <2>3. CASE RenewSave(r) /\ ~UNCHANGED teams
    <3>1. PICK k \in Code : teams' = [teams EXCEPT ![t].code = k]
      BY <2>3 DEF RenewSave
    <3> QED BY <1>2, <3>1 DEF TypeInv, TypeOK, TeamRow
  <2> QED BY <2>1, <2>2, <2>3
<1>4. Exists(t)'
  BY <1>2, <1>3, NoneAssumption DEF Exists
<1>5. ~Founding(r, t) /\ RowsOf(r, t) = members[t]
  BY <1>1 DEF Founding, RowsOf, Leaves, Leaving
<1>6. Only(r, t) /\ RequestSound(r)' /\ ~Founding(r, t)' /\ RowsOf(r, t)' = members'[t]
  BY <1>1, <1>2, <1>3, AnsweredOnly
<1> QED BY <1>1, <1>2, <1>3, <1>4, <1>5, <1>6

LEMMA RowsKeptSound ==
  ASSUME NEW r \in Request, NEW t \in TeamId, TeamSound(r, t), Exists(t), UNCHANGED now,
         Founding(r, t) => Founding(r, t)', RowsOf(r, t)' = RowsOf(r, t),
         teams'[t].deleted = teams[t].deleted
  PROVE  TeamSound(r, t)'
<1>1. ASSUME Sound(RowsOf(r, t), now) PROVE Sound(RowsOf(r, t), now)'
  BY <1>1 DEF Sound, CreatorIn, Present
<1>2. Present(RowsOf(r, t))' = Present(RowsOf(r, t))
  BY DEF Present
<1> QED BY <1>1, <1>2 DEF TeamSound

LEMMA ConsSaved ==
  ASSUME OneRequest, TypeInv, TypeInv', ConsInv, NEW r \in Request, UpdateSave(r) \/ RenewSave(r)
  PROVE  ConsInv'
<1>1. PICK t : t = team[r]
  OBVIOUS
<1>2. /\ t \in TeamId /\ Exists(t) /\ Exists(t)' /\ UNCHANGED members
      /\ ~Founding(r, t) /\ RowsOf(r, t) = members[t]
      /\ teams'[t].contest = teams[t].contest /\ teams'[t].name = teams[t].name
      /\ teams'[t].deleted = teams[t].deleted
      /\ Only(r, t) /\ RequestSound(r)' /\ ~Founding(r, t)' /\ RowsOf(r, t)' = members[t]
  BY <1>1, SaveStep
<1>3. NamesUnique'
  <2>1. \A s \in TeamId \ {t} : teams'[s] = teams[s]
    BY <1>2 DEF Only, Still
  <2>2. \A s \in TeamId : Live(s)' =>
          Live(s) /\ teams'[s].contest = teams[s].contest /\ teams'[s].name = teams[s].name
    BY <1>2, <2>1 DEF Live, Exists
  <2> QED BY <2>2, NamesKept DEF ConsInv
<1>4. TeamSound(r, t)'
  BY <1>2, RowsKeptSound DEF ConsInv, Only
<1> QED BY <1>2, <1>3, <1>4, ConsWritten

LEMMA ConsLock ==
  ASSUME OneRequest, TypeInv, TypeInv', ConsInv, NEW t \in TeamId, Lock(t)
  PROVE  ConsInv'
<1>1. PICK r \in Request : TRUE
  BY RequestAssumption
<1>2. UNCHANGED <<members, access, now, pc, locals>> /\ Exists(t)
  BY DEF Lock
<1>3. teams' = [teams EXCEPT ![t].locked = TRUE] /\ teams[t] \in TeamRow
  BY DEF Lock, TypeInv, TypeOK, Exists
<1>4. /\ teams'[t].contest = teams[t].contest /\ teams'[t].name = teams[t].name
      /\ teams'[t].code = teams[t].code /\ teams'[t].deleted = teams[t].deleted
      /\ teams'[t] \in TeamRow
      /\ \A s \in TeamId \ {t} : teams'[s] = teams[s]
  BY <1>3 DEF TypeInv, TypeOK, TeamRow
<1>5. Exists(t)'
  BY <1>4, NoneAssumption DEF Exists
<1>6. Only(r, t)
  BY <1>2, <1>4 DEF Only, Still, Founding, RowsOf, RowsBefore, Leaves, locals
<1>7. \A s \in TeamId : /\ Live(s)' <=> Live(s)
                        /\ teams'[s].contest = teams[s].contest /\ teams'[s].name = teams[s].name
                        /\ teams'[s].code = teams[s].code /\ teams'[s].deleted = teams[s].deleted
  BY <1>2, <1>4, <1>5 DEF Live, Exists
<1>8. NamesUnique'
  BY <1>7, NamesKept DEF ConsInv
<1>9. TeamSound(r, t)'
  <2>1. Founding(r, t)' = Founding(r, t) /\ RowsOf(r, t)' = RowsOf(r, t)
    BY <1>2 DEF Founding, RowsOf, RowsBefore, Leaves, locals
  <2> QED BY <1>2, <1>4, <2>1, RowsKeptSound DEF ConsInv
<1>10. RequestSound(r)'
  <2>1. RequestSound(r) /\ (pc[r] \in TeamPC => team[r] \in TeamId)
    BY DEF ConsInv, TypeInv, TypeOK, Loaded
  <2>2. pc[r] = "createTeam" => NameIsUnique(call[r].contest, call[r].name)'
    BY <1>2, <1>7, <2>1 DEF RequestSound, NameIsUnique, locals
  <2>3. pc[r] \in TeamPC => /\ (Live(team[r])' <=> Live(team[r]))
                            /\ teams'[team[r]].contest = teams[team[r]].contest
                            /\ teams'[team[r]].name = teams[team[r]].name
                            /\ teams'[team[r]].code = teams[team[r]].code
                            /\ teams'[team[r]].deleted = teams[team[r]].deleted
    BY <1>2, <1>7, <2>1 DEF Live, Exists, locals
  <2> QED BY <1>2, <2>1, <2>2, <2>3
          DEF RequestSound, Live, Exists, HasRoom, Roster, Oldest, IsMember, Leaving, locals,
              TeamPC, LeavePC, UpdatePC, RenewPC
<1> QED BY <1>6, <1>8, <1>9, <1>10, ConsWritten

LEMMA ConsInit == ASSUME OneRequest, Init PROVE ConsInv
<1>1. \A t \in TeamId : ~Exists(t)
  BY DEF Init, Exists
<1>2. \A r \in Request : pc[r] = "idle"
  BY DEF Init
<1> QED BY <1>1, <1>2 DEF ConsInv, NamesUnique, Live, TeamSound, RequestSound, Leaving

LEMMA ConsStatement ==
  ASSUME OneRequest, TypeInv, TypeInv', MembershipInv, ConsInv, NEW r \in Request, Statement(r)
  PROVE  ConsInv'
<1>1. ASSUME NoTrace(r), RequestSound(r)' PROVE ConsInv'
  <2>1. now <= now'
    BY <1>1, SizeAssumption DEF NoTrace, tables, TypeInv, TypeOK
  <2> QED BY <1>1, <2>1, ConsQuiet DEF NoTrace, tables
<1>2. PICK t, u, h : t = team[r] /\ u = call[r].user /\ h = heir[r]
  OBVIOUS
<1>3. CASE Reads(r)
  BY <1>1, <1>3, ReadStep
<1>4. CASE CreateTeam(r)
  <2>1. CASE NoTrace(r) /\ pc'[r] = "idle"
    BY <1>1, <2>1, EasyRequest DEF Halves, Leaving
  <2>2. CASE \E s \in TeamId, k \in Code : Founds(r, s, k)
    BY <1>4, <2>2, ConsFounds
  <2> QED BY <1>4, <2>1, <2>2, CreateTeamStep
<1>5. CASE CreateMember(r)
  BY <1>2, <1>5, CreateMemberStep, ConsSettled
<1>6. CASE JoinMember(r)
  BY <1>2, <1>6, JoinMemberStep, ConsSettled
<1>7. CASE LeaveDelete(r) /\ member[r].creator
  <2>1. now <= now'
    BY <1>7, SizeAssumption DEF LeaveDelete, TypeInv, TypeOK
  <2> QED BY <1>7, <2>1, CreatorGoesStep, ConsQuiet
<1>8. CASE LeaveDelete(r) /\ ~member[r].creator
  BY <1>2, <1>8, MemberGoesStep, ConsSettled
<1>9. CASE LeaveMarkDeleted(r)
  <2>1. /\ t \in TeamId /\ teams' = [teams EXCEPT ![t].deleted = TRUE] /\ teams'[t].deleted
        /\ Only(r, t) /\ RequestSound(r)' /\ Present(RowsOf(r, t)') = {}
    BY <1>2, <1>9, MarkDeletedStep
  <2>2. \A s \in TeamId : Live(s)' => Live(s) /\ teams'[s] = teams[s]
    BY <2>1 DEF Live, Exists, Only, Still
  <2>3. NamesUnique'
    BY <2>2, NamesKept DEF ConsInv
  <2>4. TeamSound(r, t)'
    BY <2>1 DEF TeamSound, Present
  <2> QED BY <2>1, <2>3, <2>4, ConsWritten
<1>10. CASE LeaveTransfer(r)
  BY <1>2, <1>10, TransferStep, ConsSettled
<1>11. CASE UpdateSave(r) \/ RenewSave(r)
  BY <1>11, ConsSaved
<1> QED BY <1>3, <1>4, <1>5, <1>6, <1>7, <1>8, <1>9, <1>10, <1>11 DEF Statement, Reads

LEMMA FaultStep ==
  ASSUME TypeInv, NEW r \in Request, FaultOutside(r)
  PROVE  NoTrace(r) /\ pc'[r] = "idle"
<1>1. UNCHANGED tables /\ pc[r] \notin Halves /\ pc'[r] = "idle"
  BY DEF FaultOutside, Fault, Halfway, Return, Halves, Leaving, TypeInv, TypeOK
<1>2. \A t \in TeamId : Still(r, t)
  BY <1>1, AllStill DEF Halves, Leaving, tables
<1> QED BY <1>1, <1>2 DEF NoTrace

LEMMA SteadyIsNext == SteadyNext => Next
BY DEF SteadyNext, Next, FaultOutside

LEMMA ConsNext ==
  ASSUME OneRequest, TypeInv, TypeInv', MembershipInv, ConsInv, [SteadyNext]_vars
  PROVE  ConsInv'
<1>1. CASE \E r \in Request : Arrival(r) \/ FaultOutside(r)
  <2>1. PICK r \in Request : NoTrace(r) /\ RequestSound(r)'
    BY <1>1, ArrivalStep, FaultStep, EasyRequest DEF Halves, Leaving
  <2>2. now <= now'
    BY <2>1, SizeAssumption DEF NoTrace, tables, TypeInv, TypeOK
  <2> QED BY <2>1, <2>2, ConsQuiet DEF NoTrace, tables
<1>2. CASE \E r \in Request : Statement(r)
  BY <1>2, ConsStatement
<1>3. CASE \E t \in TeamId : Lock(t)
  BY <1>3, ConsLock
<1>4. CASE UNCHANGED <<teams, members, pc, locals>> /\ now' \in {now, now + 1}
  <2>1. PICK r \in Request : TRUE
    BY RequestAssumption
  <2>2. now <= now'
    BY <1>4, SizeAssumption DEF TypeInv, TypeOK
  <2>3. \A t \in TeamId : Still(r, t)
    BY <1>4 DEF Still, Founding, RowsOf, RowsBefore, Leaves, locals
  <2>4. RequestSound(r)'
    BY <1>4 DEF ConsInv, RequestSound, NameIsUnique, Live, Exists, HasRoom, Roster, Oldest,
                IsMember, locals
  <2> QED BY <1>4, <2>2, <2>3, <2>4, ConsQuiet
<1> QED BY <1>1, <1>2, <1>3, <1>4 DEF SteadyNext, BadgesImported, Tick, vars, tables

(* Also between the statements of the request. *)
LEMMA SizeKept == ASSUME TypeInv, ConsInv PROVE SizeNotExceeded
<1> SUFFICES ASSUME NEW t \in TeamId PROVE Cardinality(Roster(t)) <= MaxSize
  BY DEF SizeNotExceeded
<1>1. PICK r \in Request : TRUE
  BY RequestAssumption
<1>2. Roster(t) = Present(members[t])
  BY DEF Roster, Present, IsMember
<1>3. CASE Roster(t) = {}
  BY <1>3, FS_EmptySet, SizeAssumption
<1>4. CASE Roster(t) # {} /\ Exists(t) /\ ~Founding(r, t)
  <2>1. Roster(t) \subseteq Present(RowsOf(r, t))
    <3>1. CASE Leaves(r, t)
      BY <3>1, LeavingRows DEF Leaves
    <3>2. CASE ~Leaves(r, t)
      BY <1>2, <3>2 DEF RowsOf
    <3> QED BY <3>1, <3>2
  <2>2. Sound(RowsOf(r, t), now)
    BY <1>4, <2>1 DEF ConsInv, TeamSound
  <2>3. Cardinality(Roster(t)) <= Cardinality(Present(RowsOf(r, t)))
    BY <2>1, PresentFinite, FS_Subset
  <2>4. Cardinality(Present(RowsOf(r, t))) <= MaxSize
    BY <2>2 DEF Sound
  <2> QED BY <1>2, <2>3, <2>4, PresentFinite, SizeAssumption
<1>5. CASE Founding(r, t)
  BY <1>3, <1>5 DEF Founding, ConsInv, RequestSound, Roster, IsMember
<1>6. CASE ~Exists(t)
  BY <1>3, <1>6 DEF TypeInv, NoOrphans, Roster
<1> QED BY <1>3, <1>4, <1>5, <1>6

(* One request at a time, with no fault between two of its writes, leaves  *)
(* the tables, whatever contests start and badges change, as the comments  *)
(* of teams.go and types.ts say they are: a team is marked as deleted      *)
(* exactly when it is empty, names are unique, nobody is in two teams of a *)
(* contest, no team has more than MaxSize members, and the one creator of  *)
(* a team is a member who joined first.                                    *)
THEOREM ConsistentAlone ==
  ASSUME OneRequest PROVE SteadySpec => []ConsistentAtRest
<1> DEFINE Inv == TypeInv /\ CreatorInv /\ MembershipInv /\ ConsInv
<1>1. Init => Inv
  BY TypeInit, CreatorInit, MembershipInit, ConsInit
<1>2. Inv /\ [SteadyNext]_vars => Inv'
  <2>1. OneRequestPerUser
    BY DEF OneRequest, OneRequestPerUser
  <2>2. [SteadyNext]_vars => [Next]_vars
    BY SteadyIsNext
  <2> QED BY <2>1, <2>2, TypeNext, CreatorNext, MembershipNext, ConsNext
<1>3. Inv => ConsistentAtRest
  <2> SUFFICES ASSUME Inv PROVE ConsistentAtRest
    OBVIOUS
  <2>1. NamesUnique /\ OneTeamPerContest /\ AtMostOneCreator
    BY DEF ConsInv, MembershipInv, CreatorInv
  <2>2. PICK r \in Request : TRUE
    BY RequestAssumption
  <2>3. \A t \in TeamId : Roster(t) = Present(members[t])
    BY DEF Roster, Present, IsMember
  <2>4. AtRest => \A t \in TeamId : RowsOf(r, t) = members[t] /\ ~Founding(r, t)
    BY DEF AtRest, Running, RowsOf, Leaves, Leaving, Founding
  <2>5. ASSUME AtRest, NEW t \in TeamId, Exists(t)
        PROVE  /\ teams[t].deleted => Roster(t) = {}
               /\ ~teams[t].deleted => Sound(members[t], now)
    BY <2>3, <2>4, <2>5 DEF ConsInv, TeamSound
  <2>6. ASSUME AtRest, NEW t \in TeamId, Live(t)
        PROVE  \E u \in User : u \in Roster(t) /\ CreatorIn(members[t], u)
    BY <2>3, <2>5, <2>6 DEF Live, Sound, CreatorIn
  <2>7. DeletedMeansEmpty
    BY <2>5, <2>6 DEF DeletedMeansEmpty, Live
  <2>8. TeamsHaveCreators
    BY <2>3, <2>6 DEF TeamsHaveCreators, CreatorIn, IsCreator, IsMember, Roster
  <2>9. SizeNotExceeded
    BY SizeKept
  <2>10. ASSUME AtRest, NEW t \in TeamId, NEW u \in User, NEW v \in User,
                IsCreator(t, u), IsMember(t, v)
         PROVE  members[t][u].joined <= members[t][v].joined
    <3>1. u \in Roster(t) /\ Exists(t)
      BY <2>10 DEF Roster, IsCreator, TypeInv, NoOrphans
    <3>2. Live(t)
      BY <2>5, <2>10, <3>1 DEF Live
    <3>3. PICK c \in User : CreatorIn(members[t], c)
      BY <2>6, <2>10, <3>2
    <3> QED BY <2>10, <3>3 DEF CreatorIn, Present, IsCreator, IsMember
  <2> QED BY <2>1, <2>7, <2>8, <2>9, <2>10 DEF ConsistentAtRest
<1> QED BY <1>1, <1>2, <1>3, PTL DEF SteadySpec

-----------------------------------------------------------------------------
(* With quiet around the one request, what it has tested stays true.       *)

Codes ==
  \A t \in TeamId : Exists(t) =>
    /\ teams[t].code \in drawn
    /\ \A s \in TeamId : Exists(s) /\ teams[s].code = teams[t].code => s = t

Asked(r) ==
  /\ pc[r] \in CreatePC \cup JoinPC => <<call[r].user, call[r].contest>> \in access
  /\ pc[r] \in UpdatePC \cup RenewPC => IsMember(team[r], call[r].user)
  /\ pc[r] = "createMember" => teams[team[r]].open
  /\ pc[r] \in {"joinSize", "joinMember"} => Joinable(team[r], call[r].contest, call[r].code)
  /\ pc[r] = "updateSave" => row[r] = [teams[team[r]] EXCEPT !.open = call[r].open]

RefInv == Codes /\ \A r \in Request : Asked(r)

UnlockedInv == \A r \in Request : pc[r] \in PastLockTest => ~teams[team[r]].locked

LEMMA AskedAnswered ==
  ASSUME NEW r \in Request, pc'[r] \notin CreatePC \cup JoinPC \cup UpdatePC \cup RenewPC
  PROVE  Asked(r)'
BY DEF Asked, CreatePC, JoinPC, UpdatePC, RenewPC

LEMMA AskedArrival ==
  ASSUME TypeInv, NEW r \in Request, Arrival(r) PROVE Asked(r)'
<1> USE DEF CreatePC, JoinPC, LeavePC, UpdatePC, RenewPC
<1>1. ASSUME NEW c, NEW t, NEW l, Begin(r, c, t, l)
      PROVE  call'[r] = c /\ team'[r] = t /\ pc'[r] = l
  BY <1>1 DEF Begin, TypeInv, TypeOK
<1>2. CASE CreateBegin(r)
  <2>1. PICK u \in User, c \in Contest, n \in Name \cup {Blank} :
          /\ <<u, c>> \in access
          /\ Begin(r, [user |-> u, contest |-> c, name |-> n], None, "createNotInTeam")
    BY <1>2 DEF CreateBegin
  <2>2. pc'[r] = "createNotInTeam" /\ call'[r].user = u /\ call'[r].contest = c
    BY <1>1, <2>1
  <2> QED BY <1>2, <2>1, <2>2 DEF Asked, CreateBegin, tables
<1>3. CASE JoinBegin(r)
  <2>1. PICK u \in User, c \in Contest, k \in drawn :
          /\ <<u, c>> \in access
          /\ Begin(r, [user |-> u, contest |-> c, code |-> k], None, "joinNotInTeam")
    BY <1>3 DEF JoinBegin
  <2>2. pc'[r] = "joinNotInTeam" /\ call'[r].user = u /\ call'[r].contest = c
    BY <1>1, <2>1
  <2> QED BY <1>3, <2>1, <2>2 DEF Asked, JoinBegin, tables
<1>4. CASE LeaveBegin(r)
  BY <1>1, <1>4, AskedAnswered DEF LeaveBegin
<1>5. CASE UpdateBegin(r) \/ RenewBegin(r)
  <2>1. PICK u, t, c, l :
          /\ u \in User /\ t \in TeamId
          /\ Begin(r, c, t, l) /\ IsMember(t, u) /\ c.user = u /\ l \in {"updateLoad", "renewLoad"}
    <3>1. CASE UpdateBegin(r)
      BY <3>1 DEF UpdateBegin
    <3>2. CASE RenewBegin(r)
      BY <3>2 DEF RenewBegin
    <3> QED BY <1>5, <3>1, <3>2
  <2>2. pc'[r] = l /\ call'[r] = c /\ team'[r] = t
    BY <1>1, <2>1
  <2> QED BY <1>5, <2>1, <2>2 DEF Asked, IsMember, UpdateBegin, RenewBegin, tables
<1> QED BY <1>2, <1>3, <1>4, <1>5 DEF Arrival

(* A statement that reads and goes on. *)
LEMMA AskedRead ==
  ASSUME TypeInv, RefInv, NEW r \in Request, Reads(r) PROVE Asked(r)'
<1> USE DEF PC, CreatePC, JoinPC, LeavePC, UpdatePC, RenewPC
<1>0. UNCHANGED tables /\ Asked(r) /\ Running(r)
  BY DEF Reads, CreateNotInTeam, CreateName, JoinNotInTeam, JoinFind, JoinSize,
         LeaveLoad, LeaveHeir, UpdateLoad, RenewLoad, RefInv, Running
<1>1. CASE Return(r)
  <2>1. pc'[r] = "idle"
    BY <1>1, ReturnContinues
  <2> QED BY <2>1, AskedAnswered
<1>2. ASSUME NEW l \in PC, Goto(r, l) PROVE pc'[r] = l
  BY <1>2 DEF Goto, TypeInv, TypeOK
<1>3. ASSUME NEW ok, NEW l, Check(r, ok, l), ~Return(r),
             \/ pc[r] = "createNotInTeam" /\ l = "createName"
             \/ pc[r] = "createName" /\ l = "createTeam"
             \/ pc[r] = "joinNotInTeam" /\ l = "joinFind"
             \/ pc[r] = "joinSize" /\ l = "joinMember"
             \/ pc[r] = "renewLoad" /\ l = "renewSave"
      PROVE  Asked(r)'
  <2>1. pc'[r] = l /\ UNCHANGED locals
    BY <1>2, <1>3 DEF Check
  <2> QED BY <1>0, <1>3, <2>1 DEF Asked, Joinable, Live, Exists, IsMember, tables, locals
<1>4. CASE JoinFind(r) /\ ~Return(r)
  <2>1. PICK t \in TeamId : /\ Joinable(t, call[r].contest, call[r].code) /\ pc[r] = "joinFind"
                            /\ team' = [team EXCEPT ![r] = t] /\ Goto(r, "joinSize")
                            /\ UNCHANGED call
    BY <1>4 DEF JoinFind
  <2>2. pc'[r] = "joinSize" /\ team'[r] = t
    BY <1>2, <2>1 DEF TypeInv, TypeOK
  <2> QED BY <1>0, <2>1, <2>2 DEF Asked, Joinable, Live, Exists, tables
<1>5. CASE UpdateLoad(r) /\ ~Return(r)
  <2> DEFINE x == [teams[team[r]] EXCEPT !.open = call[r].open]
  <2>1. /\ row' = [row EXCEPT ![r] = x] /\ pc[r] = "updateLoad"
        /\ Goto(r, "updateSave") /\ UNCHANGED <<call, team>>
    BY <1>5 DEF UpdateLoad
  <2>2. x = [teams'[team'[r]] EXCEPT !.open = call'[r].open]
    BY <1>0, <2>1 DEF tables
  <2> HIDE DEF x
  <2>3. pc'[r] = "updateSave" /\ row'[r] = x
    BY <1>2, <2>1 DEF TypeInv, TypeOK
  <2> QED BY <1>0, <2>1, <2>2, <2>3 DEF Asked, IsMember, tables
<1>6. CASE (LeaveLoad(r) \/ LeaveHeir(r)) /\ ~Return(r)
  <2>1. pc'[r] \in LeavePC
    BY <1>2, <1>6 DEF LeaveLoad, LeaveHeir
  <2> QED BY <2>1, AskedAnswered
<1>7. CASE /\ ~Return(r)
            /\ \/ CreateNotInTeam(r) \/ CreateName(r) \/ JoinNotInTeam(r) \/ JoinSize(r)
               \/ RenewLoad(r)
  BY <1>3, <1>7 DEF CreateNotInTeam, CreateName, JoinNotInTeam, JoinSize, RenewLoad
<1> QED BY <1>1, <1>4, <1>5, <1>6, <1>7 DEF Reads

LEMMA CodesByOne ==
  ASSUME Codes, NEW t \in TeamId, \A s \in TeamId \ {t} : teams'[s] = teams[s],
         drawn \subseteq drawn', teams'[t].code \in drawn',
         (Exists(t) /\ teams'[t].code = teams[t].code) \/ teams'[t].code \notin drawn
  PROVE  Codes'
<1>1. \A s \in TeamId \ {t} : /\ (Exists(s)' <=> Exists(s)) /\ teams'[s] = teams[s]
                              /\ Exists(s) => teams[s].code \in drawn
  BY DEF Codes, Exists
<1>2. ASSUME NEW s \in TeamId \ {t}, Exists(s) PROVE teams[s].code # teams'[t].code
  BY <1>2 DEF Codes
<1>3. \A s1, s2 \in TeamId : Exists(s1) /\ Exists(s2) /\ teams[s1].code = teams[s2].code => s1 = s2
  BY DEF Codes
<1>4. \A s1, s2 \in TeamId \ {t} :
        Exists(s1)' /\ Exists(s2)' /\ teams'[s1].code = teams'[s2].code => s1 = s2
  BY <1>1, <1>3
<1>5. \A s \in TeamId \ {t} : Exists(s)' => teams'[s].code # teams'[t].code
  BY <1>1, <1>2
<1>6. \A s1, s2 \in TeamId :
        Exists(s1)' /\ Exists(s2)' /\ teams'[s1].code = teams'[s2].code => s1 = s2
  BY <1>4, <1>5
<1>7. \A s \in TeamId : Exists(s)' => teams'[s].code \in drawn'
  BY <1>1
<1> QED BY <1>6, <1>7 DEF Codes

LEMMA RefByStep ==
  ASSUME OneRequest, NEW r \in Request, Codes', Asked(r)' PROVE RefInv'
BY DEF OneRequest, RefInv

LEMMA RefStatement ==
  ASSUME OneRequest, TypeInv, TypeInv', MembershipInv, ConsInv, RefInv, NEW r \in Request,
         Statement(r)
  PROVE  RefInv'
<1>1. ASSUME UNCHANGED <<teams, drawn>>, Asked(r)' PROVE RefInv'
  BY <1>1, RefByStep DEF RefInv, Codes, Exists
<1>2. ASSUME pc'[r] \in {"idle", "leaveHeir"} PROVE Asked(r)'
  BY <1>2, AskedAnswered DEF CreatePC, JoinPC, UpdatePC, RenewPC
<1>3. ASSUME Return(r) PROVE pc'[r] = "idle"
  BY <1>3, ReturnContinues
<1>4. PICK t : t = team[r]
  OBVIOUS
<1>5. CASE Reads(r)
  <2>1. UNCHANGED <<teams, drawn>>
    BY <1>5, ReadStep DEF NoTrace, tables
  <2> QED BY <1>1, <1>5, <2>1, AskedRead
<1>6. CASE CreateTeam(r)
  <2>1. CASE NoTrace(r) /\ pc'[r] = "idle"
    BY <1>1, <1>2, <2>1 DEF NoTrace, tables
  <2>2. CASE \E s \in TeamId, k \in Code : Founds(r, s, k)
    <3>1. PICK s \in TeamId, k \in Code : Founds(r, s, k)
      BY <2>2
    <3>2. /\ teams'[s].open /\ teams'[s].code = k
          /\ team'[r] = s /\ pc'[r] = "createMember" /\ drawn' = drawn \cup {k} /\ k \notin drawn
          /\ UNCHANGED <<access, call>>
      BY <3>1 DEF Founds, Founding, Only
    <3>3. \A q \in TeamId \ {s} : teams'[q] = teams[q]
      BY <3>1 DEF Founds, Only, Still
    <3>4. Codes'
      BY <3>2, <3>3, CodesByOne DEF RefInv
    <3>5. <<call[r].user, call[r].contest>> \in access
      BY <1>6 DEF CreateTeam, RefInv, Asked, CreatePC
    <3>6. Asked(r)'
      BY <3>2, <3>5 DEF Asked, UpdatePC, RenewPC
    <3> QED BY <3>4, <3>6, RefByStep
  <2> QED BY <1>6, <2>1, <2>2, CreateTeamStep
<1>7. CASE CreateMember(r) \/ JoinMember(r) \/ LeaveDelete(r) \/ LeaveTransfer(r)
  <2>1. UNCHANGED <<teams, drawn>> /\ (Return(r) \/ Goto(r, "leaveHeir"))
    BY <1>7 DEF CreateMember, JoinMember, LeaveDelete, LeaveTransfer, Check
  <2>2. pc'[r] \in {"idle", "leaveHeir"}
    BY <1>3, <2>1 DEF Goto, TypeInv, TypeOK
  <2> QED BY <1>1, <1>2, <2>1, <2>2
<1>8. CASE LeaveMarkDeleted(r)
  <2>1. /\ t \in TeamId /\ Exists(t) /\ teams' = [teams EXCEPT ![t].deleted = TRUE]
        /\ UNCHANGED drawn /\ Return(r) /\ teams[t] \in TeamRow
    <3>1. PICK u : u = call[r].user
      OBVIOUS
    <3>2. /\ t \in TeamId /\ Settled(r, t) /\ teams' = [teams EXCEPT ![t].deleted = TRUE]
          /\ UNCHANGED drawn
      BY <1>4, <1>8, <3>1, MarkDeletedStep
    <3> QED BY <1>8, <3>2 DEF LeaveMarkDeleted, Settled, Live, Exists, TypeInv, TypeOK
  <2>2. /\ teams'[t].code = teams[t].code
        /\ \A s \in TeamId \ {t} : teams'[s] = teams[s]
    BY <2>1 DEF TypeInv, TypeOK, TeamRow
  <2>3. teams[t].code \in drawn
    BY <2>1 DEF RefInv, Codes
  <2>4. Codes'
    BY <2>1, <2>2, <2>3, CodesByOne DEF RefInv
  <2> QED BY <1>2, <1>3, <2>1, <2>4, RefByStep
<1>9. CASE UpdateSave(r) \/ RenewSave(r)
  <2>1. t \in TeamId /\ Exists(t) /\ Return(r) /\ teams[t] \in TeamRow
    BY <1>4, <1>9, SaveStep DEF UpdateSave, RenewSave, Exists, TypeInv, TypeOK
  <2>2. teams[t].code \in drawn
    BY <2>1 DEF RefInv, Codes
  <2>3. CASE UpdateSave(r)
    <3>1. teams' = [teams EXCEPT ![t] = row[r]] /\ UNCHANGED drawn /\ pc[r] = "updateSave"
      BY <1>4, <2>3 DEF UpdateSave
    <3>2. row[r] = [teams[t] EXCEPT !.open = call[r].open]
      BY <1>4, <3>1 DEF RefInv, Asked
    <3>3. /\ teams'[t].code = teams[t].code
          /\ \A s \in TeamId \ {t} : teams'[s] = teams[s]
      BY <2>1, <3>1, <3>2 DEF TypeInv, TypeOK, TeamRow
    <3>4. Codes'
      BY <2>1, <2>2, <3>1, <3>3, CodesByOne DEF RefInv
    <3> QED BY <1>2, <1>3, <2>1, <3>4, RefByStep
  <2>4. CASE RenewSave(r) /\ UNCHANGED <<teams, drawn>>
    BY <1>1, <1>2, <1>3, <2>1, <2>4
  <2>5. CASE RenewSave(r) /\ ~UNCHANGED <<teams, drawn>>
    <3>1. PICK k \in Code \ drawn : teams' = [teams EXCEPT ![t].code = k] /\ drawn' = drawn \cup {k}
      BY <1>4, <2>5 DEF RenewSave
    <3>2. /\ teams'[t].code = k
          /\ \A s \in TeamId \ {t} : teams'[s] = teams[s]
      BY <2>1, <3>1 DEF TypeInv, TypeOK, TeamRow
    <3>3. Codes'
      BY <2>1, <2>2, <3>1, <3>2, CodesByOne DEF RefInv
    <3> QED BY <1>2, <1>3, <2>1, <3>3, RefByStep
  <2> QED BY <1>9, <2>3, <2>4, <2>5
<1> QED BY <1>5, <1>6, <1>7, <1>8, <1>9 DEF Statement, Reads

LEMMA RefInit == ASSUME Init PROVE RefInv
BY DEF Init, RefInv, Codes, Exists, Asked, CreatePC, JoinPC, UpdatePC, RenewPC

(* What the start of a contest changes. *)
LEMMA LockStep ==
  ASSUME TypeInv, NEW t \in TeamId, Lock(t)
  PROVE  /\ Exists(t) /\ teams[t] \in TeamRow /\ teams'[t] = [teams[t] EXCEPT !.locked = TRUE]
         /\ teams'[t].code = teams[t].code /\ teams'[t].deleted = teams[t].deleted
         /\ ~teams[t].locked /\ \A s \in TeamId \ {t} : teams'[s] = teams[s]
         /\ UNCHANGED <<members, access, drawn, now, pc, locals>>
<1>1. teams[t] \in TeamRow /\ teams' = [teams EXCEPT ![t].locked = TRUE]
  BY DEF Lock, TypeInv, TypeOK, Exists
<1>2. /\ teams'[t] = [teams[t] EXCEPT !.locked = TRUE]
      /\ \A s \in TeamId \ {t} : teams'[s] = teams[s]
  BY <1>1 DEF TypeInv, TypeOK
<1>3. teams'[t].code = teams[t].code /\ teams'[t].deleted = teams[t].deleted
  BY <1>1, <1>2 DEF TeamRow
<1> QED BY <1>1, <1>2, <1>3 DEF Lock

LEMMA RefNext ==
  ASSUME OneRequest, TypeInv, TypeInv', MembershipInv, ConsInv, RefInv, [QuietNext]_vars
  PROVE  RefInv'
<1>1. ASSUME NEW r \in Request, NoTrace(r), Asked(r)' PROVE RefInv'
  <2>1. Codes'
    BY <1>1 DEF RefInv, Codes, Exists, NoTrace, tables
  <2> QED BY <1>1, <2>1, RefByStep
<1>2. CASE \E r \in Request : Arrival(r)
  BY <1>1, <1>2, ArrivalStep, AskedArrival
<1>3. CASE \E r \in Request : FaultOutside(r)
  BY <1>1, <1>3, FaultStep, AskedAnswered DEF CreatePC, JoinPC, UpdatePC, RenewPC
<1>4. CASE \E r \in Request : Statement(r)
  BY <1>4, RefStatement
<1>5. CASE \E t \in TeamId : Lock(t) /\ \A r \in Request : ~Committed(r, t)
  <2>1. PICK t \in TeamId : Lock(t) /\ \A r \in Request : ~Committed(r, t)
    BY <1>5
  <2>2. /\ Exists(t) /\ teams'[t].code = teams[t].code
        /\ \A s \in TeamId \ {t} : teams'[s] = teams[s]
        /\ UNCHANGED <<members, access, drawn, now, pc, locals>>
    BY <2>1, LockStep
  <2>3. Codes'
    BY <2>2, CodesByOne DEF RefInv, Codes
  <2>4. ASSUME NEW r \in Request PROVE Asked(r)'
    <3>1. Asked(r) /\ (pc[r] \in TeamPC => team[r] \in TeamId) /\ ~Committed(r, t)
      BY <2>1 DEF RefInv, TypeInv, TypeOK, Loaded
    <3>2. pc[r] \in PastLockTest /\ pc[r] \in TeamPC => teams'[team[r]] = teams[team[r]]
      BY <2>2, <3>1 DEF Committed
    <3> QED BY <2>2, <3>1, <3>2
            DEF Asked, Joinable, Live, Exists, IsMember, locals, PastLockTest,
                TeamPC, LeavePC, UpdatePC, RenewPC
  <2> QED BY <2>3, <2>4 DEF RefInv
<1>6. CASE \E u \in User : BadgesImported(u) /\ \A r \in Request : Running(r) => call[r].user # u
  <2>1. PICK u \in User : BadgesImported(u) /\ \A r \in Request : Running(r) => call[r].user # u
    BY <1>6
  <2>2. /\ UNCHANGED <<teams, members, drawn, now, pc, locals>>
        /\ \A p \in access : p[1] # u => p \in access'
    BY <2>1 DEF BadgesImported
  <2>3. \A r \in Request : pc[r] \in CreatePC \cup JoinPC =>
          <<call[r].user, call[r].contest>> \in access'
    BY <2>1, <2>2 DEF RefInv, Asked, Running, CreatePC, JoinPC
  <2> QED BY <2>2, <2>3 DEF RefInv, Codes, Asked, Joinable, Live, Exists, IsMember, locals
<1>7. CASE UNCHANGED <<teams, members, access, drawn, pc, locals>>
  BY <1>7 DEF RefInv, Codes, Asked, Joinable, Live, Exists, IsMember, locals
<1> QED BY <1>2, <1>3, <1>4, <1>5, <1>6, <1>7 DEF QuietNext, Tick, vars, tables

(* No contest has started for a request past the is_locked test. *)
LEMMA UnlockedRead ==
  ASSUME TypeInv, UnlockedInv, NEW r \in Request, Reads(r), pc'[r] \in PastLockTest
  PROVE  ~teams'[team'[r]].locked
<1> USE DEF PastLockTest
<1>1. UNCHANGED teams /\ pc'[r] # "idle"
  BY DEF Reads, CreateNotInTeam, CreateName, JoinNotInTeam, JoinFind, JoinSize,
         LeaveLoad, LeaveHeir, UpdateLoad, RenewLoad, tables
<1>2. ~Return(r)
  BY <1>1, ReturnContinues
<1>3. ASSUME NEW l \in PC, Goto(r, l) PROVE pc'[r] = l
  BY <1>3 DEF Goto, TypeInv, TypeOK
<1>4. CASE CreateNotInTeam(r) \/ CreateName(r) \/ JoinNotInTeam(r)
  BY <1>2, <1>3, <1>4 DEF CreateNotInTeam, CreateName, JoinNotInTeam, Check, PC, CreatePC, JoinPC
<1>5. CASE JoinFind(r)
  <2>1. PICK t \in TeamId : /\ Joinable(t, call[r].contest, call[r].code)
                            /\ team' = [team EXCEPT ![r] = t]
    BY <1>2, <1>5 DEF JoinFind
  <2> QED BY <1>1, <2>1 DEF Joinable, TypeInv, TypeOK
<1>6. CASE JoinSize(r) \/ LeaveLoad(r) \/ LeaveHeir(r)
  BY <1>1, <1>2, <1>6 DEF JoinSize, LeaveLoad, LeaveHeir, Check, locals, UnlockedInv
<1>7. CASE UpdateLoad(r) \/ RenewLoad(r)
  BY <1>1, <1>2, <1>7 DEF UpdateLoad, RenewLoad, Check, locals
<1> QED BY <1>4, <1>5, <1>6, <1>7 DEF Reads

LEMMA UnlockedNext ==
  ASSUME OneRequest, TypeInv, TypeInv', ConsInv, UnlockedInv, [QuietNext]_vars
  PROVE  UnlockedInv'
<1>1. ASSUME NEW r \in Request, pc'[r] \in PastLockTest => ~teams'[team'[r]].locked
      PROVE  UnlockedInv'
  BY <1>1 DEF UnlockedInv, OneRequest
<1>2. ASSUME NEW r \in Request, Arrival(r), pc'[r] \in PastLockTest
      PROVE  ~teams'[team'[r]].locked
  <2>1. LeaveBegin(r)
    BY <1>2 DEF Arrival, CreateBegin, JoinBegin, UpdateBegin, RenewBegin, Begin, PastLockTest,
                TypeInv, TypeOK
  <2>2. PICK t \in TeamId : ~teams[t].locked /\ team' = [team EXCEPT ![r] = t] /\ UNCHANGED teams
    BY <2>1 DEF LeaveBegin, Begin, tables
  <2> QED BY <2>2 DEF TypeInv, TypeOK
<1>3. ASSUME NEW r \in Request, Statement(r), pc'[r] \in PastLockTest
      PROVE  ~teams'[team'[r]].locked
  <2>1. pc'[r] # "idle" /\ ~Return(r)
    BY <1>3, ReturnContinues DEF PastLockTest
  <2>2. CASE Reads(r)
    BY <1>3, <2>2, UnlockedRead
  <2>3. CASE CreateTeam(r)
    <3>1. PICK t \in TeamId, k \in Code :
            /\ teams' = [teams EXCEPT ![t] =
                 [contest |-> call[r].contest, name |-> call[r].name, code |-> k,
                  open |-> TRUE, locked |-> FALSE, deleted |-> FALSE]]
            /\ team' = [team EXCEPT ![r] = t]
      BY <2>1, <2>3 DEF CreateTeam
    <3> QED BY <3>1 DEF TypeInv, TypeOK
  <2>4. CASE LeaveDelete(r)
    BY <2>1, <2>4 DEF LeaveDelete, Check, locals, UnlockedInv, PastLockTest
  <2> QED BY <1>3, <2>1, <2>2, <2>3, <2>4
          DEF Statement, Reads, CreateMember, JoinMember, LeaveMarkDeleted, LeaveTransfer,
              UpdateSave, RenewSave
<1>4. CASE \E r \in Request : FaultOutside(r)
  BY <1>1, <1>4, FaultStep DEF PastLockTest
<1>5. CASE \E t \in TeamId : Lock(t) /\ \A r \in Request : ~Committed(r, t)
  <2>1. PICK t \in TeamId : Lock(t) /\ \A r \in Request : ~Committed(r, t)
    BY <1>5
  <2>2. (\A s \in TeamId \ {t} : teams'[s] = teams[s]) /\ UNCHANGED <<pc, locals>>
    BY <2>1, LockStep
  <2>3. \A r \in Request : pc[r] \in PastLockTest => team[r] \in TeamId
    BY DEF TypeInv, TypeOK, Loaded, PastLockTest, TeamPC, LeavePC, UpdatePC, RenewPC
  <2> QED BY <2>1, <2>2, <2>3 DEF UnlockedInv, Committed, locals
<1>6. CASE UNCHANGED <<teams, pc, locals>>
  BY <1>6 DEF UnlockedInv, locals
<1> QED BY <1>1, <1>2, <1>3, <1>4, <1>5, <1>6 DEF QuietNext, BadgesImported, Tick, vars, tables

-----------------------------------------------------------------------------
(* The team the service has, from the rows of the tables.                  *)

(* When the members of a team joined. *)
Times(rows) == [u \in Present(rows) |-> rows[u].joined]

Entry(x, c, rows) ==
  [contest |-> x.contest, name |-> x.name, code |-> x.code, open |-> x.open, locked |-> x.locked,
   creator |-> c, joined |-> Times(rows)]

(* Names of their own for the team of the service at t and its members.    *)
LEMMA EntryIsTeam ==
  ASSUME NEW x \in TeamRow, NEW c \in User, NEW rows, NEW n \in 0 .. MaxTime, Sound(rows, n)
  PROVE  Entry(x, c, rows) \notin {None, Gone} /\ DOMAIN Entry(x, c, rows).joined = Present(rows)
<1> DEFINE j == Times(rows)
<1>1. \A v \in Present(rows) : rows[v].joined \in 0 .. MaxTime
  BY SizeAssumption DEF Sound, Rows, Present, MemberRow
<1>2. j \in [Present(rows) -> 0 .. MaxTime] /\ Present(rows) \in SUBSET User /\ DOMAIN j = Present(rows)
  BY <1>1 DEF Present, Times
<1> HIDE DEF j
<1>3. [contest |-> x.contest, name |-> x.name, code |-> x.code, open |-> x.open,
       locked |-> x.locked, creator |-> c, joined |-> j]
      \in [contest : Contest, name : Name, code : Code, open : BOOLEAN,
           locked : BOOLEAN, creator : User, joined : [Present(rows) -> 0 .. MaxTime]]
  BY <1>2 DEF TeamRow
<1>4. [contest |-> x.contest, name |-> x.name, code |-> x.code, open |-> x.open,
       locked |-> x.locked, creator |-> c, joined |-> j] \notin {None, Gone}
  BY <1>2, <1>3, GoneAssumption
<1> QED BY <1>2, <1>4 DEF Entry, j

LEMMA AbstractIs ==
  ASSUME OneRequest, NEW r \in Request, NEW t \in TeamId
  PROVE  ConsInv =>
           AbstractTeam(t) = IF ~Exists(t) \/ Founding(r, t) THEN None
                             ELSE IF teams[t].deleted THEN Gone ELSE AsTeam(t, RowsOf(r, t))
<1> SUFFICES ASSUME ConsInv
             PROVE  AbstractTeam(t) = IF ~Exists(t) \/ Founding(r, t) THEN None
                                      ELSE IF teams[t].deleted THEN Gone ELSE AsTeam(t, RowsOf(r, t))
  OBVIOUS
<1>1. \A q \in Request : q = r
  BY DEF OneRequest
<1>2. Halfway(r, t) <=> Founding(r, t) \/ Leaves(r, t)
  BY DEF Halfway, Founding, Leaves, Leaving
<1>3. Founding(r, t) => ~teams[t].deleted
  BY DEF ConsInv, RequestSound, Founding, Live
<1>4. CASE Halfway(r, t)
  <2>1. (CHOOSE q \in Request : Halfway(q, t)) = r
    BY <1>1, <1>4
  <2> QED BY <1>2, <1>3, <1>4, <2>1 DEF AbstractTeam, RowsOf, Founding, Leaves, Leaving
<1>5. CASE ~Halfway(r, t)
  BY <1>1, <1>2, <1>5 DEF AbstractTeam, RowsOf
<1> QED BY <1>4, <1>5

LEMMA AbstractIsNext ==
  ASSUME OneRequest, NEW r \in Request, NEW t \in TeamId
  PROVE  (ConsInv =>
            AbstractTeam(t) = IF ~Exists(t) \/ Founding(r, t) THEN None
                              ELSE IF teams[t].deleted THEN Gone ELSE AsTeam(t, RowsOf(r, t)))'
BY AbstractIs, PTL

LEMMA AbstractEntry ==
  ASSUME OneRequest, NEW r \in Request, NEW t \in TeamId, NEW c
  PROVE  ConsInv /\ Settled(r, t) /\ CreatorIn(RowsOf(r, t), c) =>
           AbstractTeam(t) = Entry(teams[t], c, RowsOf(r, t))
<1> SUFFICES ASSUME ConsInv, Settled(r, t), CreatorIn(RowsOf(r, t), c)
             PROVE  AbstractTeam(t) = Entry(teams[t], c, RowsOf(r, t))
  OBVIOUS
<1>1. AbstractTeam(t) = AsTeam(t, RowsOf(r, t))
  BY AbstractIs DEF Settled, Live
<1>2. PICK rows : rows = RowsOf(r, t)
  OBVIOUS
<1>3. (CHOOSE u \in Present(rows) : rows[u].creator) = c
  BY <1>2 DEF CreatorIn
<1> QED BY <1>1, <1>2, <1>3 DEF AsTeam, Entry, Times, Present

LEMMA AbstractEntryNext ==
  ASSUME OneRequest, NEW r \in Request, NEW t \in TeamId, NEW c
  PROVE  (ConsInv /\ Settled(r, t) /\ CreatorIn(RowsOf(r, t), c) =>
            AbstractTeam(t) = Entry(teams[t], c, RowsOf(r, t)))'
BY AbstractEntry, PTL

LEMMA AbstractStill ==
  ASSUME OneRequest, ConsInv, ConsInv', NEW r \in Request, NEW t \in TeamId, Still(r, t)
  PROVE  AbstractTeam(t)' = AbstractTeam(t)
<1>1. AsTeam(t, RowsOf(r, t))' = AsTeam(t, RowsOf(r, t))
  BY DEF Still, AsTeam
<1> QED BY <1>1, AbstractIs, AbstractIsNext DEF Still, Exists

LEMMA AbstractWritten ==
  ASSUME OneRequest, ConsInv, ConsInv', NEW r \in Request, NEW t \in TeamId, Only(r, t)
  PROVE  abstractTeam' = [abstractTeam EXCEPT ![t] = AbstractTeam(t)']
<1>1. \A s \in TeamId \ {t} : AbstractTeam(s)' = AbstractTeam(s)
  BY AbstractStill DEF Only
<1> QED BY <1>1 DEF abstractTeam

LEMMA AbstractSame ==
  ASSUME OneRequest, ConsInv, ConsInv', NEW r \in Request, \A t \in TeamId : Still(r, t)
  PROVE  UNCHANGED abstractTeam
<1>1. \A s \in TeamId : AbstractTeam(s)' = AbstractTeam(s)
  BY AbstractStill
<1> QED BY <1>1 DEF abstractTeam

LEMMA HereIs ==
  ASSUME OneRequest, TypeInv, ConsInv, NEW r \in Request, NEW t \in TeamId
  PROVE  /\ Service!Here(t) <=> Live(t) /\ ~Founding(r, t)
         /\ Service!Here(t) =>
              /\ Settled(r, t) /\ Service!Members(t) = Present(RowsOf(r, t))
              /\ \E c \in User : /\ CreatorIn(RowsOf(r, t), c)
                                 /\ abstractTeam[t] = Entry(teams[t], c, RowsOf(r, t))
<1>1. abstractTeam[t] = AbstractTeam(t)
  BY DEF abstractTeam
<1>2. CASE Live(t) /\ ~Founding(r, t)
  <2>1. Settled(r, t)
    BY <1>2, SettledBefore
  <2>2. PICK c \in User : CreatorIn(RowsOf(r, t), c)
    BY <2>1 DEF Settled, Sound
  <2>3. abstractTeam[t] = Entry(teams[t], c, RowsOf(r, t))
    BY <1>1, <2>1, <2>2, AbstractEntry
  <2>4. teams[t] \in TeamRow /\ now \in 0 .. MaxTime
    BY <1>2 DEF TypeInv, TypeOK, Live, Exists
  <2>5. PICK rows : rows = RowsOf(r, t)
    OBVIOUS
  <2>6. Entry(teams[t], c, rows) \notin {None, Gone} /\ DOMAIN Entry(teams[t], c, rows).joined = Present(rows)
    BY <2>1, <2>4, <2>5, EntryIsTeam DEF Settled
  <2> QED BY <1>2, <2>1, <2>2, <2>3, <2>5, <2>6 DEF Service!Here, Service!Members
<1>3. CASE ~(Live(t) /\ ~Founding(r, t))
  <2>1. AbstractTeam(t) \in {None, Gone}
    BY <1>3, AbstractIs DEF Live
  <2> QED BY <1>1, <1>3, <2>1 DEF Service!Here
<1> QED BY <1>2, <1>3

LEMMA EntryFields ==
  ASSUME NEW x, NEW c, NEW rows
  PROVE  /\ Entry(x, c, rows).contest = x.contest /\ Entry(x, c, rows).name = x.name
         /\ Entry(x, c, rows).code = x.code /\ Entry(x, c, rows).open = x.open
         /\ Entry(x, c, rows).locked = x.locked /\ Entry(x, c, rows).creator = c
         /\ DOMAIN Entry(x, c, rows).joined = Present(rows)
         /\ \A u \in Present(rows) : Entry(x, c, rows).joined[u] = rows[u].joined
BY DEF Entry, Times

(* What the tests of the service mean on the tables. *)
LEMMA TestsAre ==
  ASSUME OneRequest, TypeInv, ConsInv, NEW r \in Request
  PROVE  /\ \A u, c : Service!InATeam(u, c) =>
              \E t \in TeamId : Live(t) /\ ~Founding(r, t) /\ teams[t].contest = c
                                /\ u \in Present(RowsOf(r, t))
         /\ \A c, n : Service!NameTaken(c, n) =>
              \E t \in TeamId : Live(t) /\ ~Founding(r, t) /\ teams[t].contest = c /\ teams[t].name = n
         /\ \A k : Service!CodeInUse(k) =>
              \E t \in TeamId : Live(t) /\ ~Founding(r, t) /\ teams[t].code = k
<1>1. \A t \in TeamId : Service!Here(t) =>
        /\ Live(t) /\ ~Founding(r, t) /\ Service!Members(t) = Present(RowsOf(r, t))
        /\ abstractTeam[t].contest = teams[t].contest /\ abstractTeam[t].name = teams[t].name
        /\ abstractTeam[t].code = teams[t].code
  BY HereIs, EntryFields
<1> QED BY <1>1 DEF Service!InATeam, Service!NameTaken, Service!CodeInUse

LEMMA MapsCreate ==
  ASSUME OneRequest, TypeInv, TypeInv', MembershipInv, ConsInv, ConsInv', RefInv, UnlockedInv,
         NEW r \in Request, CreateMember(r)
  PROVE  Service!ServiceNext
<1>1. PICK t, u, c, n, k : /\ t = team[r] /\ u = call[r].user /\ c = call[r].contest
                           /\ n = call[r].name /\ k = teams[t].code
  OBVIOUS
<1>2. /\ t \in TeamId /\ u \in User /\ Founding(r, t) /\ teams[t].name = n
      /\ UNCHANGED <<teams, drawn>> /\ Only(r, t) /\ RequestSound(r)' /\ Settled(r, t)'
      /\ Present(RowsOf(r, t)') = {u} /\ CreatorIn(RowsOf(r, t)', u)
      /\ RowsOf(r, t)'[u].joined = now
  BY <1>1, CreateMemberStep
<1>3. pc[r] = "createMember" /\ Live(t) /\ teams[t] \in TeamRow
  BY <1>1, <1>2 DEF Founding, ConsInv, RequestSound, Live, Exists, TypeInv, TypeOK
<1>4. c \in Contest /\ n \in Name /\ k \in Code /\ teams[t].contest = c
  BY <1>1, <1>2, <1>3 DEF TypeInv, TypeOK, Loaded, CreatePC, CreateCall, TeamRow, MembershipInv
<1>5. <<u, c>> \in access /\ teams[t].open = TRUE /\ teams[t].locked = FALSE
  BY <1>1, <1>2, <1>3 DEF RefInv, Asked, CreatePC, UnlockedInv, PastLockTest, Live, TeamRow
<1>6. abstractTeam[t] = None
  BY <1>2, AbstractIs DEF abstractTeam
<1>7. \A s \in TeamId : ~Founding(r, s) => s # t /\ RowsOf(r, s) = members[s]
  BY <1>2, <1>3 DEF Founding, RowsOf, Leaves, Leaving
<1>8. ~Service!InATeam(u, c)
  <2>1. NotInAnyTeam(u, c)
    BY <1>1, <1>3 DEF MembershipInv, Joining
  <2> QED BY <1>7, <2>1, TestsAre DEF NotInAnyTeam, Live, Present, IsMember
<1>9. ~Service!NameTaken(c, n)
  BY <1>2, <1>3, <1>4, <1>7, TestsAre DEF ConsInv, NamesUnique
<1>10. ~Service!CodeInUse(k)
  BY <1>1, <1>2, <1>3, <1>7, TestsAre DEF RefInv, Codes, Live
<1>11. PICK rows : rows = RowsOf(r, t)'
  OBVIOUS
<1>12. AbstractTeam(t)' = Entry(teams[t], u, rows)
  BY <1>2, <1>11, AbstractEntryNext
<1>13. Entry(teams[t], u, rows) =
         [contest |-> c, name |-> n, code |-> k, open |-> TRUE, locked |-> FALSE,
          creator |-> u, joined |-> [v \in {u} |-> now]]
  <2>1. [v \in Present(rows) |-> rows[v].joined] = [v \in {u} |-> now]
    BY <1>2, <1>11
  <2> QED BY <1>1, <1>2, <1>4, <1>5, <2>1 DEF Entry, Times
<1>14. abstractTeam' = [abstractTeam EXCEPT ![t] =
         [contest |-> c, name |-> n, code |-> k, open |-> TRUE, locked |-> FALSE,
          creator |-> u, joined |-> [v \in {u} |-> now]]]
  BY <1>2, <1>12, <1>13, AbstractWritten
<1>15. Service!Create(u, c, n)
  BY <1>2, <1>4, <1>5, <1>6, <1>8, <1>9, <1>10, <1>14 DEF Service!Create, Only
<1> QED BY <1>2, <1>4, <1>15 DEF Service!ServiceNext

(* Members and creator of a team of the service, replaced.                 *)
Regrouped(f, t, j)     == [f EXCEPT ![t].joined = j]
HandedOver(f, t, d, j) == [f EXCEPT ![t].creator = d, ![t].joined = j]

IsTable(f) == f = [s \in TeamId |-> f[s]]

LEMMA EntryRegrouped ==
  ASSUME NEW t \in TeamId, NEW f, IsTable(f),
         NEW x, NEW c, NEW rows, f[t] = Entry(x, c, rows),
         NEW new, NEW j, j = Times(new)
  PROVE  Regrouped(f, t, j) = [f EXCEPT ![t] = Entry(x, c, new)]
<1>1. [f[t] EXCEPT !.joined = j] = Entry(x, c, new)
  BY DEF Entry
<1>2. [f EXCEPT ![t].joined = j] = [f EXCEPT ![t] = [f[t] EXCEPT !.joined = j]]
  BY DEF IsTable
<1> QED BY <1>1, <1>2 DEF Regrouped

LEMMA EntryHandedOver ==
  ASSUME NEW t \in TeamId, NEW f, IsTable(f),
         NEW x, NEW c, NEW rows, f[t] = Entry(x, c, rows),
         NEW d, NEW new, NEW j, j = Times(new)
  PROVE  HandedOver(f, t, d, j) = [f EXCEPT ![t] = Entry(x, d, new)]
<1>1. [f[t] EXCEPT !.creator = d] = Entry(x, d, rows)
  BY DEF Entry
<1>2. [f EXCEPT ![t].creator = d] = [f EXCEPT ![t] = [f[t] EXCEPT !.creator = d]]
  BY DEF IsTable
<1>3. PICK g : g = [f EXCEPT ![t] = Entry(x, d, rows)]
  OBVIOUS
<1>4. HandedOver(f, t, d, j) = Regrouped(g, t, j)
  <2>1. HandedOver(f, t, d, j) = [[f EXCEPT ![t].creator = d] EXCEPT ![t].joined = j]
    BY DEF HandedOver, IsTable
  <2>2. [f EXCEPT ![t].creator = d] = g
    BY <1>1, <1>2, <1>3
  <2> QED BY <2>1, <2>2 DEF Regrouped
<1>5. IsTable(g) /\ g[t] = Entry(x, d, rows)
  BY <1>3 DEF IsTable
<1>6. Regrouped(g, t, j) = [g EXCEPT ![t] = Entry(x, d, new)]
  BY <1>5, EntryRegrouped
<1>7. \A z : [g EXCEPT ![t] = z] = [f EXCEPT ![t] = z]
  <2>1. \A s \in TeamId \ {t} : g[s] = f[s]
    BY <1>3 DEF IsTable
  <2> TAKE z
  <2>2. [g EXCEPT ![t] = z] = [s \in TeamId |-> IF s = t THEN z ELSE g[s]]
    BY <1>5 DEF IsTable
  <2>3. [f EXCEPT ![t] = z] = [s \in TeamId |-> IF s = t THEN z ELSE f[s]]
    BY DEF IsTable
  <2> QED BY <2>1, <2>2, <2>3
<1> QED BY <1>4, <1>6, <1>7

LEMMA SameCardinality == \A S : Service!Cardinality(S) = Cardinality(S)
BY DEF Cardinality, Service!Cardinality

LEMMA MapsJoin ==
  ASSUME OneRequest, TypeInv, TypeInv', MembershipInv, ConsInv, ConsInv', RefInv, UnlockedInv,
         NEW r \in Request, JoinMember(r)
  PROVE  Service!ServiceNext
<1>1. PICK t, u, c, k : /\ t = team[r] /\ u = call[r].user /\ c = call[r].contest
                        /\ k = call[r].code
  OBVIOUS
<1>2. /\ t \in TeamId /\ u \in User /\ Settled(r, t) /\ RowsOf(r, t) = members[t]
      /\ UNCHANGED <<teams, drawn>> /\ Only(r, t) /\ RequestSound(r)' /\ Settled(r, t)'
      /\ ~IsMember(t, u) /\ HasRoom(t) /\ Present(RowsOf(r, t)') = Present(members[t]) \cup {u}
      /\ RowsOf(r, t)' = [members[t] EXCEPT ![u] = [joined |-> now, creator |-> FALSE]]
  BY <1>1, JoinMemberStep
<1>3. pc[r] = "joinMember"
  BY DEF JoinMember
<1>4. c \in Contest /\ k \in Code
  <2>1. call[r] \in JoinCall
    BY <1>3 DEF TypeInv, TypeOK, Loaded, JoinPC
  <2>2. Joinable(t, c, k) /\ teams[t] \in TeamRow
    BY <1>1, <1>2, <1>3 DEF RefInv, Asked, Settled, Live, Exists, TypeInv, TypeOK
  <2> QED BY <2>1, <2>2 DEF Joinable, TeamRow
<1>5. <<u, c>> \in access /\ Joinable(t, c, k)
  BY <1>1, <1>3 DEF RefInv, Asked, JoinPC
<1>6. ~Service!InATeam(u, c)
  <2>1. NotInAnyTeam(u, c)
    BY <1>1, <1>3 DEF MembershipInv, Joining
  <2>2. \A s \in TeamId : RowsOf(r, s) = members[s]
    BY <1>3 DEF RowsOf, Leaves, Leaving
  <2> QED BY <2>1, <2>2, TestsAre DEF NotInAnyTeam, Live, Present, IsMember
<1>7. PICK rows, new : rows = members[t] /\ new = RowsOf(r, t)'
  OBVIOUS
<1>8. Service!Here(t) /\ Service!Members(t) = Present(rows)
  BY <1>2, <1>7, HereIs DEF Settled
<1>9. PICK d \in User : CreatorIn(rows, d) /\ abstractTeam[t] = Entry(teams[t], d, rows)
  BY <1>2, <1>7, <1>8, HereIs
<1>10. /\ Present(new) = Present(rows) \cup {u} /\ u \notin Present(rows)
       /\ new[u].joined = now /\ \A v \in Present(rows) : new[v] = rows[v]
  <2>1. rows \in [User -> MemberRow \cup {None}] /\ rows[u] = None
    BY <1>2, <1>7 DEF TypeInv, TypeOK, IsMember
  <2>2. u \notin Present(rows) /\ Present(new) = Present(rows) \cup {u}
    BY <1>2, <1>7, <2>1 DEF Present
  <2>3. new[u] = [joined |-> now, creator |-> FALSE]
    BY <1>2, <1>7, <2>1
  <2>4. \A v \in User \ {u} : new[v] = rows[v]
    BY <1>2, <1>7, <2>1
  <2> QED BY <2>2, <2>3, <2>4 DEF Present
<1>11. CreatorIn(new, d)
  <2>1. PICK e \in User : CreatorIn(new, e)
    BY <1>2, <1>7 DEF Settled, Sound, CreatorIn, Present
  <2>2. d \in Present(new) /\ new[d].creator
    BY <1>9, <1>10 DEF CreatorIn
  <2>3. d = e
    BY <2>1, <2>2 DEF CreatorIn
  <2> QED BY <2>1, <2>3
<1>12. AbstractTeam(t)' = Entry(teams[t], d, new)
  BY <1>2, <1>7, <1>11, AbstractEntryNext
<1>13. abstractTeam' = [abstractTeam EXCEPT ![t] = Entry(teams[t], d, new)]
  BY <1>2, <1>12, AbstractWritten
<1> DEFINE j == [v \in Service!Members(t) \cup {u} |->
                  IF v = u THEN now ELSE abstractTeam[t].joined[v]]
<1>14. j = Times(new)
  BY <1>8, <1>9, <1>10, EntryFields DEF Times
<1> HIDE DEF j
<1>15. abstractTeam' = Regrouped(abstractTeam, t, j)
  <2>1. IsTable(abstractTeam)
    BY DEF abstractTeam, IsTable
  <2> QED BY <1>2, <1>9, <1>13, <1>14, <2>1, EntryRegrouped
<1>16. /\ abstractTeam[t].contest = c /\ abstractTeam[t].code = k /\ abstractTeam[t].open
       /\ ~abstractTeam[t].locked
  BY <1>5, <1>9, EntryFields DEF Joinable
<1>17. Service!Cardinality(Service!Members(t)) < MaxSize
  BY <1>2, <1>7, <1>8, SameCardinality DEF HasRoom, Roster, IsMember, Present
<1>18. Service!Join(u, c, k)
  <2>1. UNCHANGED <<access, now>>
    BY <1>2 DEF Only
  <2>2. abstractTeam' = [abstractTeam EXCEPT ![t].joined =
          [v \in Service!Members(t) \cup {u} |-> IF v = u THEN now ELSE abstractTeam[t].joined[v]]]
    BY <1>15 DEF Regrouped, j
  <2>3. t \in TeamId
    BY <1>2
  <2> QED BY <1>5, <1>6, <1>8, <1>16, <1>17, <2>1, <2>2, <2>3 DEF Service!Join
<1> QED BY <1>2, <1>4, <1>18 DEF Service!ServiceNext

(* A member who leaves others behind, and who is the creator then.         *)
LEMMA LeavesTo ==
  ASSUME OneRequest, TypeInv, ConsInv, ConsInv', RefInv, NEW r \in Request, NEW t \in TeamId,
         Settled(r, t), Settled(r, t)', Only(r, t), UNCHANGED teams, ~teams[t].locked,
         NEW u \in User, NEW rows, rows = RowsOf(r, t), NEW new, new = RowsOf(r, t)',
         u \in Present(rows), Present(new) = Present(rows) \ {u},
         \A v \in Present(new) : new[v].joined = rows[v].joined,
         NEW h, CreatorIn(new, h), rows[u].creator \/ (h \in Present(rows) /\ rows[h].creator)
  PROVE  Service!Leave(u, t)
<1>1. Service!Here(t) /\ Service!Members(t) = Present(rows)
  BY HereIs DEF Settled
<1>2. PICK d \in User : CreatorIn(rows, d) /\ abstractTeam[t] = Entry(teams[t], d, rows)
  BY <1>1, HereIs
<1>3. h \in Present(new) /\ \A v \in Present(new) : new[h].joined <= new[v].joined
  BY DEF CreatorIn
<1>4. AbstractTeam(t)' = Entry(teams[t], h, new)
  BY AbstractEntryNext
<1>5. abstractTeam' = [abstractTeam EXCEPT ![t] = Entry(teams[t], h, new)]
  BY <1>4, AbstractWritten
<1> DEFINE j == [v \in Service!Members(t) \ {u} |-> abstractTeam[t].joined[v]]
<1>6. j = Times(new)
  BY <1>1, <1>2, EntryFields DEF Times
<1> HIDE DEF j
<1>7. abstractTeam' = HandedOver(abstractTeam, t, h, j)
  <2>1. IsTable(abstractTeam)
    BY DEF abstractTeam, IsTable
  <2>2. PICK x, f : x = teams[t] /\ f = abstractTeam
    OBVIOUS
  <2>3. IsTable(f) /\ f[t] = Entry(x, d, rows)
    BY <1>2, <2>1, <2>2
  <2>4. HandedOver(f, t, h, j) = [f EXCEPT ![t] = Entry(x, h, new)]
    BY <1>6, <2>3, EntryHandedOver
  <2> QED BY <1>5, <2>2, <2>4
<1>8. abstractTeam' = [abstractTeam EXCEPT ![t].creator = h,
         ![t].joined = [v \in Service!Members(t) \ {u} |-> abstractTeam[t].joined[v]]]
  BY <1>7 DEF HandedOver, j
<1>9. u \in Service!Members(t) /\ Service!Members(t) \ {u} # {}
  BY <1>1, <1>3
<1>10. abstractTeam[t].creator = d /\ abstractTeam[t].locked = teams[t].locked
  BY <1>2, EntryFields
<1>11. ~abstractTeam[t].locked
  BY <1>10
<1>12. h \in IF abstractTeam[t].creator = u
             THEN Service!Seniors(t, Service!Members(t) \ {u}) ELSE {abstractTeam[t].creator}
  <2>1. CASE d = u
    <3>1. \A v \in Present(new) : abstractTeam[t].joined[v] = new[v].joined
      BY <1>2, EntryFields
    <3> QED BY <1>1, <1>3, <1>10, <2>1, <3>1 DEF Service!Seniors
  <2>2. CASE d # u
    BY <1>2, <1>10, <2>2 DEF CreatorIn
  <2> QED BY <2>1, <2>2
<1>13. UNCHANGED <<access, now>>
  BY DEF Only
<1>14. \E g \in IF abstractTeam[t].creator = u
                THEN Service!Seniors(t, Service!Members(t) \ {u}) ELSE {abstractTeam[t].creator} :
         abstractTeam' = [abstractTeam EXCEPT ![t].creator = g,
           ![t].joined = [v \in Service!Members(t) \ {u} |-> abstractTeam[t].joined[v]]]
  BY <1>8, <1>12
<1> QED BY <1>1, <1>9, <1>11, <1>13, <1>14 DEF Service!Leave

LEMMA MapsLeave ==
  ASSUME OneRequest, TypeInv, TypeInv', ConsInv, ConsInv', RefInv, UnlockedInv,
         NEW r \in Request,
         LeaveTransfer(r) \/ (LeaveDelete(r) /\ ~member[r].creator)
  PROVE  Service!ServiceNext
<1>1. PICK t, u, h : t = team[r] /\ u = call[r].user /\ h = heir[r]
  OBVIOUS
<1>2. PICK rows, new : rows = RowsOf(r, t) /\ new = RowsOf(r, t)'
  OBVIOUS
<1>3. CASE LeaveTransfer(r)
  <2>0. ~teams[t].locked
    BY <1>1, <1>3 DEF LeaveTransfer, UnlockedInv, PastLockTest
  <2>1. /\ t \in TeamId /\ u \in User /\ Settled(r, t) /\ Settled(r, t)' /\ Only(r, t)
        /\ UNCHANGED teams /\ u \in Present(rows) /\ rows[u].creator
        /\ Present(new) = Present(rows) \ {u} /\ CreatorIn(new, h)
        /\ \A v \in Present(new) : new[v].joined = rows[v].joined
    BY <1>1, <1>2, <1>3, TransferStep
  <2>2. Service!Leave(u, t)
    BY <1>2, <2>0, <2>1, LeavesTo
  <2> QED BY <2>1, <2>2 DEF Service!ServiceNext
<1>4. CASE LeaveDelete(r) /\ ~member[r].creator
  <2>0. ~teams[t].locked
    BY <1>1, <1>4 DEF LeaveDelete, UnlockedInv, PastLockTest
  <2>1. /\ t \in TeamId /\ u \in User /\ Settled(r, t) /\ rows = members[t]
        /\ UNCHANGED teams /\ Only(r, t) /\ Settled(r, t)'
        /\ IsMember(t, u) /\ ~members[t][u].creator
        /\ Present(new) = Present(rows) \ {u}
        /\ \A v \in User \ {u} : new[v] = rows[v]
    BY <1>1, <1>2, <1>4, MemberGoesStep
  <2>2. u \in Present(rows)
    BY <2>1 DEF Present, IsMember
  <2>3. \A v \in Present(new) : new[v] = rows[v]
    BY <2>1 DEF Present
  <2>4. PICK c \in User : CreatorIn(new, c)
    BY <1>2, <2>1 DEF Settled, Sound, CreatorIn, Present
  <2>5. c \in Present(rows) /\ rows[c].creator
    BY <2>1, <2>3, <2>4 DEF CreatorIn
  <2>6. Service!Leave(u, t)
    BY <1>2, <2>0, <2>1, <2>2, <2>3, <2>4, <2>5, LeavesTo
  <2> QED BY <2>1, <2>6 DEF Service!ServiceNext
<1> QED BY <1>3, <1>4

(* The last member to leave takes the team along. *)
LEMMA MapsDissolve ==
  ASSUME OneRequest, TypeInv, TypeInv', ConsInv, ConsInv', RefInv, UnlockedInv,
         NEW r \in Request, LeaveMarkDeleted(r)
  PROVE  Service!ServiceNext
<1>1. PICK t, u : t = team[r] /\ u = call[r].user
  OBVIOUS
<1>2. /\ t \in TeamId /\ u \in User /\ Settled(r, t) /\ Present(RowsOf(r, t)) = {u}
      /\ teams'[t].deleted /\ Only(r, t) /\ ~Founding(r, t)'
      /\ teams' = [teams EXCEPT ![t].deleted = TRUE]
  BY <1>1, MarkDeletedStep
<1>3. Service!Here(t) /\ Service!Members(t) = {u}
  BY <1>2, HereIs DEF Settled
<1>4. abstractTeam[t].locked = teams[t].locked
  BY <1>2, <1>3, HereIs, EntryFields
<1>5. ~abstractTeam[t].locked
  BY <1>1, <1>4 DEF LeaveMarkDeleted, UnlockedInv, PastLockTest
<1>6. Exists(t)'
  <2>1. teams[t] \in TeamRow
    BY <1>2 DEF Settled, Live, Exists, TypeInv, TypeOK
  <2>2. teams'[t] \in TeamRow
    BY <1>2, <2>1 DEF TypeInv, TypeOK, TeamRow
  <2> QED BY <2>2, NoneAssumption DEF Exists
<1>7. AbstractTeam(t)' = Gone
  BY <1>2, <1>6, AbstractIsNext
<1>8. abstractTeam' = [abstractTeam EXCEPT ![t] = Gone]
  BY <1>2, <1>7, AbstractWritten
<1>9. Service!Leave(u, t)
  BY <1>2, <1>3, <1>5, <1>8 DEF Service!Leave, Only
<1> QED BY <1>2, <1>9 DEF Service!ServiceNext

(* A column of a team of the service, replaced.                            *)
Opened(f, t, b)  == [f EXCEPT ![t].open = b]
Recoded(f, t, k) == [f EXCEPT ![t].code = k]

LEMMA EntryOpened ==
  ASSUME NEW t \in TeamId, NEW f, NEW x \in TeamRow, NEW c, NEW rows, f[t] = Entry(x, c, rows),
         NEW b, NEW y, y = [x EXCEPT !.open = b]
  PROVE  Opened(f, t, b) = [f EXCEPT ![t] = Entry(y, c, rows)]
<1>1. [f[t] EXCEPT !.open = b] = Entry(y, c, rows)
  <2>1. /\ y.contest = x.contest /\ y.name = x.name /\ y.code = x.code /\ y.open = b
        /\ y.locked = x.locked
    BY DEF TeamRow
  <2> QED BY <2>1 DEF Entry
<1>2. [f EXCEPT ![t].open = b] = [f EXCEPT ![t] = [f[t] EXCEPT !.open = b]]
  OBVIOUS
<1> QED BY <1>1, <1>2 DEF Opened

LEMMA EntryRecoded ==
  ASSUME NEW t \in TeamId, NEW f, NEW x \in TeamRow, NEW c, NEW rows, f[t] = Entry(x, c, rows),
         NEW k, NEW y, y = [x EXCEPT !.code = k]
  PROVE  Recoded(f, t, k) = [f EXCEPT ![t] = Entry(y, c, rows)]
<1>1. [f[t] EXCEPT !.code = k] = Entry(y, c, rows)
  <2>1. /\ y.contest = x.contest /\ y.name = x.name /\ y.code = k /\ y.open = x.open
        /\ y.locked = x.locked
    BY DEF TeamRow
  <2> QED BY <2>1 DEF Entry
<1>2. [f EXCEPT ![t].code = k] = [f EXCEPT ![t] = [f[t] EXCEPT !.code = k]]
  OBVIOUS
<1> QED BY <1>1, <1>2 DEF Recoded

(* The team an UPDATE saves is there, with its member, before and after.   *)
LEMMA SavedTeam ==
  ASSUME OneRequest, TypeInv, TypeInv', ConsInv, ConsInv', RefInv, UnlockedInv,
         NEW r \in Request,
         UpdateSave(r) \/ RenewSave(r), NEW t, t = team[r], NEW u, u = call[r].user
  PROVE  /\ t \in TeamId /\ u \in User /\ teams[t] \in TeamRow /\ Only(r, t)
         /\ Service!Here(t) /\ u \in Service!Members(t) /\ ~abstractTeam[t].locked
         /\ \E d : /\ abstractTeam[t] = Entry(teams[t], d, members[t])
                   /\ abstractTeam' = [abstractTeam EXCEPT ![t] = Entry(teams'[t], d, members[t])]
<1>1. /\ t \in TeamId /\ u \in User /\ Exists(t) /\ Exists(t)'
      /\ ~Founding(r, t) /\ RowsOf(r, t) = members[t]
      /\ teams'[t].deleted = teams[t].deleted
      /\ Only(r, t) /\ ~Founding(r, t)' /\ RowsOf(r, t)' = members[t]
  BY SaveStep
<1>2. IsMember(t, u)
  BY DEF UpdateSave, RenewSave, RefInv, Asked, UpdatePC, RenewPC
<1>3. u \in Present(members[t])
  BY <1>1, <1>2 DEF Present, IsMember
<1>4. Live(t)
  BY <1>1, <1>3 DEF ConsInv, TeamSound, Live
<1>5. Service!Here(t) /\ Service!Members(t) = Present(members[t])
  BY <1>1, <1>4, HereIs
<1>6. PICK d \in User : CreatorIn(members[t], d) /\ abstractTeam[t] = Entry(teams[t], d, members[t])
  BY <1>1, <1>5, HereIs
<1>7. Settled(r, t)'
  BY <1>1, <1>4 DEF ConsInv, TeamSound, Settled, Live
<1>8. AbstractTeam(t)' = Entry(teams'[t], d, members[t])
  BY <1>1, <1>6, <1>7, AbstractEntryNext
<1>9. abstractTeam' = [abstractTeam EXCEPT ![t] = Entry(teams'[t], d, members[t])]
  BY <1>1, <1>8, AbstractWritten
<1>10. ~abstractTeam[t].locked /\ teams[t] \in TeamRow
  <2>1. abstractTeam[t].locked = teams[t].locked
    BY <1>6, EntryFields
  <2>2. ~teams[t].locked
    BY DEF UpdateSave, RenewSave, UnlockedInv, PastLockTest
  <2>3. teams[t] \in TeamRow
    BY <1>1 DEF Exists, TypeInv, TypeOK
  <2> QED BY <2>1, <2>2, <2>3
<1> QED BY <1>1, <1>3, <1>5, <1>6, <1>9, <1>10

LEMMA MapsSetOpen ==
  ASSUME OneRequest, TypeInv, TypeInv', ConsInv, ConsInv', RefInv, UnlockedInv,
         NEW r \in Request,
         UpdateSave(r)
  PROVE  Service!ServiceNext
<1>1. PICK t, u, b : t = team[r] /\ u = call[r].user /\ b = call[r].open
  OBVIOUS
<1>2. /\ t \in TeamId /\ u \in User /\ teams[t] \in TeamRow /\ Only(r, t)
      /\ Service!Here(t) /\ u \in Service!Members(t) /\ ~abstractTeam[t].locked
  BY <1>1, SavedTeam
<1>3. PICK d : /\ abstractTeam[t] = Entry(teams[t], d, members[t])
               /\ abstractTeam' = [abstractTeam EXCEPT ![t] = Entry(teams'[t], d, members[t])]
  BY <1>1, SavedTeam
<1>4. b \in BOOLEAN /\ row[r] = [teams[t] EXCEPT !.open = b]
  BY <1>1 DEF UpdateSave, TypeInv, TypeOK, Loaded, UpdatePC, UpdateCall, RefInv, Asked
<1>5. teams'[t] = [teams[t] EXCEPT !.open = b]
  BY <1>1, <1>2, <1>4 DEF UpdateSave, TypeInv, TypeOK
<1>6. abstractTeam' = Opened(abstractTeam, t, b)
  <2>1. PICK x, y, f : x = teams[t] /\ y = teams'[t] /\ f = abstractTeam
    OBVIOUS
  <2>2. x \in TeamRow /\ y = [x EXCEPT !.open = b] /\ f[t] = Entry(x, d, members[t])
    BY <1>2, <1>3, <1>5, <2>1
  <2>3. Opened(f, t, b) = [f EXCEPT ![t] = Entry(y, d, members[t])]
    BY <1>2, <2>2, EntryOpened
  <2> QED BY <1>3, <2>1, <2>3
<1>7. Service!SetOpen(u, t, b)
  BY <1>2, <1>6 DEF Service!SetOpen, Opened, Only
<1> QED BY <1>2, <1>4, <1>7 DEF Service!ServiceNext

LEMMA MapsRenew ==
  ASSUME OneRequest, TypeInv, TypeInv', ConsInv, ConsInv', RefInv, UnlockedInv,
         NEW r \in Request,
         RenewSave(r)
  PROVE  Service!ServiceNext \/ UNCHANGED <<abstractTeam, access, now>>
<1>1. PICK t, u : t = team[r] /\ u = call[r].user
  OBVIOUS
<1>2. /\ t \in TeamId /\ u \in User /\ teams[t] \in TeamRow /\ Only(r, t)
      /\ Service!Here(t) /\ u \in Service!Members(t) /\ ~abstractTeam[t].locked
  BY <1>1, SavedTeam
<1>3. PICK d : /\ abstractTeam[t] = Entry(teams[t], d, members[t])
               /\ abstractTeam' = [abstractTeam EXCEPT ![t] = Entry(teams'[t], d, members[t])]
  BY <1>1, SavedTeam
<1>4. CASE UNCHANGED teams
  BY <1>2, <1>3, <1>4 DEF Only, abstractTeam
<1>5. CASE ~UNCHANGED teams
  <2>1. PICK k \in Code \ drawn : teams' = [teams EXCEPT ![t].code = k]
    BY <1>1, <1>5 DEF RenewSave
  <2>2. teams'[t] = [teams[t] EXCEPT !.code = k]
    BY <1>2, <2>1 DEF TypeInv, TypeOK
  <2>3. abstractTeam' = Recoded(abstractTeam, t, k)
    BY <1>2, <1>3, <2>2, EntryRecoded
  <2>4. ~Service!CodeInUse(k)
    BY <2>1, TestsAre DEF RefInv, Codes, Live
  <2>5. Service!RenewCode(u, t)
    BY <1>2, <2>1, <2>3, <2>4 DEF Service!RenewCode, Recoded, Only
  <2> QED BY <1>2, <2>5 DEF Service!ServiceNext
<1> QED BY <1>4, <1>5

LEMMA MapsInit ==
  ASSUME Init PROVE Service!ServiceInit
<1>1. \A t \in TeamId : AbstractTeam(t) = None
  BY DEF Init, AbstractTeam, Exists
<1> QED BY <1>1 DEF Init, Service!ServiceInit, abstractTeam

LEMMA MapsStatement ==
  ASSUME OneRequest, TypeInv, TypeInv', MembershipInv, ConsInv, ConsInv', RefInv, UnlockedInv,
         NEW r \in Request, Statement(r)
  PROVE  Service!ServiceNext \/ UNCHANGED <<abstractTeam, access, now>>
<1>1. ASSUME NoTrace(r) PROVE UNCHANGED <<abstractTeam, access, now>>
  BY <1>1, AbstractSame DEF NoTrace, tables
<1>2. CASE Reads(r)
  BY <1>1, <1>2, ReadStep
<1>3. CASE CreateTeam(r)
  <2>1. CASE NoTrace(r)
    BY <1>1, <2>1
  <2>2. CASE \E t \in TeamId, k \in Code : Founds(r, t, k)
    <3>1. PICK t \in TeamId, k \in Code : Founds(r, t, k)
      BY <2>2
    <3>2. abstractTeam[t] = None /\ AbstractTeam(t)' = None
      BY <3>1, AbstractIs, AbstractIsNext DEF Founds, abstractTeam
    <3>3. abstractTeam' = [abstractTeam EXCEPT ![t] = None]
      BY <3>1, <3>2, AbstractWritten DEF Founds
    <3> QED BY <3>1, <3>2, <3>3 DEF Founds, Only, abstractTeam
  <2> QED BY <1>3, <2>1, <2>2, CreateTeamStep
<1>4. CASE CreateMember(r)
  BY <1>4, MapsCreate
<1>5. CASE JoinMember(r)
  BY <1>5, MapsJoin
<1>6. CASE LeaveDelete(r) /\ member[r].creator
  BY <1>6, CreatorGoesStep, AbstractSame
<1>7. CASE LeaveTransfer(r) \/ (LeaveDelete(r) /\ ~member[r].creator)
  BY <1>7, MapsLeave
<1>8. CASE LeaveMarkDeleted(r)
  BY <1>8, MapsDissolve
<1>9. CASE UpdateSave(r)
  BY <1>9, MapsSetOpen
<1>10. CASE RenewSave(r)
  BY <1>10, MapsRenew
<1> QED BY <1>2, <1>3, <1>4, <1>5, <1>6, <1>7, <1>8, <1>9, <1>10 DEF Statement, Reads

(* The start of a contest locks a team that is there; a row marked as      *)
(* deleted is no team of the service.                                      *)
Locked(f, t, b) == [f EXCEPT ![t].locked = b]

LEMMA EntryLocked ==
  ASSUME NEW t \in TeamId, NEW f, NEW x \in TeamRow, NEW c, NEW rows, f[t] = Entry(x, c, rows),
         NEW b, NEW y, y = [x EXCEPT !.locked = b]
  PROVE  Locked(f, t, b) = [f EXCEPT ![t] = Entry(y, c, rows)]
<1>1. [f[t] EXCEPT !.locked = b] = Entry(y, c, rows)
  <2>1. /\ y.contest = x.contest /\ y.name = x.name /\ y.code = x.code /\ y.open = x.open
        /\ y.locked = b
    BY DEF TeamRow
  <2> QED BY <2>1 DEF Entry
<1>2. [f EXCEPT ![t].locked = b] = [f EXCEPT ![t] = [f[t] EXCEPT !.locked = b]]
  OBVIOUS
<1> QED BY <1>1, <1>2 DEF Locked

LEMMA MapsLock ==
  ASSUME OneRequest, TypeInv, TypeInv', ConsInv, ConsInv',
         NEW t \in TeamId, Lock(t), \A r \in Request : ~Committed(r, t)
  PROVE  Service!ServiceNext \/ UNCHANGED <<abstractTeam, access, now>>
<1>1. PICK r \in Request : TRUE
  BY RequestAssumption
<1>2. /\ Exists(t) /\ teams[t] \in TeamRow /\ teams'[t] = [teams[t] EXCEPT !.locked = TRUE]
      /\ teams'[t].deleted = teams[t].deleted /\ ~teams[t].locked
      /\ \A s \in TeamId \ {t} : teams'[s] = teams[s]
      /\ UNCHANGED <<members, access, now, pc, locals>>
  BY LockStep
<1>3. Only(r, t)
  BY <1>2 DEF Only, Still, Founding, RowsOf, RowsBefore, Leaves, locals
<1>4. /\ ~Founding(r, t) /\ ~Founding(r, t)' /\ RowsOf(r, t) = members[t]
      /\ RowsOf(r, t)' = members[t]
  BY <1>2 DEF Committed, PastLockTest, Founding, RowsOf, Leaves, Leaving, locals
<1>5. Exists(t)'
  <2>1. teams'[t] \in TeamRow
    BY <1>2 DEF TeamRow
  <2> QED BY <2>1, NoneAssumption DEF Exists
<1>6. abstractTeam' = [abstractTeam EXCEPT ![t] = AbstractTeam(t)']
  BY <1>3, AbstractWritten
<1>7. CASE teams[t].deleted
  <2>1. AbstractTeam(t)' = Gone /\ abstractTeam[t] = Gone
    BY <1>2, <1>4, <1>5, <1>7, AbstractIs, AbstractIsNext DEF abstractTeam
  <2> QED BY <1>2, <1>6, <2>1 DEF abstractTeam
<1>8. CASE ~teams[t].deleted
  <2>1. Service!Here(t)
    BY <1>2, <1>4, <1>8, HereIs DEF Live
  <2>2. PICK c \in User : CreatorIn(members[t], c) /\ abstractTeam[t] = Entry(teams[t], c, members[t])
    BY <1>4, <2>1, HereIs
  <2>3. Settled(r, t)'
    BY <1>2, <1>4, <1>5, <1>8 DEF ConsInv, TeamSound, Settled, Live
  <2>4. AbstractTeam(t)' = Entry(teams'[t], c, members[t])
    BY <1>4, <2>2, <2>3, AbstractEntryNext
  <2>5. abstractTeam' = Locked(abstractTeam, t, TRUE)
    <3>1. PICK x, y, f, b : x = teams[t] /\ y = teams'[t] /\ f = abstractTeam /\ b = TRUE
      OBVIOUS
    <3>2. x \in TeamRow /\ y = [x EXCEPT !.locked = b] /\ f[t] = Entry(x, c, members[t])
      BY <1>2, <2>2, <3>1
    <3>3. Locked(f, t, b) = [f EXCEPT ![t] = Entry(y, c, members[t])]
      BY <3>2, EntryLocked
    <3> QED BY <1>6, <2>4, <3>1, <3>3
  <2>6. ~abstractTeam[t].locked
    BY <1>2, <2>2, EntryFields
  <2>7. Service!Lock(t)
    BY <1>2, <2>1, <2>5, <2>6 DEF Service!Lock, Locked
  <2> QED BY <2>7 DEF Service!ServiceNext
<1> QED BY <1>7, <1>8

LEMMA MapsNext ==
  ASSUME OneRequest, TypeInv, TypeInv', MembershipInv, ConsInv, ConsInv', RefInv, UnlockedInv,
         [QuietNext]_vars
  PROVE  Service!ServiceNext \/ UNCHANGED <<abstractTeam, access, now>>
<1>1. CASE \E r \in Request : Arrival(r) \/ FaultOutside(r)
  <2>1. PICK r \in Request : NoTrace(r)
    BY <1>1, ArrivalStep, FaultStep
  <2> QED BY <2>1, AbstractSame DEF NoTrace, tables
<1>2. CASE \E r \in Request : Statement(r)
  BY <1>2, MapsStatement
<1>3. ASSUME UNCHANGED <<teams, members, pc, locals>> PROVE UNCHANGED abstractTeam
  <2>1. PICK r \in Request : TRUE
    BY RequestAssumption
  <2>2. \A t \in TeamId : Still(r, t)
    BY <1>3 DEF Still, Founding, RowsOf, RowsBefore, Leaves, locals
  <2> QED BY <2>1, <2>2, AbstractSame
<1>4. CASE \E t \in TeamId : Lock(t) /\ \A r \in Request : ~Committed(r, t)
  BY <1>4, MapsLock
<1>5. ASSUME NEW u \in User, BadgesImported(u) PROVE Service!ServiceNext
  <2>1. UNCHANGED <<abstractTeam, now>>
    BY <1>3, <1>5 DEF BadgesImported
  <2> QED BY <1>5, <2>1 DEF BadgesImported, Service!ServiceNext, Service!BadgesImported
<1>6. CASE Tick
  BY <1>3, <1>6 DEF Tick, Service!ServiceNext, Service!Tick
<1>7. CASE UNCHANGED vars
  BY <1>3, <1>7 DEF vars, tables
<1> QED BY <1>1, <1>2, <1>4, <1>5, <1>6, <1>7 DEF QuietNext

(* One request at a time, in quiet, the handlers do what the service       *)
(* promises: the statements of a request have an effect at once, with its  *)
(* last write, or none, a fault before the first write has none, and the   *)
(* start of a contest and an import of badges have theirs.                 *)
THEOREM HandlersImplementService ==
  ASSUME OneRequest PROVE QuietSpec => ImplementsService
<1> DEFINE Inv == TypeInv /\ MembershipInv /\ ConsInv /\ RefInv /\ UnlockedInv
<1>1. Init => Inv /\ Service!ServiceInit
  <2>1. Init => UnlockedInv
    BY DEF Init, UnlockedInv, PastLockTest
  <2> QED BY <2>1, TypeInit, MembershipInit, ConsInit, RefInit, MapsInit
<1>2. Inv /\ [QuietNext]_vars => Inv' /\ [Service!ServiceNext]_(Service!service)
  <2>1. OneRequestPerUser
    BY DEF OneRequest, OneRequestPerUser
  <2> SUFFICES ASSUME Inv, [QuietNext]_vars PROVE Inv' /\ [Service!ServiceNext]_(Service!service)
    OBVIOUS
  <2>2. [SteadyNext]_vars /\ [Next]_vars
    <3>1. QuietNext => SteadyNext
      BY DEF QuietNext, SteadyNext
    <3> QED BY <3>1, SteadyIsNext
  <2>3. TypeInv' /\ MembershipInv'
    BY <2>1, <2>2, TypeNext, MembershipNext
  <2>4. ConsInv' /\ RefInv' /\ UnlockedInv'
    BY <2>1, <2>2, <2>3, ConsNext, RefNext, UnlockedNext
  <2>5. Service!ServiceNext \/ UNCHANGED <<abstractTeam, access, now>>
    BY <2>3, <2>4, MapsNext
  <2> QED BY <2>3, <2>4, <2>5 DEF Service!service
<1> QED BY <1>1, <1>2, PTL DEF QuietSpec, ImplementsService, Service!ServiceSpec

=============================================================================
