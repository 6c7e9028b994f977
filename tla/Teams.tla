------------------------------- MODULE Teams --------------------------------
(***************************************************************************)
(* The team service of the backend (backend/model/teams.go) as it runs:    *)
(* every HTTP request is a goroutine that executes its SQL statements one  *)
(* by one, each statement its own transaction (Model.Transaction exists    *)
(* but no handler uses it), so the statements of concurrent requests       *)
(* interleave.  One action is one statement together with the local code   *)
(* up to the next statement.  A check that fails in the first statement of *)
(* a handler answers the request with no trace, so it appears as the guard *)
(* of the action that begins the request.                                  *)
(*                                                                         *)
(* The tables are functions on their primary keys, None where there is no  *)
(* row.  Columns no handler tests (created_at, updated_at) are left out.   *)
(***************************************************************************)
EXTENDS Naturals, FiniteSets

CONSTANTS
  User, Contest,   \* ids of the users and contests tables
  Name, Blank,     \* trimmed team names; a name that is empty once trimmed
  TeamId,          \* ids the teams table can hand out  (bounds the INSERTs)
  Code,            \* access codes NewAccessCode can draw (bounds the draws)
  Request,         \* slots for requests in flight (bounds the concurrency)
  None,            \* SQL NULL, "no row", Go's nil
  MaxSize,         \* 5 in teams.go
  MaxTime,         \* last reading of the database clock
  Ops,             \* the routes clients call: subset of AllOps
  Env,             \* what else may happen: subset of AllEnv
  Tabs             \* requests of one user that can be under way at once:
                   \* browser tabs, double clicks (nothing in the code limits
                   \* them); 1: a user waits for the answer before the next

AllOps == {"create", "join", "leave", "update", "renew"}
AllEnv == {"lock", "fault", "badges"}

VARIABLES
  teams,     \* teams table:        team id -> row or None
  members,   \* team_members table: team id -> user id -> row or None
  access,    \* user_badges joined with contests: who may enter which contest
  drawn,     \* every access code drawn so far
  now,       \* NOW(), whole seconds
  pc,        \* next statement of each request
  call,      \* what the client asked: user, path and body parameters
  team,      \* the team a request works on
  row,       \* the Team struct it will save
  member,    \* the TeamMember struct it has loaded
  heir,      \* newCreatorUserId
  grace      \* history: requests that had passed the is_locked test of a
             \* team when that team was locked, and still run

tables == <<teams, members, access, drawn, now>>
locals == <<call, team, row, member, heir>>
vars   == <<tables, pc, locals, grace>>

TeamRow   == [contest : Contest, name : Name, code : Code,
              open : BOOLEAN, locked : BOOLEAN, deleted : BOOLEAN]
MemberRow == [joined : Nat, creator : BOOLEAN]

CreateCall == [user : User, contest : Contest, name : Name \cup {Blank}]
JoinCall   == [user : User, contest : Contest, code : Code]
UpdateCall == [user : User, open : BOOLEAN]
OtherCall  == [user : User]

CreatePC == {"createNotInTeam", "createName", "createTeam", "createMember"}
JoinPC   == {"joinNotInTeam", "joinFind", "joinSize", "joinMember"}
LeavePC  == {"leaveLoad", "leaveDelete", "leaveHeir", "leaveMarkDeleted",
             "leaveTransfer"}
UpdatePC == {"updateLoad", "updateSave"}
RenewPC  == {"renewLoad", "renewSave"}
PC == {"idle"} \cup CreatePC \cup JoinPC \cup LeavePC \cup UpdatePC \cup RenewPC

(* The finite sets make the counts of the SQL queries numbers; None is no  *)
(* key, no row and no call.                                                *)
ASSUME FiniteAssumption  == IsFiniteSet(User) /\ IsFiniteSet(Request)
ASSUME RequestAssumption == Request # {}
ASSUME SizeAssumption    == MaxSize \in Nat \ {0} /\ MaxTime \in Nat
ASSUME NoneAssumption    == None \notin User \cup TeamId \cup TeamRow \cup MemberRow
ASSUME BlankAssumption   == Blank \notin Name
ASSUME SwitchAssumption  == Ops \subseteq AllOps /\ Env \subseteq AllEnv
ASSUME TabsAssumption    == Tabs \in Nat \ {0}

OnePerUser == Tabs = 1

-----------------------------------------------------------------------------
(* What the SQL queries say of the tables. *)

Exists(t)        == teams[t] # None
Live(t)          == Exists(t) /\ ~teams[t].deleted
IsMember(t, u)   == members[t][u] # None
IsCreator(t, u)  == IsMember(t, u) /\ members[t][u].creator
Roster(t)        == {u \in User : IsMember(t, u)}

(* isUserNotInAnyTeam, and the same query inlined in CreateTeam: deleted  *)
(* teams count too.                                                        *)
NotInAnyTeam_liveOnly(u, c) ==
  \A t \in TeamId : Live(t) /\ teams[t].contest = c => ~IsMember(t, u)
NotInAnyTeam(u, c) ==
  \A t \in TeamId : Exists(t) /\ teams[t].contest = c => ~IsMember(t, u)

NameIsUnique(c, n) ==
  \A t \in TeamId : Live(t) /\ teams[t].contest = c => teams[t].name # n

HasRoom_offByOne(t) == Cardinality(Roster(t)) <= MaxSize
HasRoom(t)          == Cardinality(Roster(t)) < MaxSize

(* The joinable team of a contest with a given access code: the WHERE     *)
(* clause of JoinTeam's SELECT and the two tests on the row it returns.    *)
Joinable(t, c, k) ==
  /\ Live(t) /\ teams[t].contest = c /\ teams[t].code = k
  /\ ~teams[t].locked /\ teams[t].open

(* ORDER BY joined_at LIMIT 1: seconds tie, and ties have no order.        *)
Oldest_latest(t, us) ==
  {u \in us : \A v \in us : members[t][u].joined >= members[t][v].joined}
Oldest(t, us) ==
  {u \in us : \A v \in us : members[t][u].joined <= members[t][v].joined}

-----------------------------------------------------------------------------
(* The course of a request. *)

(* Statements that work on a team already found. *)
TeamPC == {"createMember", "joinSize", "joinMember"} \cup LeavePC \cup UpdatePC \cup RenewPC

Running(r) == pc[r] # "idle"

(* The requests of a user that are under way. *)
Of(u) == {q \in Request : Running(q) /\ call[q].user = u}

(* Past the is_locked test of team t, or (CreateTeam) never going to make  *)
(* one: what the request still does to t happens whatever the lock says.   *)
PastLockTest ==
  {"createMember", "joinSize", "joinMember", "leaveLoad", "leaveDelete",
   "leaveHeir", "leaveMarkDeleted", "leaveTransfer", "updateSave", "renewSave"}
Committed(r, t) == team[r] = t /\ pc[r] \in PastLockTest

Begin(r, c, t, l) ==
  /\ ~Running(r)
  /\ Cardinality(Of(c.user)) < Tabs
  /\ pc'   = [pc EXCEPT ![r] = l]
  /\ call' = [call EXCEPT ![r] = c]
  /\ team' = [team EXCEPT ![r] = t]
  /\ UNCHANGED <<row, member, heir, grace>>

Goto(r, l) == pc' = [pc EXCEPT ![r] = l] /\ UNCHANGED grace

Return(r) ==
  /\ pc'     = [pc EXCEPT ![r] = "idle"]
  /\ call'   = [call EXCEPT ![r] = None]
  /\ team'   = [team EXCEPT ![r] = None]
  /\ row'    = [row EXCEPT ![r] = None]
  /\ member' = [member EXCEPT ![r] = None]
  /\ heir'   = [heir EXCEPT ![r] = None]
  /\ grace'  = [t \in TeamId |-> grace[t] \ {r}]

(* A test: go on to the statement l, or answer with an error. *)
Check(r, ok, l) ==
  \/ ok  /\ Goto(r, l) /\ UNCHANGED locals
  \/ ~ok /\ Return(r)

-----------------------------------------------------------------------------
(* CreateTeam *)

CreateBegin(r) ==
  /\ "create" \in Ops
  /\ \E u \in User, c \in Contest, n \in Name \cup {Blank} :
       /\ <<u, c>> \in access
       /\ Begin(r, [user |-> u, contest |-> c, name |-> n], None, "createNotInTeam")
  /\ UNCHANGED tables

CreateNotInTeam(r) ==
  /\ pc[r] = "createNotInTeam"
  /\ Check(r, NotInAnyTeam(call[r].user, call[r].contest), "createName")
  /\ UNCHANGED tables

CreateName(r) ==
  /\ pc[r] = "createName"
  /\ Check(r, call[r].name # Blank /\ NameIsUnique(call[r].contest, call[r].name),
           "createTeam")
  /\ UNCHANGED tables

(* Draws the code and inserts the row.  With no id or no code left in the  *)
(* model the INSERT fails.                                                 *)
CreateTeam(r) ==
  /\ pc[r] = "createTeam"
  /\ \/ \E t \in TeamId, k \in Code \ drawn :
          /\ ~Exists(t)
          /\ teams' = [teams EXCEPT ![t] =
               [contest |-> call[r].contest, name |-> call[r].name, code |-> k,
                open |-> TRUE, locked |-> FALSE, deleted |-> FALSE]]
          /\ drawn' = drawn \cup {k}
          /\ team' = [team EXCEPT ![r] = t]
          /\ Goto(r, "createMember")
          /\ UNCHANGED <<members, call, row, member, heir>>
     \/ /\ Code \ drawn = {} \/ \A t \in TeamId : Exists(t)
        /\ Return(r)
        /\ UNCHANGED <<teams, members, drawn>>
  /\ UNCHANGED <<access, now>>

(* INSERT INTO team_members; a second row with the same key is refused.   *)
InsertMember_noTime(t, u, isCreator) ==
  members' = IF IsMember(t, u) THEN members
             ELSE [members EXCEPT ![t][u] = [joined |-> None, creator |-> isCreator]]
InsertMember(t, u, isCreator) ==
  members' = IF IsMember(t, u) THEN members
             ELSE [members EXCEPT ![t][u] = [joined |-> now, creator |-> isCreator]]

CreateMember(r) ==
  /\ pc[r] = "createMember"
  /\ InsertMember(team[r], call[r].user, TRUE)
  /\ Return(r)
  /\ UNCHANGED <<teams, access, drawn, now>>

-----------------------------------------------------------------------------
(* JoinTeam *)

(* A code nobody drew is refused like one that was replaced. *)
JoinBegin(r) ==
  /\ "join" \in Ops
  /\ \E u \in User, c \in Contest, k \in drawn :
       /\ <<u, c>> \in access
       /\ Begin(r, [user |-> u, contest |-> c, code |-> k], None, "joinNotInTeam")
  /\ UNCHANGED tables

JoinNotInTeam(r) ==
  /\ pc[r] = "joinNotInTeam"
  /\ Check(r, NotInAnyTeam(call[r].user, call[r].contest), "joinFind")
  /\ UNCHANGED tables

(* The error of the SELECT is dropped (teams.go:136): with no row the zero *)
(* Team is not open, so the request is refused all the same.               *)
JoinFind(r) ==
  /\ pc[r] = "joinFind"
  /\ \/ \E t \in TeamId :
          /\ Joinable(t, call[r].contest, call[r].code)
          /\ team' = [team EXCEPT ![r] = t]
          /\ Goto(r, "joinSize")
          /\ UNCHANGED <<call, row, member, heir>>
     \/ /\ \A t \in TeamId : ~Joinable(t, call[r].contest, call[r].code)
        /\ Return(r)
  /\ UNCHANGED tables

JoinSize(r) ==
  /\ pc[r] = "joinSize"
  /\ Check(r, HasRoom(team[r]), "joinMember")
  /\ UNCHANGED tables

JoinMember(r) ==
  /\ pc[r] = "joinMember"
  /\ InsertMember(team[r], call[r].user, FALSE)
  /\ Return(r)
  /\ UNCHANGED <<teams, access, drawn, now>>

-----------------------------------------------------------------------------
(* LeaveTeam *)

LeaveBegin_noLockTest(r) ==
  /\ "leave" \in Ops
  /\ \E u \in User, t \in TeamId :
       /\ Exists(t)
       /\ Begin(r, [user |-> u], t, "leaveLoad")
  /\ UNCHANGED tables
LeaveBegin(r) ==
  /\ "leave" \in Ops
  /\ \E u \in User, t \in TeamId :
       /\ Exists(t) /\ ~teams[t].locked
       /\ Begin(r, [user |-> u], t, "leaveLoad")
  /\ UNCHANGED tables

LeaveLoad(r) ==
  /\ pc[r] = "leaveLoad"
  /\ \/ /\ IsMember(team[r], call[r].user)
        /\ member' = [member EXCEPT ![r] = members[team[r]][call[r].user]]
        /\ Goto(r, "leaveDelete")
        /\ UNCHANGED <<call, team, row, heir>>
     \/ ~IsMember(team[r], call[r].user) /\ Return(r)
  /\ UNCHANGED tables

LeaveDelete_alwaysHeir(r) ==
  /\ pc[r] = "leaveDelete"
  /\ members' = [members EXCEPT ![team[r]][call[r].user] = None]
  /\ Goto(r, "leaveHeir")
  /\ UNCHANGED <<teams, access, drawn, now, locals>>
(* Whether a successor is needed is read from the row loaded before the   *)
(* DELETE.                                                                 *)
LeaveDelete(r) ==
  /\ pc[r] = "leaveDelete"
  /\ members' = [members EXCEPT ![team[r]][call[r].user] = None]
  /\ Check(r, member[r].creator, "leaveHeir")
  /\ UNCHANGED <<teams, access, drawn, now>>

LeaveHeir(r) ==
  /\ pc[r] = "leaveHeir"
  /\ LET others == Roster(team[r]) \ {call[r].user} IN
       \/ /\ others = {}
          /\ Goto(r, "leaveMarkDeleted")
          /\ UNCHANGED locals
       \/ \E u \in Oldest(team[r], others) :
            /\ heir' = [heir EXCEPT ![r] = u]
            /\ Goto(r, "leaveTransfer")
            /\ UNCHANGED <<call, team, row, member>>
  /\ UNCHANGED tables

LeaveMarkDeleted(r) ==
  /\ pc[r] = "leaveMarkDeleted"
  /\ teams' = [teams EXCEPT ![team[r]].deleted = TRUE]
  /\ Return(r)
  /\ UNCHANGED <<members, access, drawn, now>>

(* UPDATE team_members: no row, no update. *)
LeaveTransfer(r) ==
  /\ pc[r] = "leaveTransfer"
  /\ members' = IF IsMember(team[r], heir[r])
                THEN [members EXCEPT ![team[r]][heir[r]].creator = TRUE]
                ELSE members
  /\ Return(r)
  /\ UNCHANGED <<teams, access, drawn, now>>

-----------------------------------------------------------------------------
(* UpdateTeam and RenewTeamAccessCode *)

UpdateBegin(r) ==
  /\ "update" \in Ops
  /\ \E u \in User, t \in TeamId, b \in BOOLEAN :
       /\ IsMember(t, u)
       /\ Begin(r, [user |-> u, open |-> b], t, "updateLoad")
  /\ UNCHANGED tables

(* Nothing to save: an answer and no UPDATE. *)
UpdateLoad(r) ==
  LET loaded == teams[team[r]] IN
  /\ pc[r] = "updateLoad"
  /\ \/ /\ ~loaded.locked /\ loaded.open # call[r].open
        /\ row' = [row EXCEPT ![r] = [loaded EXCEPT !.open = call[r].open]]
        /\ Goto(r, "updateSave")
        /\ UNCHANGED <<call, team, member, heir>>
     \/ (loaded.locked \/ loaded.open = call[r].open) /\ Return(r)
  /\ UNCHANGED tables

(* dbMap.Update writes every column of the struct, as loaded. *)
UpdateSave(r) ==
  /\ pc[r] = "updateSave"
  /\ teams' = [teams EXCEPT ![team[r]] = row[r]]
  /\ Return(r)
  /\ UNCHANGED <<members, access, drawn, now>>

RenewBegin(r) ==
  /\ "renew" \in Ops
  /\ \E u \in User, t \in TeamId :
       /\ IsMember(t, u)
       /\ Begin(r, [user |-> u], t, "renewLoad")
  /\ UNCHANGED tables

RenewLoad(r) ==
  /\ pc[r] = "renewLoad"
  /\ Check(r, ~teams[team[r]].locked, "renewSave")
  /\ UNCHANGED tables

RenewSave(r) ==
  /\ pc[r] = "renewSave"
  /\ \/ \E k \in Code \ drawn :
          /\ teams' = [teams EXCEPT ![team[r]].code = k]
          /\ drawn' = drawn \cup {k}
     \/ Code \ drawn = {} /\ UNCHANGED <<teams, drawn>>
  /\ Return(r)
  /\ UNCHANGED <<members, access, now>>

-----------------------------------------------------------------------------
(* The environment. *)

AtRest == \A r \in Request : ~Running(r)

(* A statement fails (lost connection, deadlock victim) or the process    *)
(* dies: what the request has written stays written.                       *)
Fault(r) ==
  /\ "fault" \in Env
  /\ Running(r) /\ Return(r)
  /\ UNCHANGED tables

(* The contest starts.  Nothing in this repository sets is_locked. *)
Lock(t) ==
  /\ "lock" \in Env
  /\ Exists(t) /\ ~teams[t].locked
  /\ teams' = [teams EXCEPT ![t].locked = TRUE]
  /\ grace' = [grace EXCEPT ![t] = {r \in Request : Committed(r, t)}]
  /\ UNCHANGED <<members, access, drawn, now, pc, locals>>

(* A login rewrites the badges of a user (UpdateBadges). *)
BadgesImported(u) ==
  /\ "badges" \in Env
  /\ \E cs \in SUBSET Contest :
       access' = {p \in access : p[1] # u} \cup ({u} \X cs)
  /\ UNCHANGED <<teams, members, drawn, now, pc, locals, grace>>

Tick ==
  /\ now < MaxTime /\ now' = now + 1
  /\ UNCHANGED <<teams, members, access, drawn, pc, locals, grace>>

-----------------------------------------------------------------------------
Init ==
  /\ teams   = [t \in TeamId |-> None]
  /\ members = [t \in TeamId |-> [u \in User |-> None]]
  /\ access \in SUBSET (User \X Contest)
  /\ drawn   = {}
  /\ now     = 0
  /\ pc      = [r \in Request |-> "idle"]
  /\ call    = [r \in Request |-> None]
  /\ team    = [r \in Request |-> None]
  /\ row     = [r \in Request |-> None]
  /\ member  = [r \in Request |-> None]
  /\ heir    = [r \in Request |-> None]
  /\ grace   = [t \in TeamId |-> {}]

Statement(r) ==
  \/ CreateNotInTeam(r) \/ CreateName(r) \/ CreateTeam(r) \/ CreateMember(r)
  \/ JoinNotInTeam(r) \/ JoinFind(r) \/ JoinSize(r) \/ JoinMember(r)
  \/ LeaveLoad(r) \/ LeaveDelete(r) \/ LeaveHeir(r)
  \/ LeaveMarkDeleted(r) \/ LeaveTransfer(r)
  \/ UpdateLoad(r) \/ UpdateSave(r)
  \/ RenewLoad(r) \/ RenewSave(r)

Arrival(r) ==
  CreateBegin(r) \/ JoinBegin(r) \/ LeaveBegin(r) \/ UpdateBegin(r) \/ RenewBegin(r)

Next ==
  \/ \E r \in Request : Arrival(r) \/ Statement(r) \/ Fault(r)
  \/ \E t \in TeamId : Lock(t)
  \/ \E u \in User : BadgesImported(u)
  \/ Tick

Spec == Init /\ [][Next]_vars

-----------------------------------------------------------------------------
(* Properties. *)

(* A request at a given statement knows its caller and has loaded what the *)
(* statement uses.                                                         *)
Loaded(r) ==
  /\ pc[r] \in CreatePC => call[r] \in CreateCall
  /\ pc[r] \in JoinPC   => call[r] \in JoinCall
  /\ pc[r] \in UpdatePC => call[r] \in UpdateCall
  /\ pc[r] \in LeavePC \cup RenewPC => call[r] \in OtherCall
  /\ pc[r] = "createTeam" => call[r].name # Blank
  /\ pc[r] \in TeamPC => team[r] \in TeamId /\ Exists(team[r])
  /\ pc[r] = "updateSave"    => row[r] \in TeamRow
  /\ pc[r] = "leaveDelete"   => member[r] \in MemberRow
  /\ pc[r] = "leaveTransfer" => heir[r] \in User

(* Every table holds rows of its type, and no handler uses a variable it   *)
(* has not set.                                                            *)
TypeOK ==
  /\ teams \in [TeamId -> TeamRow \cup {None}]
  /\ members \in [TeamId -> [User -> MemberRow \cup {None}]]
  /\ access \in SUBSET (User \X Contest)
  /\ drawn \in SUBSET Code
  /\ now \in 0 .. MaxTime
  /\ pc \in [Request -> PC]
  /\ call \in [Request -> CreateCall \cup JoinCall \cup UpdateCall \cup OtherCall \cup {None}]
  /\ team \in [Request -> TeamId \cup {None}]
  /\ row \in [Request -> TeamRow \cup {None}]
  /\ member \in [Request -> MemberRow \cup {None}]
  /\ heir \in [Request -> User \cup {None}]
  /\ grace \in [TeamId -> SUBSET Request]
  /\ \A r \in Request : Loaded(r)

(* Teams never outgrow MaxSize by more than the joins that can be in       *)
(* flight: JoinTeam counts the members in one statement and inserts in the *)
(* next, so the other requests may all insert in between, and no more.     *)
SizeBounded ==
  \A t \in TeamId : Cardinality(Roster(t)) <= MaxSize - 1 + Cardinality(Request)

(* The teams of a contest a user is in, deleted ones included. *)
TeamsOf(u, c) == {t \in TeamId : Exists(t) /\ teams[t].contest = c /\ IsMember(t, u)}

(* A user is in one team of a contest (store.ts: "id of user's team"),     *)
(* whatever the other users do meanwhile.  Rests on OnePerUser.            *)
OneTeamPerContest ==
  \A u \in User : \A s, t \in TeamId :
    /\ IsMember(s, u) /\ IsMember(t, u)
    /\ Exists(s) /\ Exists(t) /\ teams[s].contest = teams[t].contest
    => s = t

(* With several tabs a user can be in several teams of a contest, but never *)
(* in more than Tabs: each request that joins or creates has found the user *)
(* in none, and only those found so together can all insert.                *)
MembershipsBounded ==
  \A u \in User, c \in Contest :
    Cardinality(TeamsOf(u, c)) <= Tabs

(* The hand-over of is_creator by a leaving creator never makes a second   *)
(* creator, whoever joins or leaves between its four statements.  Rests on *)
(* OnePerUser.                                                             *)
AtMostOneCreator ==
  \A t \in TeamId : \A u, v \in User : IsCreator(t, u) /\ IsCreator(t, v) => u = v

(* "contest started, team cannot be changed" (types.ts:30) holds once the  *)
(* requests that were past the is_locked test when the contest started     *)
(* have ended: from then on no row of the team changes, so it also stays   *)
(* locked.                                                                 *)
FrozenOnceDrained ==
  [][\A t \in TeamId :
       Exists(t) /\ teams[t].locked /\ grace[t] = {}
       => teams'[t] = teams[t] /\ members'[t] = members[t]]_<<teams, members>>

-----------------------------------------------------------------------------
(* What the sources state and the interleavings break. *)

(* teams.go:144 "Verify the max team size is not exceeded." *)
SizeNotExceeded == \A t \in TeamId : Cardinality(Roster(t)) <= MaxSize

(* teams.go:90 "Verify the team name is unique for the contest." *)
NamesUnique ==
  \A s, t \in TeamId :
    /\ Live(s) /\ Live(t)
    /\ teams[s].contest = teams[t].contest /\ teams[s].name = teams[t].name
    => s = t

(* teams.go:188 "The team became empty, mark it as deleted." *)
DeletedMeansEmpty ==
  AtRest => \A t \in TeamId : Exists(t) => (teams[t].deleted <=> Roster(t) = {})

(* teams.go:180 "Find the oldest user remaining in the team to transfer    *)
(* creator status."                                                        *)
TeamsHaveCreators ==
  AtRest => \A t \in TeamId :
    Live(t) /\ Roster(t) # {} => \E u \in User : IsCreator(t, u)

(* types.ts:30 "contest started, team cannot be changed": above all it is  *)
(* not unlocked.                                                           *)
LockIsKept ==
  [][\A t \in TeamId : Exists(t) /\ teams[t].locked => teams'[t].locked]_teams

(* Alone, and with no fault between two of its writes, every handler       *)
(* leaves the tables consistent, whatever the contests and badges do.      *)
ConsistentAtRest ==
  /\ DeletedMeansEmpty /\ TeamsHaveCreators
  /\ SizeNotExceeded /\ NamesUnique /\ OneTeamPerContest /\ AtMostOneCreator
  /\ AtRest => \A t \in TeamId, u, v \in User :
       IsCreator(t, u) /\ IsMember(t, v) => members[t][u].joined <= members[t][v].joined

=============================================================================
