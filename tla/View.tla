-------------------------------- MODULE View ---------------------------------
(***************************************************************************)
(* The answers of the contest and team routes (backend view/, routes/).    *)
(* An answer is built by several SELECTs, one action each, while the       *)
(* handlers of Teams.tla go on statement by statement: it is put together  *)
(* from several moments, each of them in the middle of other requests.     *)
(*                                                                         *)
(* A reading is a GET request, or what follows the write of a create, a    *)
(* join, an update or a renewal: both build the answer in the same way.    *)
(***************************************************************************)
EXTENDS Teams

CONSTANT Reader      \* slots for requests that read (bounds the concurrency)

VARIABLE reading     \* reader -> next statement and what it has read

viewVars == <<vars, reading>>

ASSUME ReaderAssumption == IsFiniteSet(Reader)

(* LoadUserContestTeam: deleted teams too *)
Mine_anyTeam(u, c) == {t \in TeamId : Exists(t) /\ teams[t].contest = c}
Mine(u, c) == {t \in TeamId : Exists(t) /\ teams[t].contest = c /\ IsMember(t, u)}

(* A View: the caller, teamId, and the entities added so far.  The access  *)
(* code of a row is sent for teamId only.  The field settled is history:   *)
(* the teams whose row showed them locked and was read when no request     *)
(* that had passed the lock test was left.                                 *)
Asked(u, c, s) ==
  [at |-> s, user |-> u, contest |-> c, team |-> None,
   rows |-> [t \in TeamId |-> None], roster |-> [v \in User |-> None], users |-> {},
   settled |-> {}]
Nothing == Asked(None, None, "idle")

Settled(t) == Exists(t) /\ teams[t].locked /\ grace[t] = {}

In(r, s)     == reading[r].at = s
Reading(r)   == ~In(r, "idle")
Became(r, a) == reading' = [reading EXCEPT ![r] = a] /\ UNCHANGED vars

(* The readings of a user, which are requests of that user like the        *)
(* others: a browser tab has one or the other under way.                   *)
ReadingsOf(u) == {r \in Reader : reading[r].user = u}

(* The order of the statements in ViewUserContestTeam. *)
Following_membersFirst(s) ==
  CASE s = "team" -> "members" [] s = "members" -> "row"
    [] s = "row" -> "users"    [] s = "users" -> "answered"
Following(s) ==
  CASE s = "team" -> "row"      [] s = "row" -> "members"
    [] s = "members" -> "users" [] s = "users" -> "answered"

-----------------------------------------------------------------------------
(* The readers. *)

Ask(r, u, c, s) ==
  /\ ~Reading(r)
  /\ Cardinality(Of(u)) + Cardinality(ReadingsOf(u)) < Tabs
  /\ Became(r, Asked(u, c, s))

AskTeam(r) == \E u \in User, c \in Contest : Ask(r, u, c, "team")

ReadTeam_noNilTest(r) ==
  LET a == reading[r]  mine == Mine(a.user, a.contest) IN
  /\ In(r, "team")
  /\ \/ \E t \in mine : Became(r, [a EXCEPT !.team = t, !.at = Following("team")])
     \/ mine = {} /\ Became(r, [a EXCEPT !.at = Following("team")])
ReadTeam(r) ==
  LET a == reading[r]  mine == Mine(a.user, a.contest) IN
  /\ In(r, "team")
  /\ \/ \E t \in mine : Became(r, [a EXCEPT !.team = t, !.at = Following("team")])
     \/ mine = {} /\ Became(r, [a EXCEPT !.at = "answered"])

(* addTeams: deleted teams too *)
ReadRow(r) ==
  LET a == reading[r] IN
  /\ In(r, "row")
  /\ Became(r, [a EXCEPT !.rows[a.team] = teams[a.team], !.at = Following("row"),
                         !.settled = {t \in {a.team} : Settled(t)}])

(* addTeamMembers *)
ReadMembers(r) ==
  LET a == reading[r] IN
  /\ In(r, "members")
  /\ Became(r, [a EXCEPT !.roster = members[a.team], !.at = Following("members")])

(* LoadSet.Load(addUsers): its error is dropped, and the answer sent       *)
(* without the users.                                                      *)
ReadUsers(r) ==
  LET a == reading[r] IN
  /\ In(r, "users")
  /\ \E us \in {{u \in User : a.roster[u] # None}, {}} :
       Became(r, [a EXCEPT !.users = us, !.at = Following("users")])

(* ViewUserContest: the access test, then the teams not deleted. *)
AskContest(r) ==
  \E u \in User, c \in Contest : <<u, c>> \in access /\ Ask(r, u, c, "list")

ReadList(r) ==
  LET a == reading[r]
      listed == {t \in TeamId : Live(t) /\ teams[t].contest = a.contest} IN
  /\ In(r, "list")
  /\ Became(r, [a EXCEPT !.at = "answered",
                         !.rows = [t \in TeamId |-> IF t \in listed THEN teams[t] ELSE None],
                         !.settled = {t \in listed : Settled(t)}])

(* The answer is sent, or a SELECT has failed and an error is. *)
Sent(r) == Reading(r) /\ Became(r, Nothing)

-----------------------------------------------------------------------------
(* A statement of a handler, a lock, a login or the clock. *)
Written ==
  /\ Next
  /\ \A u \in User : Cardinality(Of(u)') + Cardinality(ReadingsOf(u)) <= Tabs
  /\ UNCHANGED reading

ViewInit == Init /\ reading = [r \in Reader |-> Nothing]

ViewNext ==
  \/ \E r \in Reader :
       AskTeam(r) \/ ReadTeam(r) \/ ReadRow(r) \/ ReadMembers(r) \/ ReadUsers(r)
         \/ AskContest(r) \/ ReadList(r) \/ Sent(r)
  \/ Written

ViewSpec == ViewInit /\ [][ViewNext]_viewVars

-----------------------------------------------------------------------------
(* Properties. *)

Answer ==
  [at : {"idle", "team", "row", "members", "users", "list", "answered"},
   user : User \cup {None}, contest : Contest \cup {None}, team : TeamId \cup {None},
   rows : [TeamId -> TeamRow \cup {None}], roster : [User -> MemberRow \cup {None}],
   users : SUBSET User, settled : SUBSET TeamId]

(* A reading past its first statement has the team the next ones are       *)
(* about, and asks for users it has found among the members.               *)
ViewTypeOK ==
  /\ reading \in [Reader -> Answer]
  /\ \A r \in Reader :
       /\ Reading(r) => reading[r].user \in User /\ reading[r].contest \in Contest
       /\ reading[r].at \in {"row", "members", "users"} => reading[r].team \in TeamId
       /\ reading[r].at \in {"idle", "team", "list"} => reading[r].team = None
       /\ reading[r].at # "answered" => reading[r].users = {}
       /\ \A u \in reading[r].users : reading[r].roster[u] # None

(* An answer that calls a team the caller's shows its row, of the contest  *)
(* asked for, with the caller among the members, and the caller still is   *)
(* one: although the team, its row and its members are read at three       *)
(* moments, in the middle of other requests.  The team may be marked as    *)
(* deleted (DeletedMeansEmpty does not hold).  Rests on OnePerUser.        *)
CallerIsShown ==
  \A r \in Reader : LET a == reading[r] IN
    OnePerUser /\ In(r, "answered") /\ a.team # None =>
      /\ a.rows[a.team] # None /\ a.rows[a.team].contest = a.contest
      /\ a.roster[a.user] # None /\ IsMember(a.team, a.user)

(* "contest started, team cannot be changed" (types.ts:30): once the       *)
(* requests that were past the lock test have ended, an answer that shows  *)
(* the team locked shows it, and the members if it lists them, as they are *)
(* and stay.  Before that it is not final (LockIsKept does not hold).  The *)
(* row has to be read before the members.                                  *)
LockedAnswersAreFinal ==
  \A r \in Reader : LET a == reading[r] IN
    In(r, "answered") =>
      \A t \in a.settled :
        /\ a.rows[t] = teams[t]
        /\ a.team = t => a.roster = members[t]

=============================================================================
