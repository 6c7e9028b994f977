----------------------------- MODULE ViewProofs ------------------------------
(***************************************************************************)
(* Proofs about View.tla, answers read statement by statement in the       *)
(* middle of the statements of other requests, for any number of readers,  *)
(* requests, users and teams: an answer to a caller who waits shows the    *)
(* caller in the team it names, and what it shows of a locked team, once   *)
(* no request past the lock test was left, is final.                       *)
(***************************************************************************)
EXTENDS View, TeamsProofs

(* The readers do not write, and what the others do is a step of Teams. *)
LEMMA ReadersDoNotWrite == ViewNext => [Next]_vars
BY DEF ViewNext, Written, AskTeam, Ask, ReadTeam, ReadRow, ReadMembers, ReadUsers,
       AskContest, ReadList, Sent, Became

LEMMA StepOfTeams == [ViewNext]_viewVars => [Next]_vars
BY ReadersDoNotWrite DEF viewVars, vars

-----------------------------------------------------------------------------
(* What a step of Teams leaves of the things an answer relies on. *)

(* A row written over another, or inserted where it was absent, is no loss. *)
LEMMA MemberWrittenStays ==
  ASSUME TypeInv, NEW t \in TeamId, NEW u \in User, NEW s \in TeamId, NEW v \in User,
         NEW m \in MemberRow, members' = [members EXCEPT ![s][v] = m], IsMember(t, u)
  PROVE  IsMember(t, u)'
<1>1. m # None
  BY NoneAssumption
<1>2. members'[t][u] \in {members[t][u], m}
  BY DEF TypeInv, TypeOK
<1> QED BY <1>1, <1>2 DEF IsMember

LEMMA MemberInsertedStays ==
  ASSUME TypeInv, NEW t \in TeamId, NEW u \in User, NEW s \in TeamId, NEW v \in User,
         NEW b \in BOOLEAN, InsertMember(s, v, b), IsMember(t, u)
  PROVE  IsMember(t, u)'
<1>1. CASE IsMember(s, v)
  BY <1>1 DEF InsertMember, IsMember
<1>2. CASE ~IsMember(s, v)
  <2>1. [joined |-> now, creator |-> b] \in MemberRow
    BY SizeAssumption DEF MemberRow, TypeInv, TypeOK
  <2> QED BY <1>2, <2>1, MemberWrittenStays DEF InsertMember
<1> QED BY <1>1, <1>2

(* Only a leave of one's own takes a member out. *)
LEMMA MemberStays ==
  ASSUME TypeInv, [Next]_vars, NEW t \in TeamId, NEW u \in User,
         IsMember(t, u), Of(u) = {}
  PROVE  IsMember(t, u)'
<1>0. UNCHANGED members => IsMember(t, u)'
  BY DEF IsMember
<1>1. ASSUME NEW r \in Request, Statement(r) PROVE IsMember(t, u)'
  <2>0. Loaded(r)
    BY DEF TypeInv, TypeOK
  <2>1. CASE CreateMember(r)
    <3>1. InsertMember(team[r], call[r].user, TRUE) /\ team[r] \in TeamId /\ call[r].user \in User
      BY <2>0, <2>1 DEF CreateMember, Loaded, TeamPC, CreatePC, CreateCall, TypeInv, TypeOK
    <3> QED BY <3>1, MemberInsertedStays
  <2>2. CASE JoinMember(r)
    <3>1. InsertMember(team[r], call[r].user, FALSE) /\ team[r] \in TeamId /\ call[r].user \in User
      BY <2>0, <2>2 DEF JoinMember, Loaded, TeamPC, JoinPC, JoinCall, TypeInv, TypeOK
    <3> QED BY <3>1, MemberInsertedStays
  <2>3. CASE LeaveDelete(r)
    <3>1. /\ members' = [members EXCEPT ![team[r]][call[r].user] = None]
          /\ Running(r) /\ team[r] \in TeamId /\ call[r].user \in User
      BY <2>0, <2>3 DEF LeaveDelete, Running, Loaded, TeamPC, LeavePC, OtherCall
    <3>2. call[r].user # u
      BY <3>1 DEF Of
    <3> QED BY <3>1, <3>2 DEF IsMember, TypeInv, TypeOK
  <2>4. CASE LeaveTransfer(r)
    <3>1. /\ team[r] \in TeamId /\ heir[r] \in User
          /\ members' = IF IsMember(team[r], heir[r])
                        THEN [members EXCEPT ![team[r]][heir[r]].creator = TRUE] ELSE members
      BY <2>0, <2>4 DEF LeaveTransfer, Loaded, TeamPC, LeavePC
    <3>2. CASE ~IsMember(team[r], heir[r])
      BY <1>0, <3>1, <3>2
    <3>3. CASE IsMember(team[r], heir[r])
      <4> DEFINE m == [members[team[r]][heir[r]] EXCEPT !.creator = TRUE]
      <4>1. members[team[r]][heir[r]] \in MemberRow
        BY <3>1, <3>3 DEF IsMember, TypeInv, TypeOK
      <4>2. m \in MemberRow
        BY <4>1 DEF MemberRow
      <4>3. members' = [members EXCEPT ![team[r]][heir[r]] = m]
        BY <3>1, <3>3
      <4> HIDE DEF m
      <4> QED BY <3>1, <4>2, <4>3, MemberWrittenStays
    <3> QED BY <3>2, <3>3
  <2>5. CASE \/ CreateNotInTeam(r) \/ CreateName(r) \/ CreateTeam(r)
             \/ JoinNotInTeam(r) \/ JoinFind(r) \/ JoinSize(r)
             \/ LeaveLoad(r) \/ LeaveHeir(r) \/ LeaveMarkDeleted(r)
             \/ UpdateLoad(r) \/ UpdateSave(r) \/ RenewLoad(r) \/ RenewSave(r)
    BY <1>0, <2>5 DEF CreateNotInTeam, CreateName, CreateTeam, JoinNotInTeam, JoinFind,
      JoinSize, LeaveLoad, LeaveHeir, LeaveMarkDeleted, UpdateLoad, UpdateSave, RenewLoad,
      RenewSave, tables
  <2> QED BY <1>1, <2>1, <2>2, <2>3, <2>4, <2>5 DEF Statement
<1> QED BY <1>0, <1>1 DEF Next, Arrival, CreateBegin, JoinBegin, LeaveBegin, UpdateBegin,
      RenewBegin, Fault, Lock, BadgesImported, Tick, vars, tables

(* A team settled stays so, and so do its rows. *)
LEMMA SettledStays ==
  ASSUME TypeInv, LockInv, [Next]_vars, NEW t \in TeamId, Settled(t)
  PROVE  Settled(t)' /\ teams'[t] = teams[t] /\ members'[t] = members[t]
<1>1. teams'[t] = teams[t] /\ members'[t] = members[t]
  BY FrozenStep DEF Settled
<1>2. ASSUME NEW r \in Request, Return(r) PROVE grace'[t] = {}
  BY <1>2 DEF Return, Settled
<1>3. ASSUME NEW r \in Request, Arrival(r) PROVE grace'[t] = {}
  BY <1>3 DEF Arrival, CreateBegin, JoinBegin, LeaveBegin, UpdateBegin, RenewBegin, Begin, Settled
<1>4. ASSUME NEW r \in Request, Statement(r) PROVE grace'[t] = {}
  <2>1. UNCHANGED grace \/ Return(r)
    BY <1>4 DEF Statement, Goto, Check, CreateNotInTeam, CreateName, CreateTeam, CreateMember,
      JoinNotInTeam, JoinFind, JoinSize, JoinMember, LeaveLoad, LeaveDelete, LeaveHeir,
      LeaveMarkDeleted, LeaveTransfer, UpdateLoad, UpdateSave, RenewLoad, RenewSave
  <2> QED BY <1>2, <2>1 DEF Settled
<1>5. ASSUME NEW s \in TeamId, Lock(s) PROVE grace'[t] = {}
  <2>1. s # t
    BY <1>5 DEF Lock, Settled
  <2> QED BY <1>5, <2>1 DEF Lock, Settled, TypeInv, TypeOK
<1>6. grace'[t] = {}
  BY <1>2, <1>3, <1>4, <1>5 DEF Next, Fault, BadgesImported, Tick, vars, Settled
<1> QED BY <1>1, <1>6 DEF Settled, Exists

-----------------------------------------------------------------------------
(* The invariant: what each reading has, and what stays true of it.        *)

(* A reading with what its next statements rely on. *)
Coherent(a) ==
  /\ a \in Answer
  /\ a.at # "idle" => a.user \in User /\ a.contest \in Contest
  /\ a.at \in {"row", "members", "users"} => a.team \in TeamId
  /\ a.at \in {"idle", "team", "list"} => a.team = None
  /\ a.at # "answered" => a.users = {}
  /\ \A u \in a.users : a.roster[u] # None

(* The team found stays the caller's while the caller waits, so the row    *)
(* and the members read later are those of a team the caller is in.        *)
After(a, places) == a.at \in places \/ (a.at = "answered" /\ a.team # None)
Caller(a) ==
  /\ After(a, {"row", "members", "users"}) =>
       Exists(a.team) /\ teams[a.team].contest = a.contest /\ IsMember(a.team, a.user)
  /\ After(a, {"members", "users"}) =>
       a.rows[a.team] # None /\ a.rows[a.team].contest = a.contest
  /\ After(a, {"users"}) => a.roster[a.user] # None

(* The caller has nothing else under way. *)
Waits(a) == a.at # "idle" => Of(a.user) = {}

(* A team settled when its row was read does not change any more, so       *)
(* neither do the members read after it.                                   *)
Final(a) ==
  \A t \in a.settled :
    /\ t \in TeamId /\ Settled(t) /\ a.rows[t] = teams[t]
    /\ a.at \in {"users", "answered"} /\ a.team = t => a.roster = members[t]

Good(a) == Coherent(a) /\ (OnePerUser => Caller(a) /\ Waits(a)) /\ Final(a)

TeamsInv == TypeInv /\ LockInv /\ RightContests

ReadingInv ==
  /\ TeamsInv
  /\ reading = [r \in Reader |-> reading[r]]
  /\ \A r \in Reader : Good(reading[r])

LEMMA TeamsInvInit == Init => TeamsInv
BY TypeInit, LockInit DEF TeamsInv, Init, RightContests

LEMMA TeamsInvNext == TeamsInv /\ [Next]_vars => TeamsInv' /\ ContestsStay
BY TypeNext, LockNext, ContestsNext DEF TeamsInv

LEMMA FollowingIs ==
  /\ Following("team") = "row" /\ Following("row") = "members"
  /\ Following("members") = "users" /\ Following("users") = "answered"
BY DEF Following

LEMMA AskedIsCoherent ==
  ASSUME NEW u \in User \cup {None}, NEW c \in Contest \cup {None}, NEW s \in {"idle", "team", "list"},
         s # "idle" => u \in User /\ c \in Contest
  PROVE  Coherent(Asked(u, c, s)) /\ Caller(Asked(u, c, s)) /\ Final(Asked(u, c, s))
<1>1. Asked(u, c, s) \in Answer
  BY DEF Asked, Answer
<1>2. Coherent(Asked(u, c, s))
  BY <1>1 DEF Coherent, Asked
<1>3. Caller(Asked(u, c, s)) /\ Final(Asked(u, c, s))
  BY DEF Caller, After, Final, Asked
<1> QED BY <1>2, <1>3

LEMMA AskGood ==
  ASSUME ReadingInv, NEW r \in Reader, NEW u \in User, NEW c \in Contest, NEW s \in {"team", "list"},
         Ask(r, u, c, s)
  PROVE  \E b : Became(r, b) /\ Good(b)
<1> DEFINE b == Asked(u, c, s)
<1>1. Became(r, b) /\ Coherent(b) /\ Caller(b) /\ Final(b) /\ b.user = u
  BY AskedIsCoherent DEF Ask, Asked
<1>2. ASSUME OnePerUser PROVE Of(u) = {}
  <2>1. IsFiniteSet(Of(u)) /\ Cardinality(Of(u)) \in Nat
    BY RequestsAreFinite
  <2>2. ReadingsOf(u) \subseteq Reader
    BY DEF ReadingsOf
  <2>3. Cardinality(ReadingsOf(u)) \in Nat
    BY <2>2, ReaderAssumption, FS_Subset, FS_CardinalityType
  <2>4. Cardinality(Of(u)) = 0
    BY <1>2, <2>1, <2>3 DEF Ask, OnePerUser
  <2> QED BY <2>1, <2>4, FS_EmptySet
<1> QED BY <1>1, <1>2 DEF Good, Waits

(* Each statement of a reader leaves a good reading. *)
LEMMA ReadTeamGood ==
  ASSUME ReadingInv, NEW r \in Reader, ReadTeam(r)
  PROVE  \E b : Became(r, b) /\ Good(b)
<1> DEFINE a == reading[r]
<1>1. Good(a) /\ a \in Answer /\ a.at = "team" /\ a.team = None /\ a.user \in User /\ a.contest \in Contest
  BY DEF ReadingInv, Good, Coherent, ReadTeam, In
<1>2. ASSUME NEW t \in Mine(a.user, a.contest), Became(r, [a EXCEPT !.team = t, !.at = "row"])
      PROVE  Good([a EXCEPT !.team = t, !.at = "row"])
  <2> DEFINE b == [a EXCEPT !.team = t, !.at = "row"]
  <2>1. t \in TeamId /\ Exists(t) /\ teams[t].contest = a.contest /\ IsMember(t, a.user)
    BY <1>2 DEF Mine
  <2>2. b \in Answer /\ b.at = "row" /\ b.team = t /\ b.user = a.user /\ b.contest = a.contest
        /\ b.rows = a.rows /\ b.roster = a.roster /\ b.users = a.users /\ b.settled = a.settled
    BY <1>1, <2>1 DEF Answer
  <2>3. Coherent(b)
    BY <1>1, <2>1, <2>2 DEF Coherent, Good
  <2>4. Caller(b)
    BY <2>1, <2>2 DEF Caller, After
  <2>5. Final(b)
    BY <1>1, <2>2 DEF Final, Good
  <2>6. OnePerUser => Waits(b)
    BY <1>1, <2>2 DEF Good, Waits
  <2> QED BY <2>3, <2>4, <2>5, <2>6 DEF Good
<1>3. Good([a EXCEPT !.at = "answered"])
  <2> DEFINE b == [a EXCEPT !.at = "answered"]
  <2>1. b \in Answer /\ b.at = "answered" /\ b.team = None /\ b.user = a.user /\ b.contest = a.contest
        /\ b.rows = a.rows /\ b.roster = a.roster /\ b.users = a.users /\ b.settled = a.settled
    BY <1>1 DEF Answer
  <2>2. Coherent(b) /\ Caller(b)
    BY <1>1, <2>1 DEF Coherent, Good, Caller, After
  <2>3. Final(b)
    BY <1>1, <2>1, NoneAssumption DEF Final, Good
  <2>4. OnePerUser => Waits(b)
    BY <1>1, <2>1 DEF Good, Waits
  <2> QED BY <2>2, <2>3, <2>4 DEF Good
<1> QED BY <1>2, <1>3, FollowingIs DEF ReadTeam

LEMMA ReadRowGood ==
  ASSUME ReadingInv, NEW r \in Reader, ReadRow(r)
  PROVE  \E b : Became(r, b) /\ Good(b)
<1> DEFINE a == reading[r]
           sure == {t \in {a.team} : Settled(t)}
           b == [a EXCEPT !.rows[a.team] = teams[a.team], !.at = "members", !.settled = sure]
<1>1. Good(a) /\ a \in Answer /\ a.at = "row" /\ a.team \in TeamId /\ a.user \in User /\ a.contest \in Contest
  BY DEF ReadingInv, Good, Coherent, ReadRow, In
<1>2. Became(r, b)
  BY FollowingIs DEF ReadRow
<1>3. b.rows = [a.rows EXCEPT ![a.team] = teams[a.team]] /\ b.at = "members" /\ b.team = a.team
      /\ b.user = a.user /\ b.contest = a.contest /\ b.roster = a.roster /\ b.users = a.users
      /\ b.settled = sure
  BY <1>1 DEF Answer
<1>4. teams[a.team] \in TeamRow \cup {None} /\ sure \in SUBSET TeamId
  BY <1>1 DEF ReadingInv, TeamsInv, TypeInv, TypeOK
<1>5. b \in Answer
  BY <1>1, <1>4 DEF Answer
<1>6. Coherent(b)
  BY <1>1, <1>3, <1>5 DEF Coherent, Good
<1>7. b.rows[a.team] = teams[a.team]
  BY <1>1, <1>3 DEF Answer
<1>8. ASSUME OnePerUser PROVE Caller(b) /\ Waits(b)
  <2>1. Exists(a.team) /\ teams[a.team].contest = a.contest /\ IsMember(a.team, a.user)
    BY <1>1, <1>8 DEF Good, Caller, After
  <2>2. Caller(b)
    BY <1>3, <1>7, <2>1 DEF Caller, After, Exists
  <2> QED BY <1>1, <1>3, <1>8, <2>2 DEF Good, Waits
<1>9. Final(b)
  BY <1>1, <1>3, <1>7 DEF Final
<1> QED BY <1>2, <1>6, <1>8, <1>9 DEF Good

LEMMA ReadMembersGood ==
  ASSUME ReadingInv, NEW r \in Reader, ReadMembers(r)
  PROVE  \E b : Became(r, b) /\ Good(b)
<1> DEFINE a == reading[r]
           b == [a EXCEPT !.roster = members[a.team], !.at = "users"]
<1>1. Good(a) /\ a \in Answer /\ a.at = "members" /\ a.team \in TeamId /\ a.user \in User /\ a.contest \in Contest
  BY DEF ReadingInv, Good, Coherent, ReadMembers, In
<1>2. Became(r, b)
  BY FollowingIs DEF ReadMembers
<1>3. members[a.team] \in [User -> MemberRow \cup {None}]
  BY <1>1 DEF ReadingInv, TeamsInv, TypeInv, TypeOK
<1>4. /\ b \in Answer /\ b.at = "users" /\ b.roster = members[a.team] /\ b.rows = a.rows
      /\ b.team = a.team /\ b.user = a.user /\ b.contest = a.contest /\ b.users = a.users
      /\ b.settled = a.settled
  BY <1>1, <1>3 DEF Answer
<1>5. b.users = {}
  BY <1>1, <1>4 DEF Good, Coherent
<1>6. Coherent(b)
  BY <1>1, <1>4, <1>5 DEF Coherent
<1>7. ASSUME OnePerUser PROVE Caller(b) /\ Waits(b)
  <2>1. Caller(b)
    BY <1>1, <1>4, <1>7 DEF Good, Caller, After, IsMember
  <2> QED BY <1>1, <1>4, <1>7, <2>1 DEF Good, Waits
<1>8. Final(b)
  BY <1>1, <1>4 DEF Good, Final
<1> QED BY <1>2, <1>6, <1>7, <1>8 DEF Good

LEMMA ReadUsersGood ==
  ASSUME ReadingInv, NEW r \in Reader, ReadUsers(r)
  PROVE  \E b : Became(r, b) /\ Good(b)
<1> DEFINE a == reading[r]
           found == {u \in User : a.roster[u] # None}
<1>1. Good(a) /\ a \in Answer /\ a.at = "users" /\ a.team \in TeamId /\ a.user \in User /\ a.contest \in Contest
  BY DEF ReadingInv, Good, Coherent, ReadUsers, In
<1>2. PICK us \in {found, {}} : Became(r, [a EXCEPT !.users = us, !.at = "answered"])
  BY FollowingIs DEF ReadUsers
<1> DEFINE b == [a EXCEPT !.users = us, !.at = "answered"]
<1>3. us \in SUBSET User /\ \A u \in us : a.roster[u] # None
  OBVIOUS
<1>4. /\ b \in Answer /\ b.at = "answered" /\ b.roster = a.roster /\ b.rows = a.rows
      /\ b.team = a.team /\ b.user = a.user /\ b.contest = a.contest /\ b.users = us
      /\ b.settled = a.settled
  BY <1>1, <1>3 DEF Answer
<1>5. Coherent(b)
  BY <1>1, <1>3, <1>4 DEF Coherent
<1>6. ASSUME OnePerUser PROVE Caller(b) /\ Waits(b)
  BY <1>1, <1>4, <1>6 DEF Good, Caller, After, Waits
<1>7. Final(b)
  BY <1>1, <1>4 DEF Good, Final
<1> QED BY <1>2, <1>5, <1>6, <1>7 DEF Good

LEMMA ReadListGood ==
  ASSUME ReadingInv, NEW r \in Reader, ReadList(r)
  PROVE  \E b : Became(r, b) /\ Good(b)
<1> DEFINE a == reading[r]
           listed == {t \in TeamId : Live(t) /\ teams[t].contest = a.contest}
           shown == [t \in TeamId |-> IF t \in listed THEN teams[t] ELSE None]
           sure == {t \in listed : Settled(t)}
           b == [a EXCEPT !.at = "answered", !.rows = shown, !.settled = sure]
<1>1. Good(a) /\ a \in Answer /\ a.at = "list" /\ a.team = None /\ a.user \in User /\ a.contest \in Contest
  BY DEF ReadingInv, Good, Coherent, ReadList, In
<1>2. shown \in [TeamId -> TeamRow \cup {None}] /\ sure \in SUBSET TeamId
  BY DEF ReadingInv, TeamsInv, TypeInv, TypeOK
<1>3. /\ b \in Answer /\ b.at = "answered" /\ b.rows = shown /\ b.roster = a.roster
      /\ b.team = None /\ b.user = a.user /\ b.contest = a.contest /\ b.users = a.users
      /\ b.settled = sure
  BY <1>1, <1>2 DEF Answer
<1>4. Coherent(b) /\ Caller(b)
  BY <1>1, <1>3 DEF Good, Coherent, Caller, After
<1>5. Final(b)
  BY <1>3, NoneAssumption DEF Final
<1>6. OnePerUser => Waits(b)
  BY <1>1, <1>3 DEF Good, Waits
<1>7. Became(r, b)
  BY DEF ReadList
<1> QED BY <1>4, <1>5, <1>6, <1>7 DEF Good

LEMMA ReaderGood ==
  ASSUME ReadingInv, NEW r \in Reader,
         \/ AskTeam(r) \/ ReadTeam(r) \/ ReadRow(r) \/ ReadMembers(r) \/ ReadUsers(r)
         \/ AskContest(r) \/ ReadList(r) \/ Sent(r)
  PROVE  \E b : Became(r, b) /\ Good(b)
<1>1. CASE AskTeam(r)
  BY <1>1, AskGood DEF AskTeam
<1>2. CASE AskContest(r)
  BY <1>2, AskGood DEF AskContest
<1>3. CASE Sent(r)
  <2>1. Good(Nothing)
    BY AskedIsCoherent DEF Nothing, Good, Waits, Asked
  <2> QED BY <1>3, <2>1 DEF Sent
<1> QED BY <1>1, <1>2, <1>3, ReadTeamGood, ReadRowGood, ReadMembersGood, ReadUsersGood, ReadListGood

(* A reading nobody moves is as good after a step of Teams as before, if   *)
(* its caller has begun nothing.                                           *)
LEMMA GoodStays ==
  ASSUME TeamsInv, [Next]_vars, NEW a, Good(a),
         OnePerUser /\ a.at # "idle" => Of(a.user)' = {}
  PROVE  Good(a)'
<1>1. Coherent(a)'
  BY DEF Good, Coherent
<1>2. ASSUME OnePerUser PROVE Caller(a)' /\ Waits(a)'
  <2>1. CASE After(a, {"row", "members", "users"})
    <3>1. /\ a.user \in User /\ a.team \in TeamId /\ Of(a.user) = {}
          /\ Exists(a.team) /\ teams[a.team].contest = a.contest /\ IsMember(a.team, a.user)
      BY <1>2, <2>1 DEF Good, Coherent, Caller, Waits, After, Answer
    <3>2. Exists(a.team)' /\ teams'[a.team].contest = a.contest
      BY <3>1, TeamsInvNext DEF ContestsStay
    <3>3. IsMember(a.team, a.user)'
      BY <3>1, MemberStays DEF TeamsInv
    <3> QED BY <1>2, <3>2, <3>3 DEF Good, Caller, After, Waits
  <2>2. CASE ~After(a, {"row", "members", "users"})
    BY <1>2, <2>2 DEF Caller, After, Waits
  <2> QED BY <2>1, <2>2
<1>3. Final(a)'
  <2>1. ASSUME NEW t \in a.settled
        PROVE  /\ t \in TeamId /\ Settled(t)' /\ a.rows[t] = teams'[t]
               /\ a.at \in {"users", "answered"} /\ a.team = t => a.roster = members'[t]
    <3>1. /\ t \in TeamId /\ Settled(t) /\ a.rows[t] = teams[t]
          /\ a.at \in {"users", "answered"} /\ a.team = t => a.roster = members[t]
      BY DEF Good, Final
    <3>2. Settled(t)' /\ teams'[t] = teams[t] /\ members'[t] = members[t]
      BY <3>1, SettledStays DEF TeamsInv
    <3> QED BY <3>1, <3>2
  <2> QED BY <2>1 DEF Final
<1> QED BY <1>1, <1>2, <1>3 DEF Good

LEMMA ReaderKeeps ==
  ASSUME ReadingInv, NEW r \in Reader, NEW b, Became(r, b), Good(b)
  PROVE  ReadingInv'
<1>1. reading' = [reading EXCEPT ![r] = b] /\ UNCHANGED vars
  BY DEF Became
<1>2. TeamsInv /\ [Next]_vars
  BY <1>1 DEF ReadingInv
<1>3. \A u : Of(u)' = Of(u)
  BY <1>1 DEF vars, locals, Of, Running
<1>4. ASSUME NEW a, Good(a) PROVE Good(a)'
  <2>1. OnePerUser /\ a.at # "idle" => Of(a.user)' = {}
    BY <1>3, <1>4 DEF Good, Waits
  <2> QED BY <1>2, <1>4, <2>1, GoodStays
<1>5. ASSUME NEW q \in Reader PROVE Good(reading[q])'
  <2>1. PICK a : a = reading'[q] /\ Good(a)
    BY <1>1 DEF ReadingInv
  <2>2. Good(a)'
    BY <1>4, <2>1
  <2> QED BY <2>1, <2>2 DEF Good, Coherent, Caller, Waits, Final, After
<1>6. reading' = [q \in Reader |-> reading'[q]]
  BY <1>1 DEF ReadingInv
<1> QED BY <1>2, <1>5, <1>6, TeamsInvNext DEF ReadingInv

(* A step of Teams leaves what is read as good as it was. *)
LEMMA WrittenKeeps == ASSUME ReadingInv, Written PROVE ReadingInv'
<1>1. TeamsInv /\ [Next]_vars /\ UNCHANGED reading
  BY DEF ReadingInv, Written
<1>2. ASSUME NEW q \in Reader PROVE Good(reading[q])'
  <2>1. PICK a : a = reading[q] /\ Good(a)
    BY DEF ReadingInv
  <2>2. ASSUME OnePerUser, a.at # "idle" PROVE Of(a.user)' = {}
    <3>1. a.user \in User /\ q \in ReadingsOf(a.user)
      BY <2>1, <2>2 DEF Good, Coherent, ReadingsOf
    <3> DEFINE A == Of(a.user)'
               B == ReadingsOf(a.user)
    <3>2. IsFiniteSet(A) /\ Cardinality(A) \in Nat
      <4>1. A \subseteq Request
        BY DEF Of
      <4> QED BY <4>1, FiniteAssumption, FS_Subset, FS_CardinalityType
    <3>3. IsFiniteSet(B) /\ Cardinality(B) \in Nat
      <4>1. B \subseteq Reader
        BY DEF ReadingsOf
      <4> QED BY <4>1, ReaderAssumption, FS_Subset, FS_CardinalityType
    <3>4. Cardinality(B) # 0
      BY <3>1, <3>3, FS_EmptySet
    <3>5. Cardinality(A) + Cardinality(B) <= 1
      BY <2>2, <3>1 DEF Written, OnePerUser
    <3> HIDE DEF A, B
    <3>6. Cardinality(A) = 0
      BY <3>2, <3>3, <3>4, <3>5
    <3>7. A = {}
      BY <3>2, <3>6, FS_EmptySet
    <3> QED BY <3>7 DEF A
  <2>3. Good(a)'
    BY <1>1, <2>1, <2>2, GoodStays
  <2> QED BY <1>1, <2>1, <2>3 DEF Good, Coherent, Caller, Waits, Final, After
<1> QED BY <1>1, <1>2, TeamsInvNext DEF ReadingInv

LEMMA ReadingInvInit == ViewInit => ReadingInv
<1> SUFFICES ASSUME ViewInit PROVE ReadingInv
  OBVIOUS
<1>1. TeamsInv
  BY TeamsInvInit DEF ViewInit
<1>2. \A r \in Reader : Good(reading[r])
  BY AskedIsCoherent DEF ViewInit, Nothing, Good, Waits, Asked
<1> QED BY <1>1, <1>2 DEF ReadingInv, ViewInit

LEMMA ReadingInvNext == ReadingInv /\ [ViewNext]_viewVars => ReadingInv'
<1> SUFFICES ASSUME ReadingInv, [ViewNext]_viewVars PROVE ReadingInv'
  OBVIOUS
<1>1. CASE UNCHANGED viewVars
  <2>1. TeamsInv' /\ UNCHANGED <<vars, reading>>
    BY <1>1, TeamsInvNext, StepOfTeams DEF ReadingInv, viewVars
  <2>2. \A u : Of(u)' = Of(u)
    BY <2>1 DEF vars, locals, Of, Running
  <2>3. ASSUME NEW q \in Reader PROVE Good(reading[q])'
    <3>1. PICK a : a = reading[q] /\ Good(a)
      BY DEF ReadingInv
    <3>2. OnePerUser /\ a.at # "idle" => Of(a.user)' = {}
      BY <2>2, <3>1 DEF Good, Waits
    <3>3. Good(a)'
      BY <2>1, <3>1, <3>2, GoodStays DEF ReadingInv
    <3> QED BY <2>1, <3>1, <3>3 DEF Good, Coherent, Caller, Waits, Final, After
  <2> QED BY <2>1, <2>3 DEF ReadingInv
<1> QED BY <1>1, ReaderGood, ReaderKeeps, WrittenKeeps DEF ViewNext

LEMMA ReadingInvHolds == ViewSpec => []ReadingInv
BY ReadingInvInit, ReadingInvNext, PTL DEF ViewSpec

-----------------------------------------------------------------------------
(* Readings have what their next statement is about. *)
THEOREM ViewTypeCorrect == ViewSpec => []ViewTypeOK
<1>1. ReadingInv => ViewTypeOK
  BY DEF ReadingInv, Good, Coherent, ViewTypeOK, Reading, In
<1> QED BY <1>1, ReadingInvHolds, PTL

(* Readings only read: what is proved of the handlers holds next to them.  *)
THEOREM ReadingsDoNotWrite == ViewSpec => Spec
<1>1. ViewInit => Init
  BY DEF ViewInit
<1> QED BY <1>1, StepOfTeams, PTL DEF ViewSpec, Spec

(* An answer that calls a team the caller's shows the caller among its     *)
(* members, if the caller waits for the answer, for any number of other    *)
(* users whose requests run between the SELECTs and whatever fails.        *)
THEOREM CallersAreShown == ViewSpec => []CallerIsShown
<1>1. ReadingInv => CallerIsShown
  BY DEF ReadingInv, Good, Caller, After, CallerIsShown, In
<1> QED BY <1>1, ReadingInvHolds, PTL

(* What an answer shows of a locked team, members included, is final if no *)
(* request that had passed the lock test was left when the row was read.   *)
THEOREM LockedAnswersStay == ViewSpec => []LockedAnswersAreFinal
<1>1. ReadingInv => LockedAnswersAreFinal
  BY DEF ReadingInv, Good, Final, LockedAnswersAreFinal, In
<1> QED BY <1>1, ReadingInvHolds, PTL

=============================================================================
