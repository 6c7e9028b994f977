---------------------------- MODULE TeamService -----------------------------
(***************************************************************************)
(* What the handlers of backend/model/teams.go promise: each request takes *)
(* effect at once or not at all.  Teams.tla has the same handlers          *)
(* statement by statement; TeamsRefinement.tla relates the two.            *)
(*                                                                         *)
(* A team is None until it is created and Gone once its last member has    *)
(* left.  A team in between has at least one member, exactly one creator   *)
(* and, in joined, the time each member joined.                            *)
(***************************************************************************)
EXTENDS Naturals, FiniteSets

CONSTANTS
  User, Contest, Name, TeamId, Code,
  None, Gone,      \* a team not created yet; a team marked as deleted
  MaxSize, MaxTime

VARIABLES
  team,     \* team id -> None, Gone or the team
  access,   \* which user may enter which contest
  now

service == <<team, access, now>>

ASSUME UserAssumption == IsFiniteSet(User)
ASSUME SizeAssumption == MaxSize \in Nat \ {0} /\ MaxTime \in Nat
ASSUME TeamAssumption ==
  \A t \in {None, Gone} :
    \A us \in SUBSET User :
      t \notin [contest : Contest, name : Name, code : Code, open : BOOLEAN,
                locked : BOOLEAN, creator : User, joined : [us -> 0 .. MaxTime]]
ASSUME GoneAssumption == None # Gone

Here(t)        == team[t] \notin {None, Gone}
Members(t)     == DOMAIN team[t].joined
InATeam(u, c)  == \E t \in TeamId : Here(t) /\ team[t].contest = c /\ u \in Members(t)
NameTaken(c, n) == \E t \in TeamId : Here(t) /\ team[t].contest = c /\ team[t].name = n
CodeInUse(k)   == \E t \in TeamId : Here(t) /\ team[t].code = k

(* The members who joined first. *)
Seniors(t, us) == {u \in us : \A v \in us : team[t].joined[u] <= team[t].joined[v]}

-----------------------------------------------------------------------------
Create(u, c, n) ==
  /\ <<u, c>> \in access /\ ~InATeam(u, c) /\ ~NameTaken(c, n)
  /\ \E t \in TeamId, k \in Code :
       /\ team[t] = None /\ ~CodeInUse(k)
       /\ team' = [team EXCEPT ![t] =
            [contest |-> c, name |-> n, code |-> k, open |-> TRUE, locked |-> FALSE,
             creator |-> u, joined |-> [v \in {u} |-> now]]]
  /\ UNCHANGED <<access, now>>

Join(u, c, k) ==
  /\ <<u, c>> \in access /\ ~InATeam(u, c)
  /\ \E t \in TeamId :
       /\ Here(t) /\ team[t].contest = c /\ team[t].code = k
       /\ team[t].open /\ ~team[t].locked
       /\ Cardinality(Members(t)) < MaxSize
       /\ team' = [team EXCEPT ![t].joined =
            [v \in Members(t) \cup {u} |-> IF v = u THEN now ELSE team[t].joined[v]]]
  /\ UNCHANGED <<access, now>>

(* The creator hands over to one of the longest-standing members. *)
Leave(u, t) ==
  LET left == Members(t) \ {u} IN
  /\ Here(t) /\ ~team[t].locked /\ u \in Members(t)
  /\ \/ left = {} /\ team' = [team EXCEPT ![t] = Gone]
     \/ /\ left # {}
        /\ \E h \in IF team[t].creator = u THEN Seniors(t, left) ELSE {team[t].creator} :
             team' = [team EXCEPT ![t].creator = h,
                                  ![t].joined = [v \in left |-> team[t].joined[v]]]
  /\ UNCHANGED <<access, now>>

SetOpen(u, t, b) ==
  /\ Here(t) /\ ~team[t].locked /\ u \in Members(t)
  /\ team' = [team EXCEPT ![t].open = b]
  /\ UNCHANGED <<access, now>>

RenewCode(u, t) ==
  /\ Here(t) /\ ~team[t].locked /\ u \in Members(t)
  /\ \E k \in Code : ~CodeInUse(k) /\ team' = [team EXCEPT ![t].code = k]
  /\ UNCHANGED <<access, now>>

Lock(t) ==
  /\ Here(t) /\ ~team[t].locked
  /\ team' = [team EXCEPT ![t].locked = TRUE]
  /\ UNCHANGED <<access, now>>

BadgesImported(u) ==
  /\ \E cs \in SUBSET Contest : access' = {p \in access : p[1] # u} \cup ({u} \X cs)
  /\ UNCHANGED <<team, now>>

Tick == now < MaxTime /\ now' = now + 1 /\ UNCHANGED <<team, access>>

-----------------------------------------------------------------------------
ServiceInit ==
  /\ team = [t \in TeamId |-> None]
  /\ access \in SUBSET (User \X Contest)
  /\ now = 0

ServiceNext ==
  \/ \E u \in User, c \in Contest, n \in Name : Create(u, c, n)
  \/ \E u \in User, c \in Contest, k \in Code : Join(u, c, k)
  \/ \E u \in User, t \in TeamId : Leave(u, t) \/ RenewCode(u, t)
  \/ \E u \in User, t \in TeamId, b \in BOOLEAN : SetOpen(u, t, b)
  \/ \E t \in TeamId : Lock(t)
  \/ \E u \in User : BadgesImported(u)
  \/ Tick

ServiceSpec == ServiceInit /\ [][ServiceNext]_service

-----------------------------------------------------------------------------
(* A team is unborn, gone, or has members who joined in the past, its      *)
(* creator among them.                                                     *)
ServiceTypeOK ==
  /\ \A t \in TeamId : Here(t) =>
       /\ Members(t) \in SUBSET User
       /\ team[t] \in [contest : Contest, name : Name, code : Code, open : BOOLEAN,
                       locked : BOOLEAN, creator : Members(t),
                       joined : [Members(t) -> 0 .. now]]
  /\ access \in SUBSET (User \X Contest)
  /\ now \in 0 .. MaxTime

(* Whatever the sequence of requests: a user is in one team of a contest,  *)
(* a name belongs to one team of a contest, a code opens one team and no   *)
(* team has more than MaxSize members.                                     *)
MembershipsExclusive ==
  /\ \A s, t \in TeamId : Here(s) /\ Here(t) /\ s # t =>
       /\ team[s].code # team[t].code
       /\ team[s].contest = team[t].contest =>
            team[s].name # team[t].name /\ Members(s) \cap Members(t) = {}
  /\ \A t \in TeamId : Here(t) => Cardinality(Members(t)) <= MaxSize

(* The creator is always a longest-standing member: the founder is, and    *)
(* the hand-over picks one again.                                          *)
CreatorIsSenior ==
  \A t \in TeamId : Here(t) => team[t].creator \in Seniors(t, Members(t))

=============================================================================
