-------------------------- MODULE TeamServiceProofs --------------------------
(***************************************************************************)
(* Proofs about TeamService.tla, what the team handlers promise, for every *)
(* number of users, contests, teams and access codes.                      *)
(***************************************************************************)
EXTENDS TeamService, FiniteSetTheorems, TLAPS

-----------------------------------------------------------------------------
(* Types. *)

(* A team at time n. *)
IsTeam(r, n) ==
  /\ DOMAIN r.joined \in SUBSET User
  /\ r \in [contest : Contest, name : Name, code : Code, open : BOOLEAN,
            locked : BOOLEAN, creator : DOMAIN r.joined, joined : [DOMAIN r.joined -> 0 .. n]]

Tables ==
  /\ team = [t \in TeamId |-> team[t]]
  /\ \A t \in TeamId : Here(t) => IsTeam(team[t], now)
  /\ access \in SUBSET (User \X Contest)
  /\ now \in 0 .. MaxTime

LEMMA TablesAreTyped == Tables => ServiceTypeOK
BY DEF Tables, ServiceTypeOK, IsTeam, Members

LEMMA TeamsAreHere ==
  ASSUME NEW r, NEW n \in 0 .. MaxTime, IsTeam(r, n)
  PROVE  r # None /\ r # Gone
<1> DEFINE us == DOMAIN r.joined
<1>1. us \in SUBSET User /\ 0 .. n \subseteq 0 .. MaxTime
  BY SizeAssumption DEF IsTeam
<1>2. [us -> 0 .. n] \subseteq [us -> 0 .. MaxTime]
  BY <1>1
<1>3. r \in [contest : Contest, name : Name, code : Code, open : BOOLEAN,
             locked : BOOLEAN, creator : User, joined : [us -> 0 .. MaxTime]]
  BY <1>1, <1>2 DEF IsTeam
<1> QED BY <1>1, <1>3, TeamAssumption

(* A request of a user v, or the start of a contest, writes one team. *)
Writes(t, r) == team' = [s \in TeamId |-> IF s = t THEN r ELSE team[s]]

(* A team with a new member, and one without u. *)
Joined(t, u) == [v \in Members(t) \cup {u} |-> IF v = u THEN now ELSE team[t].joined[v]]
Rest(t, u)   == [v \in Members(t) \ {u} |-> team[t].joined[v]]

UserStep(v, t, r) ==
  /\ Writes(t, r) /\ UNCHANGED <<access, now>>
  /\ \/ \E c \in Contest, n \in Name, k \in Code :
          /\ v \in User /\ team[t] = None /\ ~InATeam(v, c) /\ ~NameTaken(c, n) /\ ~CodeInUse(k)
          /\ r = [contest |-> c, name |-> n, code |-> k, open |-> TRUE, locked |-> FALSE,
                  creator |-> v, joined |-> [u \in {v} |-> now]]
     \/ /\ Here(t) /\ ~team[t].locked
        /\ \/ /\ v \in User /\ ~InATeam(v, team[t].contest) /\ Cardinality(Members(t)) < MaxSize
              /\ r = [team[t] EXCEPT !.joined = Joined(t, v)]
           \/ Members(t) \subseteq {v} /\ r = Gone
           \/ /\ v \in Members(t)
              /\ \E h \in IF team[t].creator = v THEN Seniors(t, Members(t) \ {v}) ELSE {team[t].creator} :
                   r = [team[t] EXCEPT !.creator = h, !.joined = Rest(t, v)]
           \/ \E b \in BOOLEAN : r = [team[t] EXCEPT !.open = b]
           \/ \E k \in Code : ~CodeInUse(k) /\ r = [team[t] EXCEPT !.code = k]
           \/ r = [team[t] EXCEPT !.locked = TRUE]

OtherStep == team' = team /\ access' \in SUBSET (User \X Contest) /\ now' \in now .. MaxTime

LEMMA CreateStep ==
  ASSUME Tables, NEW u \in User, NEW c \in Contest, NEW n \in Name, Create(u, c, n)
  PROVE  \E t \in TeamId : \E r : UserStep(u, t, r)
<1>1. PICK t \in TeamId, k \in Code :
        /\ team[t] = None /\ ~CodeInUse(k)
        /\ team' = [team EXCEPT ![t] =
             [contest |-> c, name |-> n, code |-> k, open |-> TRUE, locked |-> FALSE,
              creator |-> u, joined |-> [v \in {u} |-> now]]]
  BY DEF Create
<1> DEFINE r == [contest |-> c, name |-> n, code |-> k, open |-> TRUE, locked |-> FALSE,
                 creator |-> u, joined |-> [v \in {u} |-> now]]
<1>2. Writes(t, r)
  BY <1>1 DEF Tables, Writes
<1>3. UserStep(u, t, r)
  BY <1>1, <1>2 DEF UserStep, Create
<1> QED BY <1>3

LEMMA JoinStep ==
  ASSUME Tables, NEW u \in User, NEW c \in Contest, NEW k \in Code, Join(u, c, k)
  PROVE  \E t \in TeamId : \E r : UserStep(u, t, r)
<1>1. PICK t \in TeamId :
        /\ Here(t) /\ team[t].contest = c /\ ~team[t].locked
        /\ Cardinality(Members(t)) < MaxSize
        /\ team' = [team EXCEPT ![t].joined = Joined(t, u)]
  BY DEF Join, Joined
<1> DEFINE r == [team[t] EXCEPT !.joined = Joined(t, u)]
<1>2. Writes(t, r)
  BY <1>1 DEF Tables, Writes
<1>3. UserStep(u, t, r)
  BY <1>1, <1>2 DEF UserStep, Join
<1> QED BY <1>3

LEMMA LeaveStep ==
  ASSUME Tables, NEW u \in User, NEW t \in TeamId, Leave(u, t)
  PROVE  \E r : UserStep(u, t, r)
<1>1. CASE Members(t) \ {u} = {} /\ team' = [team EXCEPT ![t] = Gone]
  <2>1. Writes(t, Gone)
    BY <1>1 DEF Tables, Writes
  <2>2. Members(t) \subseteq {u}
    BY <1>1
  <2>3. UserStep(u, t, Gone)
    BY <2>1, <2>2 DEF UserStep, Leave
  <2> QED BY <2>3
<1>2. CASE \E h \in IF team[t].creator = u THEN Seniors(t, Members(t) \ {u}) ELSE {team[t].creator} :
             team' = [team EXCEPT ![t].creator = h, ![t].joined = Rest(t, u)]
  <2>1. PICK h \in IF team[t].creator = u THEN Seniors(t, Members(t) \ {u}) ELSE {team[t].creator} :
          team' = [team EXCEPT ![t].creator = h, ![t].joined = Rest(t, u)]
    BY <1>2
  <2> DEFINE r == [team[t] EXCEPT !.creator = h, !.joined = Rest(t, u)]
  <2>2. Writes(t, r)
    BY <2>1 DEF Tables, Writes
  <2>3. UserStep(u, t, r)
    BY <2>1, <2>2 DEF UserStep, Leave
  <2> QED BY <2>3
<1> QED BY <1>1, <1>2 DEF Leave, Rest

LEMMA UpdateStep ==
  ASSUME Tables, NEW u \in User, NEW t \in TeamId,
         RenewCode(u, t) \/ \E b \in BOOLEAN : SetOpen(u, t, b)
  PROVE  \E r : UserStep(u, t, r)
<1>1. CASE RenewCode(u, t)
  <2>1. PICK k \in Code : ~CodeInUse(k) /\ team' = [team EXCEPT ![t].code = k]
    BY <1>1 DEF RenewCode
  <2>2. Writes(t, [team[t] EXCEPT !.code = k])
    BY <2>1 DEF Tables, Writes
  <2> QED BY <1>1, <2>1, <2>2 DEF UserStep, RenewCode
<1>2. CASE \E b \in BOOLEAN : SetOpen(u, t, b)
  <2>1. PICK b \in BOOLEAN : SetOpen(u, t, b)
    BY <1>2
  <2>2. Writes(t, [team[t] EXCEPT !.open = b])
    BY <2>1 DEF SetOpen, Tables, Writes
  <2> QED BY <2>1, <2>2 DEF UserStep, SetOpen
<1> QED BY <1>1, <1>2

LEMMA LockStep ==
  ASSUME Tables, NEW t \in TeamId, Lock(t), NEW v
  PROVE  \E r : UserStep(v, t, r)
<1>1. Writes(t, [team[t] EXCEPT !.locked = TRUE])
  BY DEF Lock, Tables, Writes
<1> QED BY <1>1 DEF UserStep, Lock

LEMMA Steps ==
  ASSUME Tables, [ServiceNext]_service
  PROVE  (\E t \in TeamId : \E v, r : UserStep(v, t, r)) \/ OtherStep
<1>1. CASE UNCHANGED service
  BY <1>1, SizeAssumption DEF service, OtherStep, Tables
<1>2. ASSUME NEW u \in User, BadgesImported(u) PROVE OtherStep
  BY <1>2, SizeAssumption DEF BadgesImported, OtherStep, Tables
<1>3. CASE Tick
  BY <1>3, SizeAssumption DEF Tick, OtherStep, Tables
<1> QED BY <1>1, <1>2, <1>3, CreateStep, JoinStep, LeaveStep, UpdateStep, LockStep DEF ServiceNext

LEMMA CreatedTeam ==
  ASSUME Tables, NEW u \in User, NEW c \in Contest, NEW n \in Name, NEW k \in Code, NEW r,
         r = [contest |-> c, name |-> n, code |-> k, open |-> TRUE, locked |-> FALSE,
              creator |-> u, joined |-> [v \in {u} |-> now]]
  PROVE  IsTeam(r, now) /\ DOMAIN r.joined = {u} /\ r.contest = c /\ r.name = n /\ r.code = k
         /\ r.creator = u /\ r.joined[u] = now
<1>1. now \in 0 .. now
  BY SizeAssumption DEF Tables
<1>2. DOMAIN r.joined = {u} /\ r.joined \in [{u} -> 0 .. now]
  BY <1>1
<1> QED BY <1>2 DEF IsTeam

-----------------------------------------------------------------------------
(* The invariant. *)

(* A new member is no older than the creator because every time in joined  *)
(* is a past one, and a written team is told from None and Gone by its     *)
(* type: the two properties are inductive with Tables only.                *)
ServiceInv == Tables /\ MembershipsExclusive /\ CreatorIsSenior

Senior(r) == \A v \in DOMAIN r.joined : r.joined[r.creator] <= r.joined[v]

(* A team whose creator is senior and whose name, code and members no      *)
(* other team has.                                                         *)
Allowed(t, r) ==
  /\ IsTeam(r, now) /\ Senior(r) /\ Cardinality(DOMAIN r.joined) <= MaxSize
  /\ ~CodeInUse(r.code) \/ (Here(t) /\ r.code = team[t].code)
  /\ \/ ~NameTaken(r.contest, r.name)
     \/ Here(t) /\ r.contest = team[t].contest /\ r.name = team[t].name
  /\ \A u \in DOMAIN r.joined :
       \/ ~InATeam(u, r.contest)
       \/ Here(t) /\ u \in Members(t) /\ r.contest = team[t].contest

LEMMA HereFacts ==
  ASSUME ServiceInv, NEW t \in TeamId, Here(t)
  PROVE  /\ IsTeam(team[t], now) /\ Members(t) \in SUBSET User /\ IsFiniteSet(Members(t))
         /\ Cardinality(Members(t)) \in Nat /\ Cardinality(Members(t)) <= MaxSize
         /\ team[t].creator \in Members(t) /\ Senior(team[t])
         /\ team[t].joined \in [Members(t) -> 0 .. now]
<1>1. IsTeam(team[t], now)
  BY DEF ServiceInv, Tables
<1>2. Members(t) \in SUBSET User /\ IsFiniteSet(Members(t))
  BY <1>1, UserAssumption, FS_Subset DEF IsTeam, Members
<1>3. Cardinality(Members(t)) \in Nat /\ Cardinality(Members(t)) <= MaxSize
  BY <1>2, FS_CardinalityType DEF ServiceInv, MembershipsExclusive
<1>4. Senior(team[t])
  BY DEF ServiceInv, CreatorIsSenior, Seniors, Senior, Members
<1> QED BY <1>1, <1>2, <1>3, <1>4 DEF IsTeam, Members

LEMMA JoinWrites ==
  ASSUME ServiceInv, NEW t \in TeamId, Here(t), NEW u \in User, NEW r,
         ~InATeam(u, team[t].contest), Cardinality(Members(t)) < MaxSize,
         r = [team[t] EXCEPT !.joined = Joined(t, u)]
  PROVE  Allowed(t, r)
<1> DEFINE us == Members(t) \cup {u}
           h == team[t].creator
<1>1. /\ IsTeam(team[t], now) /\ Members(t) \in SUBSET User /\ IsFiniteSet(Members(t))
      /\ Cardinality(Members(t)) \in Nat /\ h \in Members(t) /\ Senior(team[t])
      /\ team[t].joined \in [Members(t) -> 0 .. now] /\ now \in Nat /\ now \in 0 .. now
  BY HereFacts, SizeAssumption DEF ServiceInv, Tables
<1>2. u \notin Members(t)
  BY DEF InATeam
<1>3. Joined(t, u) \in [us -> 0 .. now]
  BY <1>1 DEF Joined
<1>4. /\ IsTeam(r, now) /\ DOMAIN r.joined = us /\ r.joined = Joined(t, u) /\ r.creator = h
      /\ r.contest = team[t].contest /\ r.name = team[t].name /\ r.code = team[t].code
  BY <1>1, <1>3 DEF IsTeam
<1>5. Senior(r)
  <2>1. \A v \in Members(t) : team[t].joined[h] <= team[t].joined[v]
    BY <1>1 DEF Senior, Members
  <2>2. team[t].joined[h] \in 0 .. now
    BY <1>1
  <2>3. h # u /\ Joined(t, u)[h] = team[t].joined[h] /\ Joined(t, u)[u] = now
        /\ \A v \in Members(t) : Joined(t, u)[v] = team[t].joined[v]
    BY <1>1, <1>2 DEF Joined
  <2> QED BY <1>1, <1>4, <2>1, <2>2, <2>3 DEF Senior
<1>6. Cardinality(us) <= MaxSize
  <2>1. Cardinality(us) = Cardinality(Members(t)) + 1
    BY <1>1, <1>2, FS_AddElement
  <2> QED BY <1>1, <2>1, SizeAssumption
<1> QED BY <1>4, <1>5, <1>6 DEF Allowed

LEMMA LeaveWrites ==
  ASSUME ServiceInv, NEW t \in TeamId, Here(t), NEW u \in Members(t), NEW r,
         NEW h \in IF team[t].creator = u THEN Seniors(t, Members(t) \ {u}) ELSE {team[t].creator},
         r = [team[t] EXCEPT !.creator = h, !.joined = Rest(t, u)]
  PROVE  Allowed(t, r)
<1> DEFINE us == Members(t) \ {u}
<1>1. /\ IsTeam(team[t], now) /\ Members(t) \in SUBSET User /\ IsFiniteSet(Members(t)) /\ Senior(team[t])
      /\ Cardinality(Members(t)) \in Nat /\ Cardinality(Members(t)) <= MaxSize
      /\ team[t].creator \in Members(t) /\ team[t].joined \in [Members(t) -> 0 .. now]
  BY HereFacts
<1>2. h \in us /\ \A v \in us : team[t].joined[h] <= team[t].joined[v]
  BY <1>1 DEF Seniors, Senior, Members
<1>3. Rest(t, u) \in [us -> 0 .. now] /\ \A v \in us : Rest(t, u)[v] = team[t].joined[v]
  BY <1>1 DEF Rest
<1>4. /\ IsTeam(r, now) /\ DOMAIN r.joined = us /\ r.joined = Rest(t, u) /\ r.creator = h
      /\ r.contest = team[t].contest /\ r.name = team[t].name /\ r.code = team[t].code
  BY <1>1, <1>2, <1>3 DEF IsTeam
<1>5. Senior(r)
  BY <1>2, <1>3, <1>4 DEF Senior
<1>6. Cardinality(us) <= MaxSize
  <2>1. IsFiniteSet(us) /\ Cardinality(us) = Cardinality(Members(t)) - 1
    BY <1>1, FS_RemoveElement
  <2> QED BY <1>1, <2>1, SizeAssumption
<1> QED BY <1>4, <1>5, <1>6 DEF Allowed

LEMMA CreateWrites ==
  ASSUME ServiceInv, NEW t \in TeamId,
         NEW u \in User, NEW c \in Contest, NEW n \in Name, NEW k \in Code, NEW r,
         ~InATeam(u, c), ~NameTaken(c, n), ~CodeInUse(k),
         r = [contest |-> c, name |-> n, code |-> k, open |-> TRUE, locked |-> FALSE,
              creator |-> u, joined |-> [v \in {u} |-> now]]
  PROVE  Allowed(t, r)
<1>1. IsTeam(r, now) /\ DOMAIN r.joined = {u} /\ r.contest = c /\ r.name = n /\ r.code = k
      /\ r.creator = u /\ r.joined[u] = now
  BY CreatedTeam DEF ServiceInv
<1>2. now \in Nat /\ Senior(r)
  BY <1>1, SizeAssumption DEF Senior, ServiceInv, Tables
<1>3. Cardinality({u}) <= MaxSize
  <2>1. IsFiniteSet({}) /\ Cardinality({}) = 0
    BY FS_EmptySet
  <2>2. Cardinality({} \cup {u}) = 0 + 1
    BY <2>1, FS_AddElement
  <2>3. {} \cup {u} = {u}
    OBVIOUS
  <2> QED BY <2>2, <2>3, SizeAssumption
<1> QED BY <1>1, <1>2, <1>3 DEF Allowed

LEMMA UpdateWrites ==
  ASSUME ServiceInv, NEW t \in TeamId, Here(t), NEW r,
         \/ \E b \in BOOLEAN : r = [team[t] EXCEPT !.open = b]
         \/ \E k \in Code : ~CodeInUse(k) /\ r = [team[t] EXCEPT !.code = k]
         \/ r = [team[t] EXCEPT !.locked = TRUE]
  PROVE  Allowed(t, r)
<1>1. IsTeam(team[t], now) /\ Senior(team[t]) /\ Cardinality(Members(t)) <= MaxSize
  BY HereFacts
<1>2. /\ IsTeam(r, now) /\ r.joined = team[t].joined /\ r.creator = team[t].creator
      /\ r.contest = team[t].contest /\ r.name = team[t].name
      /\ ~CodeInUse(r.code) \/ r.code = team[t].code
  BY <1>1 DEF IsTeam
<1> QED BY <1>1, <1>2 DEF Allowed, Senior, Members

LEMMA StepAllowed ==
  ASSUME ServiceInv, NEW t \in TeamId, NEW v, NEW r, UserStep(v, t, r)
  PROVE  (r = Gone /\ Here(t) /\ Members(t) \subseteq {v}) \/ Allowed(t, r)
BY CreateWrites, JoinWrites, LeaveWrites, UpdateWrites DEF UserStep

LEMMA UserKeepsInv ==
  ASSUME ServiceInv, NEW t \in TeamId, NEW v, NEW r, UserStep(v, t, r)
  PROVE  ServiceInv'
<1>1. r = Gone \/ Allowed(t, r)
  BY StepAllowed
<1>2. /\ team' = [s \in TeamId |-> IF s = t THEN r ELSE team[s]]
      /\ access' = access /\ now' = now
  BY DEF UserStep, Writes
<1>3. team'[t] = r /\ \A s \in TeamId \ {t} : team'[s] = team[s]
  BY <1>2
<1>4. CASE r = Gone
  <2>1. ~Here(t)' /\ \A s \in TeamId \ {t} : (Here(s)' <=> Here(s)) /\ Members(s)' = Members(s)
    BY <1>3, <1>4 DEF Here, Members
  <2>2. Tables'
    BY <1>2, <1>3, <2>1 DEF ServiceInv, Tables
  <2>3. MembershipsExclusive'
    BY <1>3, <2>1 DEF ServiceInv, MembershipsExclusive
  <2>4. CreatorIsSenior'
    BY <1>3, <2>1 DEF ServiceInv, CreatorIsSenior, Seniors
  <2> QED BY <2>2, <2>3, <2>4 DEF ServiceInv
<1>5. CASE r # Gone
  <2>0. IsTeam(r, now) /\ Senior(r) /\ Cardinality(DOMAIN r.joined) <= MaxSize
    BY <1>1, <1>5 DEF Allowed
  <2>1. /\ Here(t)' /\ Members(t)' = DOMAIN r.joined
        /\ \A s \in TeamId \ {t} : (Here(s)' <=> Here(s)) /\ Members(s)' = Members(s)
    BY <1>3, <2>0, TeamsAreHere DEF Here, Members, ServiceInv, Tables
  <2>2. Tables'
    BY <1>2, <1>3, <2>0, <2>1 DEF ServiceInv, Tables
  <2>3. ASSUME NEW s \in TeamId \ {t}, Here(s)
        PROVE  /\ team[s].code # r.code
               /\ team[s].contest = r.contest =>
                    team[s].name # r.name /\ Members(s) \cap DOMAIN r.joined = {}
    <3>1. team[s].code # r.code
      BY <1>1, <1>5, <2>3 DEF Allowed, CodeInUse, ServiceInv, MembershipsExclusive
    <3>2. ASSUME team[s].contest = r.contest PROVE team[s].name # r.name
      BY <1>1, <1>5, <2>3, <3>2 DEF Allowed, NameTaken, ServiceInv, MembershipsExclusive
    <3>3. ASSUME team[s].contest = r.contest, NEW u \in DOMAIN r.joined PROVE u \notin Members(s)
      BY <1>1, <1>5, <2>3, <3>3 DEF Allowed, InATeam, ServiceInv, MembershipsExclusive
    <3> QED BY <3>1, <3>2, <3>3
  <2>4. MembershipsExclusive'
    <3>1. ASSUME NEW p \in TeamId, NEW q \in TeamId, Here(p)', Here(q)', p # q
          PROVE  /\ team'[p].code # team'[q].code
                 /\ team'[p].contest = team'[q].contest =>
                      team'[p].name # team'[q].name /\ Members(p)' \cap Members(q)' = {}
      <4>1. CASE p # t /\ q # t
        BY <1>3, <2>1, <3>1, <4>1 DEF ServiceInv, MembershipsExclusive
      <4>2. CASE p = t
        BY <1>3, <2>1, <2>3, <3>1, <4>2
      <4>3. CASE q = t
        BY <1>3, <2>1, <2>3, <3>1, <4>3
      <4> QED BY <4>1, <4>2, <4>3
    <3>2. \A s \in TeamId : Here(s)' => Cardinality(Members(s)') <= MaxSize
      BY <2>0, <2>1 DEF ServiceInv, MembershipsExclusive
    <3> QED BY <3>1, <3>2 DEF MembershipsExclusive
  <2>5. CreatorIsSenior'
    <3>1. team'[t].creator \in Seniors(t, Members(t))'
      BY <1>3, <2>0, <2>1 DEF Seniors, Senior, IsTeam
    <3>2. ASSUME NEW s \in TeamId \ {t}, Here(s)' PROVE team'[s].creator \in Seniors(s, Members(s))'
      BY <1>3, <2>1, <3>2 DEF ServiceInv, CreatorIsSenior, Seniors
    <3> QED BY <3>1, <3>2 DEF CreatorIsSenior
  <2> QED BY <2>2, <2>4, <2>5 DEF ServiceInv
<1> QED BY <1>4, <1>5

LEMMA OtherKeepsInv == ASSUME ServiceInv, OtherStep PROVE ServiceInv'
<1>1. now \in Nat /\ now' \in Nat /\ now <= now' /\ now' <= MaxTime
  BY SizeAssumption DEF ServiceInv, Tables, OtherStep
<1>2. \A r : IsTeam(r, now) => IsTeam(r, now')
  <2>1. 0 .. now \subseteq 0 .. now'
    BY <1>1
  <2> QED BY <2>1 DEF IsTeam
<1>3. Tables'
  BY <1>1, <1>2, SizeAssumption DEF ServiceInv, Tables, OtherStep, Here
<1>4. MembershipsExclusive' /\ CreatorIsSenior'
  BY DEF ServiceInv, OtherStep, MembershipsExclusive, CreatorIsSenior, Here, Members, Seniors
<1> QED BY <1>3, <1>4 DEF ServiceInv

LEMMA ServiceInvInit == ServiceInit => ServiceInv
<1> SUFFICES ASSUME ServiceInit PROVE ServiceInv
  OBVIOUS
<1>1. \A t \in TeamId : ~Here(t)
  BY DEF ServiceInit, Here
<1> QED BY <1>1, SizeAssumption DEF ServiceInit, ServiceInv, Tables, MembershipsExclusive, CreatorIsSenior

LEMMA ServiceInvNext == ServiceInv /\ [ServiceNext]_service => ServiceInv'
BY Steps, UserKeepsInv, OtherKeepsInv DEF ServiceInv

LEMMA ServiceInvHolds == ServiceSpec => []ServiceInv
BY ServiceInvInit, ServiceInvNext, PTL DEF ServiceSpec

(* Teams have members who joined in the past, the creator among them. *)
THEOREM ServiceTypeCorrect == ServiceSpec => []ServiceTypeOK
BY ServiceInvHolds, TablesAreTyped, PTL DEF ServiceInv

(* A user is in one team of a contest, a name belongs to one team of a     *)
(* contest, a code opens one team, and no team outgrows MaxSize.           *)
THEOREM ExclusiveMemberships == ServiceSpec => []MembershipsExclusive
BY ServiceInvHolds, PTL DEF ServiceInv

(* The creator of a team is always one of its longest-standing members. *)
THEOREM SeniorCreators == ServiceSpec => []CreatorIsSenior
BY ServiceInvHolds, PTL DEF ServiceInv

=============================================================================
