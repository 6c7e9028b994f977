-------------------------- MODULE TeamsRefinement ---------------------------
(***************************************************************************)
(* The handlers of Teams.tla, one request at a time, implement             *)
(* TeamService.tla.  A request takes effect at its last write: until then  *)
(* a team being created is not there yet, and a creator being replaced is  *)
(* still there with the team_members row the handler loaded.               *)
(***************************************************************************)
EXTENDS Teams

CONSTANT Gone    \* a team marked as deleted, for the service

(* None and Gone are no teams of the service. *)
ASSUME GoneAssumption ==
  /\ None # Gone
  /\ \A t \in {None, Gone} : \A us \in SUBSET User :
       t \notin [contest : Contest, name : Name, code : Code, open : BOOLEAN,
                locked : BOOLEAN, creator : User, joined : [us -> 0 .. MaxTime]]

(* A handler that has written something and has more to write to team t. *)
Halfway(r, t) ==
  /\ team[r] = t
  /\ pc[r] \in {"createMember", "leaveHeir", "leaveMarkDeleted", "leaveTransfer"}

(* The rows of team_members before the handler's DELETE. *)
RowsBefore(t, r) == [members[t] EXCEPT ![call[r].user] = member[r]]

AsTeam(t, rows) ==
  LET us == {u \in User : rows[u] # None} IN
  [contest |-> teams[t].contest, name |-> teams[t].name, code |-> teams[t].code,
   open |-> teams[t].open, locked |-> teams[t].locked,
   creator |-> CHOOSE u \in us : rows[u].creator,
   joined |-> [u \in us |-> rows[u].joined]]

AbstractTeam(t) ==
  IF ~Exists(t) THEN None
  ELSE IF teams[t].deleted THEN Gone
  ELSE IF \A r \in Request : ~Halfway(r, t) THEN AsTeam(t, members[t])
  ELSE LET r == CHOOSE r \in Request : Halfway(r, t) IN
       IF pc[r] = "createMember" THEN None ELSE AsTeam(t, RowsBefore(t, r))

abstractTeam == [t \in TeamId |-> AbstractTeam(t)]

Service == INSTANCE TeamService WITH team <- abstractTeam

-----------------------------------------------------------------------------
(* The handlers are not transactions, so they need quiet around them.      *)

(* No request fails between two of its writes; before the first and after  *)
(* the last one it may.                                                    *)
FaultOutside(r) == Fault(r) /\ ~Halfway(r, team[r])

SteadyNext ==
  \/ \E r \in Request : Arrival(r) \/ Statement(r) \/ FaultOutside(r)
  \/ \E t \in TeamId : Lock(t)
  \/ \E u \in User : BadgesImported(u)
  \/ Tick

SteadySpec == Init /\ [][SteadyNext]_vars

(* Moreover no contest starts under a request that is past the is_locked   *)
(* test, and no badges are imported for a user who waits for an answer.    *)
QuietNext ==
  \/ \E r \in Request : Arrival(r) \/ Statement(r) \/ FaultOutside(r)
  \/ \E t \in TeamId : Lock(t) /\ \A r \in Request : ~Committed(r, t)
  \/ \E u \in User : BadgesImported(u) /\ \A r \in Request : Running(r) => call[r].user # u
  \/ Tick

QuietSpec == Init /\ [][QuietNext]_vars

(* One request at a time, in that quiet, every handler is one step of the  *)
(* service or leaves no trace, and hands over and dissolves teams as it    *)
(* does; so are the start of a contest and an import of badges.            *)
ImplementsService == Service!ServiceSpec

=============================================================================
