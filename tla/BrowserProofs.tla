---------------------------- MODULE BrowserProofs ---------------------------
(***************************************************************************)
(* What the store of a browser says of its tasks, for any number of tasks, *)
(* teams and users and whatever the service answers: the tasks listed are  *)
(* those under way, a change shown before its confirmation is that of a    *)
(* task under way and stays shown until a task starts or ends, the         *)
(* selectors read fresh entities, no answer takes a facet away, and        *)
(* nothing but a late answer brings the team of another contest.  Then,    *)
(* for a user who waits for each task to end: a store that nothing else    *)
(* changes is in step with the tables.                                     *)
(***************************************************************************)
EXTENDS Browser, TeamServiceProofs

Fields == {"tasks", "lastError", "optimistic", "pristine", "entities", "contestId", "teamId"}

IsStore(s) == s = [f \in Fields |-> s[f]]
Fresh(s)   == IsStore(s) /\ s.entities = Overlaid(s.pristine, s.optimistic)

(* The contest and the team shown. *)
SameIds(r, s) == r.contestId = s.contestId /\ r.teamId = s.teamId

(* takeLatest leaves one key change under way at most: the only saga the   *)
(* newer one ends is the one whose BACKEND_TASK_DONE it waits for.         *)
OneKeyTask ==
  \A j, k \in Task : Busy(j) /\ Busy(k) /\ saga[j].job.kind = "key" /\ saga[k].job.kind = "key"
    => j = k

IInv ==
  /\ Fresh(store)
  /\ saga = [k \in Task |-> saga[k]]
  /\ TasksAreListed
  /\ ShownIsPending
  /\ OneKeyTask

-----------------------------------------------------------------------------
(* What each reducer does to the fields the invariant speaks of. *)

LEMMA FlushResult ==
  ASSUME NEW s, IsStore(s)
  PROVE  /\ Fresh(Flush(s))
         /\ Flush(s).tasks = s.tasks
         /\ Flush(s).optimistic = s.optimistic
         /\ Flush(s).pristine = s.pristine
         /\ Flush(s).lastError = s.lastError
         /\ SameIds(Flush(s), s)
BY DEF Flush, Fresh, IsStore, Fields, SameIds

LEMMA StartedResult ==
  ASSUME NEW s, IsStore(s), NEW k, NEW change
  PROVE  /\ Fresh(TaskStarted(s, k, change))
         /\ TaskStarted(s, k, change).tasks = s.tasks \cup {k}
         /\ TaskStarted(s, k, change).optimistic = change
         /\ TaskStarted(s, k, change).pristine = s.pristine
         /\ TaskStarted(s, k, change).lastError = None /\ SameIds(TaskStarted(s, k, change), s)
<1> DEFINE r == [s EXCEPT !.tasks = s.tasks \cup {k}, !.lastError = None, !.optimistic = change]
<1>1. IsStore(r)
  BY DEF IsStore, Fields
<1>2. /\ r.tasks = s.tasks \cup {k} /\ r.optimistic = change /\ r.pristine = s.pristine
      /\ r.lastError = None /\ SameIds(r, s)
  BY DEF IsStore, Fields, SameIds
<1> HIDE DEF r
<1>3. /\ Fresh(Flush(r)) /\ Flush(r).tasks = r.tasks
      /\ Flush(r).optimistic = r.optimistic /\ Flush(r).pristine = r.pristine
      /\ Flush(r).lastError = r.lastError /\ SameIds(Flush(r), r)
  BY <1>1, FlushResult
<1>4. TaskStarted(s, k, change) = Flush(r)
  BY DEF TaskStarted, r
<1> QED BY <1>2, <1>3, <1>4 DEF SameIds

LEMMA FailedResult ==
  ASSUME NEW s, IsStore(s), NEW k, NEW error
  PROVE  /\ Fresh(TaskFailed(s, k, error))
         /\ TaskFailed(s, k, error).tasks = s.tasks \ {k}
         /\ TaskFailed(s, k, error).optimistic = None
         /\ TaskFailed(s, k, error).pristine = s.pristine
         /\ TaskFailed(s, k, error).lastError = error /\ SameIds(TaskFailed(s, k, error), s)
<1> DEFINE r == [s EXCEPT !.tasks = s.tasks \ {k}, !.lastError = error, !.optimistic = None]
<1>1. IsStore(r)
  BY DEF IsStore, Fields
<1>2. /\ r.tasks = s.tasks \ {k} /\ r.optimistic = None /\ r.pristine = s.pristine
      /\ r.lastError = error /\ SameIds(r, s)
  BY DEF IsStore, Fields, SameIds
<1> HIDE DEF r
<1>3. /\ Fresh(Flush(r)) /\ Flush(r).tasks = r.tasks
      /\ Flush(r).optimistic = r.optimistic /\ Flush(r).pristine = r.pristine
      /\ Flush(r).lastError = r.lastError /\ SameIds(Flush(r), r)
  BY <1>1, FlushResult
<1>4. TaskFailed(s, k, error) = Flush(r)
  BY DEF TaskFailed, r
<1> QED BY <1>2, <1>3, <1>4 DEF SameIds

LEMMA DoneResult ==
  ASSUME NEW s, IsStore(s), NEW k
  PROVE  /\ Fresh(TaskDone(s, k))
         /\ TaskDone(s, k).tasks = s.tasks \ {k}
         /\ TaskDone(s, k).optimistic = None
         /\ TaskDone(s, k).pristine = s.pristine
         /\ TaskDone(s, k).lastError = s.lastError /\ SameIds(TaskDone(s, k), s)
<1> DEFINE r == [s EXCEPT !.tasks = s.tasks \ {k}, !.optimistic = None]
<1>1. IsStore(r)
  BY DEF IsStore, Fields
<1>2. /\ r.tasks = s.tasks \ {k} /\ r.optimistic = None /\ r.pristine = s.pristine
      /\ r.lastError = s.lastError /\ SameIds(r, s)
  BY DEF IsStore, Fields, SameIds
<1> HIDE DEF r
<1>3. /\ Fresh(Flush(r)) /\ Flush(r).tasks = r.tasks
      /\ Flush(r).optimistic = r.optimistic /\ Flush(r).pristine = r.pristine
      /\ Flush(r).lastError = r.lastError /\ SameIds(Flush(r), r)
  BY <1>1, FlushResult
<1>4. TaskDone(s, k) = Flush(r)
  BY DEF TaskDone, r
<1> QED BY <1>2, <1>3, <1>4 DEF SameIds

LEMMA LoadedResult ==
  ASSUME NEW s, IsStore(s), NEW new
  PROVE  /\ Fresh(EntitiesLoaded(s, new))
         /\ EntitiesLoaded(s, new).tasks = s.tasks
         /\ EntitiesLoaded(s, new).optimistic = s.optimistic
         /\ EntitiesLoaded(s, new).pristine = Merged(s.pristine, new)
         /\ EntitiesLoaded(s, new).lastError = s.lastError /\ SameIds(EntitiesLoaded(s, new), s)
<1> DEFINE r == [s EXCEPT !.pristine = Merged(s.pristine, new)]
<1>1. IsStore(r)
  BY DEF IsStore, Fields
<1>2. /\ r.tasks = s.tasks /\ r.optimistic = s.optimistic
      /\ r.pristine = Merged(s.pristine, new)
      /\ r.lastError = s.lastError /\ SameIds(r, s)
  BY DEF IsStore, Fields, SameIds
<1> HIDE DEF r
<1>3. /\ Fresh(Flush(r)) /\ Flush(r).tasks = r.tasks
      /\ Flush(r).optimistic = r.optimistic /\ Flush(r).pristine = r.pristine
      /\ Flush(r).lastError = r.lastError /\ SameIds(Flush(r), r)
  BY <1>1, FlushResult
<1>4. EntitiesLoaded(s, new) = Flush(r)
  BY DEF EntitiesLoaded, r
<1> QED BY <1>2, <1>3, <1>4 DEF SameIds

(* The ids of the team and of the contest are no part of the entities. *)
LEMMA IdsResult ==
  ASSUME NEW s, Fresh(s), NEW r, NEW c, NEW t,
         \/ r = TeamChanged(s, t) /\ c = s.contestId
         \/ r = ContestChanged(s, c) /\ t = Unknown
         \/ r = LeavePressed(s) /\ c = s.contestId /\ t = None
  PROVE  /\ Fresh(r) /\ r.tasks = s.tasks
         /\ r.optimistic = s.optimistic /\ r.pristine = s.pristine
         /\ r.lastError = s.lastError /\ r.contestId = c /\ r.teamId = t
<1>1. CASE r = TeamChanged(s, t) /\ c = s.contestId
  BY <1>1 DEF TeamChanged, Fresh, IsStore, Fields
<1>2. CASE r = ContestChanged(s, c) /\ t = Unknown
  BY <1>2 DEF ContestChanged, Fresh, IsStore, Fields
<1>3. CASE r = LeavePressed(s) /\ c = s.contestId /\ t = None
  BY <1>3 DEF LeavePressed, Fresh, IsStore, Fields
<1> QED BY <1>1, <1>2, <1>3

-----------------------------------------------------------------------------
(* A step moves one saga; the invariant follows from what it does to the   *)
(* task list and to the optimistic change.                                 *)

Moves(k, v) ==
  /\ saga' = [j \in Task |-> saga'[j]]
  /\ saga'[k] = v
  /\ \A j \in Task \ {k} : saga'[j] = saga[j]

LEMMA ExceptMoves ==
  ASSUME IInv, NEW k \in Task, NEW v, saga' = [saga EXCEPT ![k] = v]
  PROVE  Moves(k, v)
BY DEF Moves, IInv

LEMMA TaskGoesOn ==
  ASSUME IInv, NEW k \in Task, NEW v, Moves(k, v), Busy(k), v.phase # "ended",
         Change(v.job) = Change(saga[k].job),
         v.job.kind = "key" => saga[k].job.kind = "key",
         Fresh(store'), store'.tasks = store.tasks, store'.optimistic = store.optimistic
  PROVE  IInv'
<1>1. \A j \in Task : Busy(j)' <=> Busy(j)
  BY DEF Moves, Busy
<1>2. \A j \in Task : Change(saga'[j].job) = Change(saga[j].job)
  BY DEF Moves
<1>3. \A j \in Task : saga'[j].job.kind = "key" => saga[j].job.kind = "key"
  BY DEF Moves
<1>4. TasksAreListed'
  BY <1>1 DEF IInv, TasksAreListed
<1>5. ShownIsPending'
  BY <1>1, <1>2 DEF IInv, ShownIsPending
<1>6. OneKeyTask'
  BY <1>1, <1>3 DEF IInv, OneKeyTask
<1>7. Fresh(store)' /\ saga' = [j \in Task |-> saga'[j]]
  BY DEF Moves
<1> QED BY <1>4, <1>5, <1>6, <1>7 DEF IInv

LEMMA TaskEnds ==
  ASSUME IInv, NEW k \in Task, Moves(k, Ended),
         Fresh(store'), store'.tasks = store.tasks \ {k}, store'.optimistic = None
  PROVE  IInv'
<1>1. \A j \in Task : Busy(j)' <=> Busy(j) /\ j # k
  BY DEF Moves, Busy, Ended
<1>2. \A j \in Task \ {k} : saga'[j].job = saga[j].job
  BY DEF Moves
<1>3. TasksAreListed'
  BY <1>1 DEF IInv, TasksAreListed
<1>4. ShownIsPending'
  BY DEF ShownIsPending
<1>5. OneKeyTask'
  BY <1>1, <1>2 DEF IInv, OneKeyTask
<1>6. Fresh(store)' /\ saga' = [j \in Task |-> saga'[j]]
  BY DEF Moves
<1> QED BY <1>3, <1>4, <1>5, <1>6 DEF IInv

(* The tasks of old end as k starts. *)
LEMMA TaskStarts ==
  ASSUME IInv, NEW k \in Task, NEW v, NEW old \in SUBSET Task, k \notin old,
         saga' = [j \in Task |-> IF j = k THEN v ELSE IF j \in old THEN Ended ELSE saga[j]],
         v.phase # "ended",
         v.job.kind = "key" => \A j \in Task \ old : ~(Busy(j) /\ saga[j].job.kind = "key"),
         Fresh(store'), store'.tasks = (store.tasks \ old) \cup {k},
         store'.optimistic = Change(v.job)
  PROVE  IInv'
<1>1. saga'[k] = v /\ \A j \in Task \ {k} : saga'[j] = IF j \in old THEN Ended ELSE saga[j]
  OBVIOUS
<1>2. \A j \in Task : Busy(j)' <=> j = k \/ (Busy(j) /\ j \notin old)
  BY <1>1 DEF Busy, Ended
<1>3. TasksAreListed'
  BY <1>2 DEF IInv, TasksAreListed
<1>4. ShownIsPending'
  BY <1>1, <1>2 DEF ShownIsPending
<1>5. OneKeyTask'
  BY <1>1, <1>2 DEF IInv, OneKeyTask
<1>6. Fresh(store)' /\ saga' = [j \in Task |-> saga'[j]]
  OBVIOUS
<1> QED BY <1>3, <1>4, <1>5, <1>6 DEF IInv

-----------------------------------------------------------------------------
(* What each kind of step does, field by field. *)

(* What the user may ask for. *)
Pressed ==
  IF TeamShown
  THEN [kind : {"leave", "code"}, contest : {None}, team : {store.teamId}, arg : {None}]
       \cup [kind : {"open"}, contest : {None}, team : {store.teamId}, arg : BOOLEAN]
       \cup [kind : {"key"}, contest : {None}, team : {store.teamId}, arg : Key]
  ELSE [kind : {"create"}, contest : {store.contestId}, team : {None}, arg : Name]
       \cup [kind : {"join"}, contest : {store.contestId}, team : {None}, arg : Code]

Starts(k, job) ==
  /\ job \in Pressed /\ MayAct /\ ~Busy(k) /\ UNCHANGED service
  /\ \E v \in {Sent(job), Asleep(job)}, old \in SUBSET (Task \ {k}) :
       saga' = [j \in Task |-> IF j = k THEN v ELSE IF j \in old THEN Ended ELSE saga[j]]
  /\ store'.pristine = store.pristine /\ store'.optimistic = Change(job)
  /\ store'.lastError = None /\ store'.contestId = store.contestId
  /\ store'.teamId = IF job.kind = "leave" THEN None ELSE store.teamId

Wakes(k) ==
  /\ In(k, "delay") /\ Moves(k, Sent(saga[k].job)) /\ UNCHANGED <<service, store>>

(* An answer loads what it carries, unless it is an error or true; the     *)
(* first of the two loads goes on with the second.                         *)
Loads(k)     == saga[k].answer.status = "view"
Fails(k)     == saga[k].answer.status \in {"error", "true"}
GoesOn(k)    == Loads(k) /\ saga[k].job.kind = "load"
ShowsTeam(k) ==
  /\ Loads(k)
  /\ \/ saga[k].job.kind = "load"
     \/ saga[k].job.kind \in {"create", "join"} /\ saga[k].answer.teamId # None

Delivers(k) ==
  /\ In(k, "answered") /\ UNCHANGED service
  /\ Moves(k, IF GoesOn(k) THEN Sent(Job("view", saga[k].job.contest, None, None)) ELSE Ended)
  /\ store'.pristine = store.pristine \/ store'.pristine = Merged(store.pristine, saga[k].answer.entities)
  /\ Loads(k) => store'.pristine = Merged(store.pristine, saga[k].answer.entities)
  /\ store'.optimistic = IF GoesOn(k) THEN store.optimistic ELSE None
  /\ store'.lastError \in IF Fails(k) THEN {"refused", "TypeError"} ELSE {store.lastError}
  /\ store'.contestId = store.contestId
  /\ store'.teamId = IF ShowsTeam(k) THEN saga[k].answer.teamId ELSE store.teamId

Loses(k) ==
  /\ In(k, "sent") \/ In(k, "answered")
  /\ Moves(k, Ended) /\ UNCHANGED service
  /\ store'.pristine = store.pristine /\ store'.optimistic = None /\ store'.lastError = "lost"
  /\ SameIds(store', store)

(* Another contest, or the team forgotten before anybody listens. *)
Chooses ==
  /\ UNCHANGED <<service, saga>>
  /\ store'.contestId \in Contest \cup {store.contestId} /\ store'.teamId \in {None, Unknown}
  /\ store'.pristine = store.pristine /\ store'.optimistic = store.optimistic
  /\ store'.lastError = store.lastError

-----------------------------------------------------------------------------
(* One lemma for each kind of step. *)

LEMMA InvInit == Init => IInv
<1> SUFFICES ASSUME Init PROVE IInv
  OBVIOUS
<1>1. PICK k \in Task, c \in Contest :
        /\ saga = [j \in Task |-> IF j = k THEN Sent(Job("load", c, None, None)) ELSE Ended]
        /\ store = [tasks |-> {k}, lastError |-> None, optimistic |-> None,
                    pristine |-> Unsent, entities |-> Overlaid(Unsent, None),
                    contestId |-> c, teamId |-> Unknown]
  BY DEF Init
<1>2. Fresh(store)
  BY <1>1 DEF Fresh, IsStore, Fields
<1>3. \A j \in Task : Busy(j) <=> j = k
  BY <1>1 DEF Busy, Sent, Ended
<1>4. TasksAreListed
  BY <1>1, <1>3 DEF TasksAreListed
<1>5. ShownIsPending
  BY <1>1 DEF ShownIsPending
<1>6. OneKeyTask
  BY <1>3 DEF OneKeyTask
<1>7. saga = [j \in Task |-> saga[j]]
  BY <1>1
<1> QED BY <1>2, <1>4, <1>5, <1>6, <1>7 DEF IInv

LEMMA StartStep ==
  ASSUME IInv, NEW k \in Task, NEW job \in Pressed, NEW s, Start(k, job, s), job.kind # "key",
         Fresh(s), s.tasks = store.tasks, s.pristine = store.pristine,
         s.contestId = store.contestId,
         s.teamId = IF job.kind = "leave" THEN None ELSE store.teamId
  PROVE  IInv' /\ Starts(k, job)
<1>1. /\ ~Busy(k) /\ MayAct /\ store' = TaskStarted(s, k, Change(job))
      /\ saga' = [saga EXCEPT ![k] = Sent(job)] /\ UNCHANGED service
  BY DEF Start
<1>2. /\ Fresh(store') /\ store'.tasks = (store.tasks \ {}) \cup {k}
      /\ store'.optimistic = Change(job) /\ store'.pristine = store.pristine
      /\ store'.lastError = None /\ SameIds(store', s)
  BY <1>1, StartedResult DEF Fresh
<1>3. Sent(job).job = job /\ Sent(job).phase # "ended"
  BY DEF Sent
<1>4. saga' = [j \in Task |-> IF j = k THEN Sent(job) ELSE IF j \in {} THEN Ended ELSE saga[j]]
  BY <1>1 DEF IInv
<1> DEFINE v == Sent(job)
           none == {}
<1>5. v.phase # "ended" /\ v.job.kind # "key" /\ store'.optimistic = Change(v.job)
  BY <1>2, <1>3
<1>6. none \in SUBSET (Task \ {k}) /\ k \notin none /\ store'.tasks = (store.tasks \ none) \cup {k}
  BY <1>2
<1>7. saga' = [j \in Task |-> IF j = k THEN v ELSE IF j \in none THEN Ended ELSE saga[j]]
  BY <1>4
<1>8. v \in {Sent(job), Asleep(job)}
  OBVIOUS
<1> HIDE DEF v, none
<1>9. IInv'
  BY <1>2, <1>5, <1>6, <1>7, TaskStarts
<1>10. Starts(k, job)
  BY <1>1, <1>2, <1>6, <1>7, <1>8 DEF Starts, SameIds
<1> QED BY <1>9, <1>10

LEMMA TypeKeyStep ==
  ASSUME IInv, NEW k \in Task, TypeKey(k)
  PROVE  IInv' /\ \E job : Starts(k, job)
<1>1. PICK x \in Key :
        LET job == Job("key", None, store.teamId, x)
            old == {j \in Task : Busy(j) /\ saga[j].job.kind = "key"} IN
        /\ \/ old = {} /\ store' = TaskStarted(store, k, Change(job))
           \/ \E j \in old : store' = TaskStarted(TaskDone(store, j), k, Change(job))
        /\ saga' = [j \in Task |-> IF j = k THEN Asleep(job)
                                   ELSE IF j \in old THEN Ended ELSE saga[j]]
  BY DEF TypeKey
<1> DEFINE job == Job("key", None, store.teamId, x)
           old == {j \in Task : Busy(j) /\ saga[j].job.kind = "key"}
<1>2. ~Busy(k) /\ MayAct /\ UNCHANGED service /\ job \in Pressed /\ job.kind = "key"
  BY DEF TypeKey, Pressed, Job
<1>3. k \notin old /\ old \in SUBSET (Task \ {k})
  BY <1>2
<1>4. Asleep(job).job = job /\ Asleep(job).phase # "ended" /\ Asleep(job) \in {Sent(job), Asleep(job)}
  BY DEF Asleep
<1>5. \A j \in Task \ old : ~(Busy(j) /\ saga[j].job.kind = "key")
  OBVIOUS
<1>6. /\ Fresh(store') /\ store'.tasks = (store.tasks \ old) \cup {k}
      /\ store'.optimistic = Change(job) /\ store'.pristine = store.pristine
      /\ store'.lastError = None /\ SameIds(store', store)
  <2>1. IsStore(store)
    BY DEF IInv, Fresh
  <2>2. CASE old = {} /\ store' = TaskStarted(store, k, Change(job))
    <3> HIDE DEF job, old
    <3> QED BY <2>1, <2>2, StartedResult
  <2>3. CASE \E j \in old : store' = TaskStarted(TaskDone(store, j), k, Change(job))
    <3>1. PICK j \in old : store' = TaskStarted(TaskDone(store, j), k, Change(job))
      BY <2>3
    <3>2. old = {j}
      BY DEF IInv, OneKeyTask
    <3> HIDE DEF job, old
    <3>3. /\ IsStore(TaskDone(store, j)) /\ TaskDone(store, j).tasks = store.tasks \ {j}
          /\ TaskDone(store, j).pristine = store.pristine /\ SameIds(TaskDone(store, j), store)
      BY <2>1, DoneResult DEF Fresh
    <3> QED BY <3>1, <3>2, <3>3, StartedResult DEF SameIds
  <2> QED BY <1>1, <2>2, <2>3
<1>7. saga' = [j \in Task |-> IF j = k THEN Asleep(job) ELSE IF j \in old THEN Ended ELSE saga[j]]
  BY <1>1
<1> HIDE DEF job, old
<1>8. Starts(k, job)
  BY <1>2, <1>3, <1>4, <1>6, <1>7 DEF Starts, SameIds
<1> QED BY <1>3, <1>4, <1>5, <1>6, <1>7, <1>8, TaskStarts

LEMMA PressStep ==
  ASSUME IInv, NEW k \in Task, Press(k)
  PROVE  IInv' /\ \E job : Starts(k, job)
<1>1. Fresh(store)
  BY DEF IInv
<1> USE DEF Job, Pressed
<1>2. CASE PressCreate(k)
  <2>1. PICK n \in Name : Start(k, Job("create", store.contestId, None, n), store)
    BY <1>2 DEF PressCreate
  <2>2. Job("create", store.contestId, None, n) \in Pressed
    BY <1>2 DEF PressCreate
  <2> QED BY <1>1, <2>1, <2>2, StartStep
<1>3. CASE PressJoin(k)
  <2>1. PICK x \in Code : Start(k, Job("join", store.contestId, None, x), store)
    BY <1>3 DEF PressJoin
  <2>2. Job("join", store.contestId, None, x) \in Pressed
    BY <1>3 DEF PressJoin
  <2> QED BY <1>1, <2>1, <2>2, StartStep
<1>4. CASE PressLeave(k)
  <2>1. Start(k, Job("leave", None, store.teamId, None), LeavePressed(store))
    BY <1>4 DEF PressLeave
  <2>2. Job("leave", None, store.teamId, None) \in Pressed
    BY <1>4 DEF PressLeave
  <2>3. /\ Fresh(LeavePressed(store)) /\ LeavePressed(store).tasks = store.tasks
        /\ LeavePressed(store).pristine = store.pristine
        /\ LeavePressed(store).contestId = store.contestId /\ LeavePressed(store).teamId = None
    BY <1>1, IdsResult
  <2> QED BY <2>1, <2>2, <2>3, StartStep
<1>5. CASE PressNewCode(k)
  <2>1. Start(k, Job("code", None, store.teamId, None), store)
    BY <1>5 DEF PressNewCode
  <2>2. Job("code", None, store.teamId, None) \in Pressed
    BY <1>5 DEF PressNewCode
  <2> QED BY <1>1, <2>1, <2>2, StartStep
<1>6. CASE PressOpen(k)
  <2>1. PICK b \in BOOLEAN : Start(k, Job("open", None, store.teamId, b), store)
    BY <1>6 DEF PressOpen
  <2>2. Job("open", None, store.teamId, b) \in Pressed
    BY <1>6 DEF PressOpen
  <2> QED BY <1>1, <2>1, <2>2, StartStep
<1> QED BY <1>2, <1>3, <1>4, <1>5, <1>6, TypeKeyStep DEF Press

LEMMA DelayOverStep ==
  ASSUME IInv, NEW k \in Task, DelayOver(k)
  PROVE  IInv' /\ Wakes(k)
<1> DEFINE v == Sent(saga[k].job)
<1>1. /\ saga' = [saga EXCEPT ![k] = v] /\ UNCHANGED <<service, store>>
      /\ In(k, "delay") /\ Busy(k)
  BY DEF DelayOver, In, Busy
<1>2. v.job = saga[k].job /\ v.phase # "ended"
  BY DEF Sent
<1> HIDE DEF v
<1>3. Moves(k, v)
  BY <1>1, ExceptMoves
<1>4. Fresh(store') /\ Wakes(k)
  BY <1>1, <1>3 DEF IInv, Wakes, v
<1> QED BY <1>1, <1>2, <1>3, <1>4, TaskGoesOn

(* Whatever the service makes of a request, its task gets an answer. *)
LEMMA HandledStep ==
  ASSUME IInv, NEW k \in Task, Handled(k)
  PROVE  IInv' /\ store' = store
<1>1. \E b : saga' = [saga EXCEPT ![k] = Answered(saga[k].job, b)]
  BY DEF Handled, Accepts, Reply
<1>2. PICK b : saga' = [saga EXCEPT ![k] = Answered(saga[k].job, b)]
  BY <1>1
<1> DEFINE v == Answered(saga[k].job, b)
<1>3. store' = store /\ Busy(k)
  BY DEF Handled, In, Busy
<1>4. v.job = saga[k].job /\ v.phase # "ended"
  BY DEF Answered
<1>5. Moves(k, v)
  BY <1>2, ExceptMoves
<1> HIDE DEF v
<1>6. Fresh(store')
  BY <1>3 DEF IInv
<1> QED BY <1>3, <1>4, <1>5, <1>6, TaskGoesOn

LEMMA DeliveredResult ==
  ASSUME NEW s, Fresh(s), NEW k, NEW job, NEW a
  PROVE  LET r == Delivered(s, k, job, a)
             more == a.status = "view" /\ job.kind = "load"
             shows == \/ more
                      \/ /\ a.status = "view" /\ job.kind \in {"create", "join"}
                         /\ a.teamId # None IN
         /\ Fresh(r) /\ r.contestId = s.contestId
         /\ more  => r.tasks = s.tasks /\ r.optimistic = s.optimistic
         /\ ~more => r.tasks = s.tasks \ {k} /\ r.optimistic = None
         /\ r.pristine = s.pristine \/ r.pristine = Merged(s.pristine, a.entities)
         /\ a.status = "view" => r.pristine = Merged(s.pristine, a.entities)
         /\ r.lastError \in IF a.status \in {"error", "true"} THEN {"refused", "TypeError"}
                           ELSE {s.lastError}
         /\ r.teamId = IF shows THEN a.teamId ELSE s.teamId
<1> DEFINE r == Delivered(s, k, job, a)
           more == a.status = "view" /\ job.kind = "load"
           shows == \/ more
                    \/ a.status = "view" /\ job.kind \in {"create", "join"} /\ a.teamId # None
           loaded == EntitiesLoaded(s, a.entities)
           error == IF a.status = "error" THEN "refused" ELSE "TypeError"
           failed == TaskFailed(s, k, error)
           shown == TeamChanged(loaded, a.teamId)
<1> SUFFICES /\ Fresh(r) /\ r.contestId = s.contestId
             /\ more  => r.tasks = s.tasks /\ r.optimistic = s.optimistic
             /\ ~more => r.tasks = s.tasks \ {k} /\ r.optimistic = None
             /\ r.pristine = s.pristine \/ r.pristine = Merged(s.pristine, a.entities)
             /\ a.status = "view" => r.pristine = Merged(s.pristine, a.entities)
             /\ r.lastError \in IF a.status \in {"error", "true"} THEN {"refused", "TypeError"}
                               ELSE {s.lastError}
             /\ r.teamId = IF shows THEN a.teamId ELSE s.teamId
  OBVIOUS
<1>1. IsStore(s)
  BY DEF Fresh
<1>2. /\ Fresh(loaded) /\ loaded.tasks = s.tasks /\ loaded.optimistic = s.optimistic
      /\ loaded.pristine = Merged(s.pristine, a.entities)
      /\ loaded.lastError = s.lastError /\ SameIds(loaded, s)
  BY <1>1, LoadedResult
<1>3. /\ Fresh(failed) /\ failed.tasks = s.tasks \ {k} /\ failed.pristine = s.pristine
      /\ failed.lastError = error /\ SameIds(failed, s)
  BY <1>1, FailedResult
<1>4. /\ Fresh(shown) /\ shown.tasks = s.tasks /\ shown.optimistic = s.optimistic
      /\ shown.pristine = loaded.pristine /\ shown.lastError = s.lastError
      /\ shown.contestId = s.contestId /\ shown.teamId = a.teamId
  <2> HIDE DEF loaded
  <2> QED BY <1>2, IdsResult DEF SameIds
<1>5. \/ a.status \in {"error", "true"} /\ r = TaskDone(failed, k)
      \/ more /\ r = shown
      \/ ~more /\ shows /\ r = TaskDone(shown, k)
      \/ a.status \notin {"error", "true"} /\ ~shows /\ r = TaskDone(loaded, k)
  <2> HIDE DEF loaded
  <2>1. CASE a.status = "error"
    BY <2>1 DEF Delivered
  <2>2. CASE a.status = "true"
    BY <2>2 DEF Delivered
  <2>3. CASE a.status = "view" /\ job.kind = "load"
    BY <2>3 DEF Delivered, loaded
  <2>4. CASE a.status = "view" /\ job.kind \in {"create", "join"} /\ a.teamId # None
    BY <2>4 DEF Delivered, loaded
  <2>5. CASE a.status \notin {"error", "true"} /\ ~shows
    BY <2>5 DEF Delivered, loaded
  <2> QED BY <2>1, <2>2, <2>3, <2>4, <2>5
<1>6. error \in {"refused", "TypeError"}
  OBVIOUS
<1>7. shows => a.status = "view"
  OBVIOUS
<1>8. more => a.status = "view" /\ shows
  OBVIOUS
<1> HIDE DEF loaded, more, r, failed, shown, shows, error
<1>9. CASE a.status \in {"error", "true"} /\ r = TaskDone(failed, k)
  <2>1. IsStore(failed)
    BY <1>3 DEF Fresh
  <2>2. /\ Fresh(r) /\ r.tasks = failed.tasks \ {k} /\ r.optimistic = None
        /\ r.pristine = failed.pristine /\ r.lastError = failed.lastError /\ SameIds(r, failed)
    BY <1>9, <2>1, DoneResult
  <2> QED BY <1>3, <1>6, <1>7, <1>8, <1>9, <2>2 DEF SameIds
<1>10. CASE more /\ r = shown
  BY <1>2, <1>4, <1>8, <1>10
<1>11. CASE ~more /\ shows /\ r = TaskDone(shown, k)
  <2>1. IsStore(shown)
    BY <1>4 DEF Fresh
  <2>2. /\ Fresh(r) /\ r.tasks = shown.tasks \ {k} /\ r.optimistic = None
        /\ r.pristine = shown.pristine /\ r.lastError = shown.lastError /\ SameIds(r, shown)
    BY <1>11, <2>1, DoneResult
  <2> QED BY <1>2, <1>4, <1>7, <1>11, <2>2 DEF SameIds
<1>12. CASE a.status \notin {"error", "true"} /\ ~shows /\ r = TaskDone(loaded, k)
  <2>1. IsStore(loaded)
    BY <1>2 DEF Fresh
  <2>2. /\ Fresh(r) /\ r.tasks = loaded.tasks \ {k} /\ r.optimistic = None
        /\ r.pristine = loaded.pristine /\ r.lastError = loaded.lastError /\ SameIds(r, loaded)
    BY <1>12, <2>1, DoneResult
  <2> QED BY <1>2, <1>8, <1>12, <2>2 DEF SameIds
<1> QED BY <1>5, <1>9, <1>10, <1>11, <1>12

LEMMA AnswerStep ==
  ASSUME IInv, NEW k \in Task, AnswerArrives(k)
  PROVE  IInv' /\ Delivers(k)
<1> DEFINE job == saga[k].job
           a == saga[k].answer
           more == a.status = "view" /\ job.kind = "load"
           next == Sent(Job("view", job.contest, None, None))
<1>1. /\ In(k, "answered") /\ store' = Delivered(store, k, job, a) /\ UNCHANGED service
      /\ saga' = [saga EXCEPT ![k] = IF more THEN next ELSE Ended]
  BY DEF AnswerArrives
<1>2. /\ Fresh(store') /\ store'.contestId = store.contestId
      /\ more  => store'.tasks = store.tasks /\ store'.optimistic = store.optimistic
      /\ ~more => store'.tasks = store.tasks \ {k} /\ store'.optimistic = None
      /\ store'.pristine = store.pristine \/ store'.pristine = Merged(store.pristine, a.entities)
      /\ a.status = "view" => store'.pristine = Merged(store.pristine, a.entities)
      /\ store'.lastError \in IF a.status \in {"error", "true"} THEN {"refused", "TypeError"}
                             ELSE {store.lastError}
      /\ store'.teamId = IF more \/ /\ a.status = "view" /\ job.kind \in {"create", "join"}
                                    /\ a.teamId # None
                         THEN a.teamId ELSE store.teamId
  <2>1. Fresh(store)
    BY DEF IInv
  <2> HIDE DEF job, a
  <2> QED BY <1>1, <2>1, DeliveredResult
<1>3. Moves(k, IF more THEN next ELSE Ended)
  <2> DEFINE v == IF more THEN next ELSE Ended
  <2>1. saga' = [saga EXCEPT ![k] = v]
    BY <1>1
  <2> HIDE DEF v
  <2>2. Moves(k, v)
    BY <2>1, ExceptMoves
  <2> QED BY <2>2 DEF v
<1>4. Delivers(k)
  BY <1>1, <1>2, <1>3 DEF Delivers, Loads, Fails, GoesOn, ShowsTeam
<1>5. CASE more
  <2>1. /\ next.phase # "ended" /\ next.job.kind # "key"
        /\ Change(next.job) = Change(saga[k].job) /\ Busy(k)
    BY <1>1, <1>5 DEF Sent, Job, Change, In, Busy
  <2>2. Moves(k, next)
    BY <1>3, <1>5
  <2> HIDE DEF next, more
  <2> QED BY <1>2, <1>4, <1>5, <2>1, <2>2, TaskGoesOn
<1>6. CASE ~more
  <2>1. Moves(k, Ended)
    BY <1>3, <1>6
  <2> QED BY <1>2, <1>4, <1>6, <2>1, TaskEnds
<1> QED BY <1>5, <1>6

LEMMA ConnectionLostStep ==
  ASSUME IInv, NEW k \in Task, ConnectionLost(k)
  PROVE  IInv' /\ Loses(k)
<1> DEFINE failed == TaskFailed(store, k, "lost")
<1>1. /\ store' = TaskDone(failed, k) /\ saga' = [saga EXCEPT ![k] = Ended]
      /\ In(k, "sent") \/ In(k, "answered")
      /\ UNCHANGED service
  BY DEF ConnectionLost
<1>2. /\ Fresh(failed) /\ failed.tasks = store.tasks \ {k} /\ failed.pristine = store.pristine
      /\ failed.lastError = "lost" /\ SameIds(failed, store)
  <2>1. IsStore(store)
    BY DEF IInv, Fresh
  <2> QED BY <2>1, FailedResult
<1> HIDE DEF failed
<1>3. /\ Fresh(store') /\ store'.tasks = store.tasks \ {k} /\ store'.optimistic = None
      /\ store'.pristine = store.pristine /\ store'.lastError = "lost" /\ SameIds(store', store)
  BY <1>1, <1>2, DoneResult DEF Fresh, SameIds
<1>4. Moves(k, Ended)
  BY <1>1, ExceptMoves
<1> QED BY <1>1, <1>3, <1>4, TaskEnds DEF Loses

LEMMA ChangeContestStep ==
  ASSUME IInv, ChangeContest
  PROVE  IInv' /\ Chooses
<1>1. PICK c \in Contest : store' = ContestChanged(store, c) /\ UNCHANGED <<service, saga>>
  BY DEF ChangeContest
<1>2. /\ Fresh(store') /\ store'.tasks = store.tasks
      /\ store'.optimistic = store.optimistic /\ store'.pristine = store.pristine
      /\ store'.lastError = store.lastError /\ store'.contestId = c /\ store'.teamId = Unknown
  BY <1>1, IdsResult DEF IInv
<1>3. TasksAreListed' /\ ShownIsPending' /\ OneKeyTask'
  BY <1>1, <1>2 DEF IInv, TasksAreListed, ShownIsPending, OneKeyTask, Busy
<1> QED BY <1>1, <1>2, <1>3 DEF IInv, Chooses

LEMMA LeaveUnheardStep ==
  ASSUME IInv, LeaveUnheard
  PROVE  IInv' /\ Chooses
<1>1. store' = LeavePressed(store) /\ UNCHANGED <<service, saga>>
  BY DEF LeaveUnheard
<1>2. /\ Fresh(store') /\ store'.tasks = store.tasks
      /\ store'.optimistic = store.optimistic /\ store'.pristine = store.pristine
      /\ store'.lastError = store.lastError /\ store'.contestId = store.contestId
      /\ store'.teamId = None
  BY <1>1, IdsResult DEF IInv
<1>3. TasksAreListed' /\ ShownIsPending' /\ OneKeyTask'
  BY <1>1, <1>2 DEF IInv, TasksAreListed, ShownIsPending, OneKeyTask, Busy
<1> QED BY <1>1, <1>2, <1>3 DEF IInv, Chooses

LEMMA InvUnchanged ==
  ASSUME IInv, UNCHANGED <<store, saga>>
  PROVE  IInv'
BY DEF IInv, Fresh, IsStore, TasksAreListed, ShownIsPending, OneKeyTask, Busy

(* The steps, by their effects. *)
Quiet == UNCHANGED <<store, saga>> /\ (Others \/ UNCHANGED service)

Effect ==
  \/ \E k \in Task : \E job : Starts(k, job)
  \/ \E k \in Task : Wakes(k) \/ Handled(k) \/ Delivers(k) \/ Loses(k)
  \/ Chooses \/ Quiet

LEMMA InvNext ==
  ASSUME IInv, [Next]_vars
  PROVE  IInv' /\ Effect
<1>1. CASE \E k \in Task : Press(k)
  BY <1>1, PressStep DEF Effect
<1>2. CASE \E k \in Task : Progress(k)
  BY <1>2, DelayOverStep, HandledStep, AnswerStep, ConnectionLostStep DEF Effect, Progress
<1>3. CASE ChangeContest \/ LeaveUnheard
  BY <1>3, ChangeContestStep, LeaveUnheardStep DEF Effect
<1>4. CASE Others \/ UNCHANGED vars
  <2>1. Quiet
    BY <1>4 DEF Others, Quiet, vars
  <2>2. IInv'
    BY <2>1, InvUnchanged DEF Quiet
  <2> QED BY <2>1, <2>2 DEF Effect
<1> QED BY <1>1, <1>2, <1>3, <1>4 DEF Next

-----------------------------------------------------------------------------
(* Types: the jobs of the sagas and the answers of the service. *)

Jobs ==
  [kind : {"create"}, contest : Contest, team : {None}, arg : Name]
  \cup [kind : {"join"}, contest : Contest, team : {None}, arg : Code]
  \cup [kind : {"load", "view"}, contest : Contest, team : {None}, arg : {None}]
  \cup [kind : {"leave", "code"}, contest : {None}, team : TeamId, arg : {None}]
  \cup [kind : {"open"}, contest : {None}, team : TeamId, arg : BOOLEAN]
  \cup [kind : {"key"}, contest : {None}, team : TeamId, arg : Key]

Answers == [status : {"error", "true", "view"}, teamId : TeamId \cup {None},
            entities : [TeamId -> StoredTeam]]

SagaTypes ==
  \A k \in Task :
    /\ saga[k].phase \in {"ended", "delay", "sent", "answered"}
    /\ Busy(k) => saga[k].job \in Jobs
    /\ In(k, "answered") => saga[k].answer \in Answers

StoreTypes ==
  /\ store.lastError \in Errors \cup {None}
  /\ store.pristine \in [TeamId -> StoredTeam]
  /\ store.contestId \in Contest
  /\ store.teamId \in TeamId \cup {None, Unknown}

TypeInv == ServiceInv /\ SagaTypes /\ StoreTypes

LEMMA FacetTypes ==
  ASSUME ServiceInv, NEW t \in TeamId, Here(t)
  PROVE  /\ AllFacets(t) \in StoredTeam
         /\ Main(t) \in MainFacet /\ Main(t).contest = team[t].contest
         /\ [main |-> Main(t), member |-> None, members |-> None] \in StoredTeam
<1>1. IsTeam(team[t], now)
  BY HereFacts
<1>2. Main(t) \in MainFacet /\ team[t].code \in Code /\ Main(t).contest = team[t].contest
  BY <1>1 DEF IsTeam, Main, MainFacet
<1>3. team[t].joined \in Roster
  <2> DEFINE us == DOMAIN team[t].joined
  <2>1. us \in SUBSET User /\ team[t].joined \in [us -> 0 .. now]
    BY <1>1 DEF IsTeam
  <2>2. 0 .. now \subseteq 0 .. MaxTime
    BY SizeAssumption DEF ServiceInv, Tables
  <2>3. [us -> 0 .. now] \subseteq [us -> 0 .. MaxTime]
    BY <2>2
  <2> QED BY <2>1, <2>3 DEF Roster
<1> QED BY <1>2, <1>3 DEF AllFacets, StoredTeam

LEMMA NullFacets ==
  /\ NoFacets \in StoredTeam
  /\ \A x \in MainFacet \cup Code \cup Roster \cup Settings \cup Errors : x # None
BY NullAssumption DEF NoFacets, StoredTeam

(* What the two kinds of view say of the service they are read from: that  *)
(* of the user's team of a contest, and that of the contest's teams.       *)
TeamView(a, c) ==
  /\ a \in Answers /\ a.status = "view"
  /\ a.teamId # None =>
       /\ WithMe(a.teamId) /\ team[a.teamId].contest = c
       /\ a.entities[a.teamId] = AllFacets(a.teamId)
  /\ \A t \in TeamId : t # a.teamId => a.entities[t] = NoFacets
  /\ \A t \in TeamId : WithMe(t) /\ team[t].contest = c => a.teamId = t

ContestView(a, c) ==
  /\ a \in Answers /\ a.status = "view" /\ a.teamId = None
  /\ \A t \in TeamId :
       \/ a.entities[t] = NoFacets
       \/ /\ Here(t) /\ team[t].contest = c
          /\ a.entities[t] = [main |-> Main(t), member |-> None, members |-> None]

LEMMA TeamAnswerIs ==
  ASSUME ServiceInv, NEW c, NEW a, a = TeamAnswer(c) PROVE TeamView(a, c)
<1> DEFINE mine == {t \in TeamId : WithMe(t) /\ team[t].contest = c}
<1>1. Unsent \in [TeamId -> StoredTeam] /\ \A t \in TeamId : Unsent[t] = NoFacets
  BY NullFacets DEF Unsent
<1>2. CASE mine = {}
  <2>1. a = [status |-> "view", teamId |-> None, entities |-> Unsent]
    BY <1>2 DEF TeamAnswer
  <2>2. a \in Answers
    BY <1>1, <2>1 DEF Answers
  <2> QED BY <1>1, <1>2, <2>1, <2>2 DEF TeamView
<1>3. CASE mine # {}
  <2> DEFINE t == CHOOSE t \in mine : TRUE
  <2>1. t \in TeamId /\ WithMe(t) /\ team[t].contest = c
    BY <1>3
  <2>2. a = [status |-> "view", teamId |-> t, entities |-> [Unsent EXCEPT ![t] = AllFacets(t)]]
    BY <1>3 DEF TeamAnswer
  <2>3. \A s \in TeamId : WithMe(s) /\ team[s].contest = c => s = t
    <3>1. ASSUME NEW s \in TeamId, WithMe(s), team[s].contest = c, s # t PROVE FALSE
      <4>1. Members(s) \cap Members(t) = {}
        BY <2>1, <3>1 DEF ServiceInv, MembershipsExclusive, WithMe
      <4> QED BY <2>1, <3>1, <4>1 DEF WithMe
    <3> QED BY <3>1
  <2> HIDE DEF mine, t
  <2>4. AllFacets(t) \in StoredTeam
    BY <2>1, FacetTypes DEF WithMe
  <2>5. /\ a.teamId = t /\ a.status = "view" /\ a.entities \in [TeamId -> StoredTeam]
        /\ a.entities[t] = AllFacets(t) /\ \A s \in TeamId : s # t => a.entities[s] = NoFacets
    BY <1>1, <2>1, <2>2, <2>4
  <2>6. a \in Answers
    BY <2>1, <2>2, <2>5 DEF Answers
  <2> QED BY <2>1, <2>3, <2>5, <2>6 DEF TeamView
<1> QED BY <1>2, <1>3

LEMMA ContestAnswerIs ==
  ASSUME ServiceInv, NEW c, NEW a, a = ContestAnswer(c) PROVE ContestView(a, c)
<1> DEFINE only(t) == [main |-> Main(t), member |-> None, members |-> None]
<1>1. /\ a.status = "view" /\ a.teamId = None
      /\ a = [status |-> "view", teamId |-> None, entities |-> a.entities]
      /\ a.entities = [t \in TeamId |-> IF Here(t) /\ team[t].contest = c THEN only(t) ELSE NoFacets]
  BY DEF ContestAnswer, NoFacets
<1>2. \A t \in TeamId : Here(t) => only(t) \in StoredTeam
  BY FacetTypes
<1>3. a.entities \in [TeamId -> StoredTeam]
  BY <1>1, <1>2, NullFacets
<1>4. a \in Answers
  BY <1>1, <1>3 DEF Answers
<1> QED BY <1>1, <1>4 DEF ContestView

LEMMA ViewsAre ==
  ServiceInv => \A c, a : (a = TeamAnswer(c) => TeamView(a, c)) /\ (a = ContestAnswer(c) => ContestView(a, c))
BY TeamAnswerIs, ContestAnswerIs

LEMMA ViewsAreNext ==
  (ServiceInv => \A c, a : (a = TeamAnswer(c) => TeamView(a, c)) /\ (a = ContestAnswer(c) => ContestView(a, c)))'
BY ViewsAre, PTL

(* The answer to a job, by the service as it is once the job is handled. *)
AnswersJob(job, a) ==
  /\ a \in Answers
  /\ a.status # "view" => a.entities = Unsent
  /\ a.status = "view" =>
       /\ job.kind # "leave"
       /\ job.kind = "view" => ContestView(a, job.contest)
       /\ job.kind \in {"load", "create", "join"} => TeamView(a, job.contest)
       /\ job.kind \in {"code", "open", "key"} =>
            WithMe(job.team) /\ TeamView(a, team[job.team].contest)

Handles(k, job, a) ==
  /\ In(k, "sent") /\ job = saga[k].job /\ Moves(k, Answered(job, a)) /\ UNCHANGED store
  /\ [ServiceNext]_service /\ AnswersJob(job, a)'

LEMMA RefusalIs ==
  /\ Refusal \in Answers /\ Refusal.status # "view" /\ Refusal.entities = Unsent
  /\ JustTrue \in Answers /\ JustTrue.status # "view" /\ JustTrue.entities = Unsent
<1>1. Unsent \in [TeamId -> StoredTeam]
  BY NullFacets DEF Unsent
<1> QED BY <1>1 DEF Answers, Refusal, JustTrue

(* A member who changes the team is still a member. *)
LEMMA StillWithMe ==
  ASSUME ServiceInv, NEW t \in TeamId,
         RenewCode(Me, t) \/ \E b \in BOOLEAN : SetOpen(Me, t, b)
  PROVE  WithMe(t)'
<1>1. Here(t) /\ Me \in Members(t) /\ IsTeam(team[t], now)
  BY HereFacts DEF RenewCode, SetOpen
<1>2. PICK r : team' = [team EXCEPT ![t] = r] /\ r.joined = team[t].joined /\ IsTeam(r, now)
  <2>1. CASE RenewCode(Me, t)
    <3>1. PICK k \in Code : team' = [team EXCEPT ![t].code = k]
      BY <2>1 DEF RenewCode
    <3> DEFINE r == [team[t] EXCEPT !.code = k]
    <3>2. team' = [team EXCEPT ![t] = r] /\ r.joined = team[t].joined /\ IsTeam(r, now)
      BY <1>1, <3>1 DEF IsTeam, ServiceInv, Tables
    <3> QED BY <3>2
  <2>2. CASE \E b \in BOOLEAN : SetOpen(Me, t, b)
    <3>1. PICK b \in BOOLEAN : team' = [team EXCEPT ![t].open = b]
      BY <2>2 DEF SetOpen
    <3> DEFINE r == [team[t] EXCEPT !.open = b]
    <3>2. team' = [team EXCEPT ![t] = r] /\ r.joined = team[t].joined /\ IsTeam(r, now)
      BY <1>1, <3>1 DEF IsTeam, ServiceInv, Tables
    <3> QED BY <3>2
  <2> QED BY <2>1, <2>2
<1>3. r # None /\ r # Gone
  BY <1>2, TeamsAreHere DEF ServiceInv, Tables
<1>4. team'[t] = r
  BY <1>2 DEF ServiceInv, Tables
<1> QED BY <1>1, <1>2, <1>3, <1>4 DEF WithMe, Here, Members

LEMMA RepliedResult ==
  ASSUME IInv, NEW k \in Task, NEW job, job = saga[k].job, In(k, "sent"), UNCHANGED store,
         [ServiceNext]_service, NEW a, Reply(k, a), AnswersJob(job, a)'
  PROVE  \E b : Handles(k, job, b)
<1>1. PICK b : b \in {a, Refusal} /\ saga' = [saga EXCEPT ![k] = Answered(job, b)]
  BY DEF Reply
<1>2. AnswersJob(job, b)'
  BY <1>1, RefusalIs DEF AnswersJob
<1> DEFINE v == Answered(job, b)
<1>3. saga' = [saga EXCEPT ![k] = v]
  BY <1>1
<1> HIDE DEF v
<1>4. Moves(k, v)
  BY <1>3, ExceptMoves
<1> QED BY <1>2, <1>4 DEF Handles, v

LEMMA HandledResult ==
  ASSUME IInv, TypeInv, NEW k \in Task, Handled(k)
  PROVE  \E job \in Jobs : \E a : Handles(k, job, a)
<1>1. PICK job \in Jobs : job = saga[k].job
  BY DEF Handled, In, Busy, TypeInv, SagaTypes
<1>2. ServiceInv /\ In(k, "sent") /\ UNCHANGED store /\ Me \in User
  BY MeAssumption DEF Handled, TypeInv
<1>3. ASSUME NEW a, Reply(k, a), [ServiceNext]_service, AnswersJob(job, a)'
      PROVE  \E b : Handles(k, job, b)
  BY <1>1, <1>2, <1>3, RepliedResult
<1>4. ASSUME [ServiceNext]_service
      PROVE  /\ ServiceInv'
             /\ \A c, a : a = TeamAnswer(c)' => TeamView(a, c)'
             /\ \A c, a : a = ContestAnswer(c)' => ContestView(a, c)'
  BY <1>2, <1>4, ServiceInvNext, ViewsAreNext
<1>5. CASE Reply(k, Refusal) /\ UNCHANGED service
  <2>1. AnswersJob(job, Refusal)'
    BY RefusalIs DEF AnswersJob
  <2> QED BY <1>3, <1>5, <2>1
<1>6. CASE Accepts(k)
  <2>1. CASE job.kind = "create" /\ Create(Me, job.contest, job.arg) /\ Reply(k, TeamAnswer(job.contest)')
    <3>1. ServiceNext
      BY <1>2, <2>1 DEF ServiceNext, Jobs
    <3>2. PICK a : a = TeamAnswer(job.contest)'
      OBVIOUS
    <3>3. AnswersJob(job, a)'
      BY <1>4, <2>1, <3>1, <3>2 DEF AnswersJob, TeamView
    <3> QED BY <1>3, <2>1, <3>1, <3>2, <3>3
  <2>2. CASE job.kind = "join" /\ Join(Me, job.contest, job.arg) /\ Reply(k, TeamAnswer(job.contest)')
    <3>1. ServiceNext
      BY <1>2, <2>2 DEF ServiceNext, Jobs
    <3>2. PICK a : a = TeamAnswer(job.contest)'
      OBVIOUS
    <3>3. AnswersJob(job, a)'
      BY <1>4, <2>2, <3>1, <3>2 DEF AnswersJob, TeamView
    <3> QED BY <1>3, <2>2, <3>1, <3>2, <3>3
  <2>3. CASE job.kind = "leave" /\ (Leave(Me, job.team) \/ UNCHANGED service) /\ Reply(k, JustTrue)
    <3>1. [ServiceNext]_service
      BY <1>2, <2>3 DEF ServiceNext, Jobs
    <3>2. AnswersJob(job, JustTrue)'
      BY RefusalIs DEF AnswersJob
    <3> QED BY <1>3, <2>3, <3>1, <3>2
  <2>4. CASE /\ job.kind \in {"code", "open"}
             /\ RenewCode(Me, job.team) \/ (job.arg \in BOOLEAN /\ SetOpen(Me, job.team, job.arg))
             /\ Reply(k, TeamAnswer(team[job.team].contest)')
    <3>1. ServiceNext /\ job.team \in TeamId
      BY <1>2, <2>4 DEF ServiceNext, Jobs
    <3>2. PICK a : a = TeamAnswer(team[job.team].contest)'
      OBVIOUS
    <3>3. PICK c : c = team'[job.team].contest
      OBVIOUS
    <3>4. WithMe(job.team)'
      BY <1>2, <2>4, <3>1, StillWithMe
    <3>5. TeamView(a, c)' /\ a = TeamAnswer(c)'
      BY <1>4, <3>1, <3>2, <3>3
    <3>6. AnswersJob(job, a)'
      BY <2>4, <3>3, <3>4, <3>5 DEF AnswersJob, TeamView
    <3> QED BY <1>3, <2>4, <3>1, <3>2, <3>6
  <2>5. CASE /\ job.kind = "key" /\ WithMe(job.team)
             /\ Reply(k, TeamAnswer(team[job.team].contest)) /\ UNCHANGED service
    <3>1. PICK a : a = TeamAnswer(team[job.team].contest)
      OBVIOUS
    <3>2. TeamView(a, team[job.team].contest)
      BY <1>2, <3>1, TeamAnswerIs
    <3>3. AnswersJob(job, a)'
      BY <2>5, <3>2
      DEF AnswersJob, TeamView, WithMe, Here, Members, AllFacets, Main, service
    <3> QED BY <1>3, <2>5, <3>1, <3>3
  <2>6. CASE job.kind = "load" /\ Reply(k, TeamAnswer(job.contest)) /\ UNCHANGED service
    <3>1. PICK a : a = TeamAnswer(job.contest)
      OBVIOUS
    <3>2. TeamView(a, job.contest)
      BY <1>2, <3>1, TeamAnswerIs
    <3>3. AnswersJob(job, a)'
      BY <2>6, <3>2
      DEF AnswersJob, TeamView, WithMe, Here, Members, AllFacets, Main, service
    <3> QED BY <1>3, <2>6, <3>1, <3>3
  <2>7. CASE job.kind = "view" /\ Reply(k, ContestAnswer(job.contest)) /\ UNCHANGED service
    <3>1. PICK a : a = ContestAnswer(job.contest)
      OBVIOUS
    <3>2. ContestView(a, job.contest)
      BY <1>2, <3>1, ContestAnswerIs
    <3>3. AnswersJob(job, a)'
      BY <2>7, <3>2
      DEF AnswersJob, ContestView, Here, Main, service
    <3> QED BY <1>3, <2>7, <3>1, <3>3
  <2>8. job.kind = "open" => job.arg \in BOOLEAN
    BY DEF Jobs
  <2> QED BY <1>1, <1>6, <2>1, <2>2, <2>3, <2>4, <2>5, <2>6, <2>7, <2>8 DEF Accepts
<1> QED BY <1>5, <1>6 DEF Handled

LEMMA MergedIs ==
  ASSUME NEW old \in [TeamId -> StoredTeam], NEW new \in [TeamId -> StoredTeam]
  PROVE  /\ Merged(old, new) \in [TeamId -> StoredTeam]
         /\ \A t \in TeamId :
              Merged(old, new)[t] =
                [main    |-> IF new[t].main = None THEN old[t].main ELSE new[t].main,
                 member  |-> IF new[t].member = None THEN old[t].member ELSE new[t].member,
                 members |-> IF new[t].members = None THEN old[t].members ELSE new[t].members]
<1>1. DOMAIN NoFacets = {"main", "member", "members"}
  BY DEF NoFacets
<1>2. \A t \in TeamId :
        Merged(old, new)[t] =
          [main    |-> IF new[t].main = None THEN old[t].main ELSE new[t].main,
           member  |-> IF new[t].member = None THEN old[t].member ELSE new[t].member,
           members |-> IF new[t].members = None THEN old[t].members ELSE new[t].members]
  BY <1>1 DEF Merged
<1>3. ASSUME NEW t \in TeamId PROVE Merged(old, new)[t] \in StoredTeam
  <2>1. old[t] \in StoredTeam /\ new[t] \in StoredTeam
    OBVIOUS
  <2>2. \A x \in {old[t], new[t]} : /\ x.main \in MainFacet \cup {None}
                                  /\ x.member \in Code \cup {None}
                                  /\ x.members \in Roster \cup {None}
    BY <2>1 DEF StoredTeam
  <2>3. \A a \in MainFacet \cup {None}, b \in Code \cup {None}, c \in Roster \cup {None} :
          [main |-> a, member |-> b, members |-> c] \in StoredTeam
    BY DEF StoredTeam
  <2>4. /\ (IF new[t].main = None THEN old[t].main ELSE new[t].main) \in MainFacet \cup {None}
        /\ (IF new[t].member = None THEN old[t].member ELSE new[t].member) \in Code \cup {None}
        /\ (IF new[t].members = None THEN old[t].members ELSE new[t].members) \in Roster \cup {None}
    BY <2>2
  <2> QED BY <1>2, <2>3, <2>4
<1>4. Merged(old, new) = [t \in TeamId |-> Merged(old, new)[t]]
  BY DEF Merged
<1>5. Merged(old, new) \in [TeamId -> StoredTeam]
  BY <1>3, <1>4
<1> QED BY <1>2, <1>5

LEMMA MergedMain ==
  ASSUME NEW old \in [TeamId -> StoredTeam], NEW new \in [TeamId -> StoredTeam], NEW t \in TeamId
  PROVE  Merged(old, new)[t].main = IF new[t].main = None THEN old[t].main ELSE new[t].main
<1>1. Merged(old, new)[t] =
        [main    |-> IF new[t].main = None THEN old[t].main ELSE new[t].main,
         member  |-> IF new[t].member = None THEN old[t].member ELSE new[t].member,
         members |-> IF new[t].members = None THEN old[t].members ELSE new[t].members]
  BY MergedIs
<1> QED BY <1>1

LEMMA PressedTypes == TypeInv => Pressed \subseteq Jobs
BY DEF Pressed, Jobs, TypeInv, StoreTypes, TeamShown

LEMMA TypeInit == Init => TypeInv
<1> SUFFICES ASSUME Init PROVE TypeInv
  OBVIOUS
<1>1. PICK k \in Task, c \in Contest :
        /\ saga = [j \in Task |-> IF j = k THEN Sent(Job("load", c, None, None)) ELSE Ended]
        /\ store = [tasks |-> {k}, lastError |-> None, optimistic |-> None,
                    pristine |-> Unsent, entities |-> Overlaid(Unsent, None),
                    contestId |-> c, teamId |-> Unknown]
  BY DEF Init
<1>2. ServiceInv
  BY ServiceInvInit DEF Init
<1>3. SagaTypes
  BY <1>1 DEF SagaTypes, Sent, Ended, Job, Jobs, Busy, In
<1>4. StoreTypes
  BY <1>1, NullFacets DEF StoreTypes, Unsent
<1> QED BY <1>2, <1>3, <1>4 DEF TypeInv

LEMMA TypeNext ==
  ASSUME IInv, TypeInv, [Next]_vars
  PROVE  TypeInv' /\ [ServiceNext]_service
<1>0. Effect
  BY InvNext
<1>1. SagaTypes' /\ StoreTypes' /\ [ServiceNext]_service
  <2> USE DEF TypeInv
  <2>1. ASSUME NEW k \in Task, NEW job, Starts(k, job)
        PROVE  SagaTypes' /\ StoreTypes' /\ [ServiceNext]_service
    <3>1. job \in Jobs
      BY <2>1, PressedTypes DEF Starts
    <3>2. SagaTypes'
      BY <2>1, <3>1 DEF Starts, SagaTypes, Sent, Asleep, Ended, Busy, In
    <3>3. StoreTypes'
      BY <2>1 DEF Starts, StoreTypes
    <3> QED BY <2>1, <3>2, <3>3 DEF Starts
  <2>2. ASSUME NEW k \in Task, Wakes(k)
        PROVE  SagaTypes' /\ StoreTypes' /\ [ServiceNext]_service
    <3>1. SagaTypes'
      BY <2>2 DEF Wakes, Moves, SagaTypes, Sent, Busy, In
    <3> QED BY <2>2, <3>1 DEF Wakes, StoreTypes
  <2>3. ASSUME NEW k \in Task, Handled(k)
        PROVE  SagaTypes' /\ StoreTypes' /\ [ServiceNext]_service
    <3>1. PICK job, a : job \in Jobs /\ Handles(k, job, a)
      BY <2>3, HandledResult
    <3>2. a \in Answers
      BY <3>1, NullFacets DEF Handles, AnswersJob
    <3>3. SagaTypes'
      BY <3>1, <3>2 DEF Handles, Moves, SagaTypes, Answered, Busy, In
    <3> QED BY <3>1, <3>3 DEF Handles, StoreTypes
  <2>4. ASSUME NEW k \in Task, Delivers(k)
        PROVE  SagaTypes' /\ StoreTypes' /\ [ServiceNext]_service
    <3>1. saga[k].answer \in Answers /\ saga[k].job \in Jobs
      BY <2>4 DEF Delivers, In, Busy, SagaTypes
    <3>2. GoesOn(k) => Job("view", saga[k].job.contest, None, None) \in Jobs
      BY <3>1 DEF GoesOn, Job, Jobs
    <3>3. SagaTypes'
      BY <2>4, <3>2 DEF Delivers, Moves, SagaTypes, Sent, Ended, Busy, In
    <3>4. store'.pristine \in [TeamId -> StoredTeam]
      BY <2>4, <3>1, MergedIs DEF Delivers, StoreTypes, Answers
    <3>5. StoreTypes'
      BY <2>4, <3>1, <3>4 DEF Delivers, StoreTypes, Errors, Answers
    <3> QED BY <2>4, <3>3, <3>5 DEF Delivers
  <2>5. ASSUME NEW k \in Task, Loses(k)
        PROVE  SagaTypes' /\ StoreTypes' /\ [ServiceNext]_service
    <3>1. SagaTypes'
      BY <2>5 DEF Loses, Moves, SagaTypes, Ended, Busy, In
    <3>2. StoreTypes'
      BY <2>5 DEF Loses, StoreTypes, SameIds, Errors
    <3> QED BY <2>5, <3>1, <3>2 DEF Loses
  <2>6. CASE Chooses
    BY <2>6 DEF Chooses, SagaTypes, StoreTypes, Busy, In
  <2>7. CASE Quiet
    BY <2>7 DEF Quiet, Others, SagaTypes, StoreTypes, Busy, In
  <2> QED BY <1>0, <2>1, <2>2, <2>3, <2>4, <2>5, <2>6, <2>7 DEF Effect
<1>2. ServiceInv'
  BY <1>1, ServiceInvNext DEF TypeInv
<1> QED BY <1>1, <1>2 DEF TypeInv

LEMMA ShownTypes ==
  ASSUME IInv, TypeInv
  PROVE  store.optimistic \in [team : TeamId, set : Settings] \cup {None}
<1>1. CASE store.optimistic # None
  <2>1. PICK k \in Task : Busy(k) /\ Change(saga[k].job) = store.optimistic
    BY <1>1 DEF IInv, ShownIsPending
  <2>2. saga[k].job \in Jobs /\ saga[k].job.kind \in {"open", "key"}
    BY <1>1, <2>1 DEF TypeInv, SagaTypes, Change
  <2> QED BY <2>1, <2>2 DEF Change, Jobs, Settings
<1> QED BY <1>1

-----------------------------------------------------------------------------
LEMMA InvHolds == Spec => [](IInv /\ TypeInv)
<1>1. IInv /\ TypeInv /\ [Next]_vars => IInv' /\ TypeInv'
  BY InvNext, TypeNext
<1> QED BY <1>1, InvInit, TypeInit, PTL DEF Spec

(* The store holds facets as the service sends them, and a saga that runs  *)
(* has a job and, once handled, an answer.                                 *)
THEOREM TypeCorrect == Spec => []TypeOK
<1>1. IInv /\ TypeInv => TypeOK
  <2> SUFFICES ASSUME IInv, TypeInv PROVE TypeOK
    OBVIOUS
  <2>1. ServiceTypeOK
    BY TablesAreTyped DEF TypeInv, ServiceInv
  <2>2. store.tasks \in SUBSET Task
    BY DEF IInv, TasksAreListed
  <2> QED BY <2>1, <2>2, ShownTypes DEF TypeOK, TypeInv, StoreTypes, SagaTypes
<1> QED BY <1>1, InvHolds, PTL

(* monitorBackendTask and takeLatest: the list of tasks is that of the     *)
(* tasks under way, however each of them ends.                             *)
THEOREM TasksListed == Spec => []TasksAreListed
<1>1. IInv => TasksAreListed
  BY DEF IInv
<1> QED BY <1>1, InvHolds, PTL

(* The optimistic change of the reducer is that of a task still under way. *)
THEOREM ShownPending == Spec => []ShownIsPending
<1>1. IInv => ShownIsPending
  BY DEF IInv
<1> QED BY <1>1, InvHolds, PTL

(* Every reducer that changes what the selectors read from flushes it.     *)
THEOREM ShownFresh == Spec => []ShowsWhatItHas
<1>1. IInv => ShowsWhatItHas
  BY DEF IInv, Fresh, ShowsWhatItHas
<1> QED BY <1>1, InvHolds, PTL

(* updateEntities: no answer takes away a facet it does not mention.       *)
THEOREM FacetsKept == Spec => FacetsAreKept
<1> DEFINE Kept == \A t \in TeamId, f \in {"main", "member", "members"} :
                     store.pristine[t][f] # None => store'.pristine[t][f] # None
<1>1. ASSUME IInv, [Next]_vars PROVE [Kept]_store
  <2>1. CASE store'.pristine = store.pristine
    BY <2>1
  <2>2. CASE \E e : store'.pristine = Merged(store.pristine, e)
    BY <2>2 DEF Merged, NoFacets
  <2>3. Effect
    BY <1>1, InvNext
  <2> QED BY <2>1, <2>2, <2>3
          DEF Effect, Starts, Wakes, Handled, Delivers, Loses, Chooses, Quiet
<1>2. IInv /\ [Next]_vars => [Kept]_store
  BY <1>1
<1> QED BY <1>2, InvHolds, PTL DEF Spec, FacetsAreKept

-----------------------------------------------------------------------------
(* The contest of a team never changes, and no id is handed out twice.     *)

Tells(e, t, c) == e[t].main # None /\ e[t].main.contest = c

Knows(t, c) ==
  \/ Tells(store.pristine, t, c)
  \/ \E k \in Task : In(k, "answered") /\ Tells(saga[k].answer.entities, t, c)
  \/ Here(t) /\ team[t].contest = c

OneContest ==
  \A t \in TeamId : \A c :
    Knows(t, c) => team[t] # None /\ \A d : Knows(t, d) => c = d

LEMMA ContestStays ==
  ASSUME ServiceInv, [ServiceNext]_service, NEW t \in TeamId, team[t] # None
  PROVE  team'[t] # None /\ (Here(t)' => Here(t) /\ team'[t].contest = team[t].contest)
<1>1. CASE OtherStep
  BY <1>1 DEF OtherStep, Here
<1>2. ASSUME NEW s \in TeamId, NEW v, NEW r, UserStep(v, s, r)
      PROVE  team'[t] # None /\ (Here(t)' => Here(t) /\ team'[t].contest = team[t].contest)
  <2>1. team'[t] = IF t = s THEN r ELSE team[t]
    BY <1>2 DEF UserStep, Writes
  <2>2. CASE t = s
    <3>1. r # None
      BY <1>2, StepAllowed, TeamsAreHere, GoneAssumption DEF Allowed, ServiceInv, Tables
    <3>2. Here(t)
      BY <1>2, <2>2 DEF UserStep
    <3>3. IsTeam(team[t], now)
      BY <3>2, HereFacts
    <3>4. r = Gone \/ r.contest = team[t].contest
      BY <1>2, <2>2, <3>3 DEF UserStep, IsTeam
    <3> QED BY <2>1, <2>2, <3>1, <3>2, <3>4 DEF Here
  <2>3. CASE t # s
    BY <2>1, <2>3 DEF Here
  <2> QED BY <2>2, <2>3
<1> QED BY <1>1, <1>2, Steps DEF ServiceInv

LEMMA AnswerTells ==
  ASSUME NEW job \in Jobs, NEW a, AnswersJob(job, a)', NEW t \in TeamId, NEW c,
         Tells(a.entities, t, c)
  PROVE  Here(t)' /\ team'[t].contest = c
<1>1. a.status = "view" /\ a.entities[t] # NoFacets
  BY DEF AnswersJob, Tells, Unsent, NoFacets
<1>2. \/ Here(t)' /\ a.entities[t] = AllFacets(t)'
      \/ Here(t)' /\ a.entities[t] = [main |-> Main(t)', member |-> None, members |-> None]
  BY <1>1, UnknownAssumption DEF AnswersJob, TeamView, ContestView, WithMe, Jobs
<1> QED BY <1>2 DEF Tells, AllFacets, Main

LEMMA KnowsNext ==
  ASSUME IInv, TypeInv, [Next]_vars, NEW t \in TeamId, NEW c, Knows(t, c)'
  PROVE  Knows(t, c) \/ (team[t] = None /\ Here(t)' /\ team'[t].contest = c)
<1>1. ASSUME Here(t)', team'[t].contest = c
      PROVE  Knows(t, c) \/ (team[t] = None /\ Here(t)' /\ team'[t].contest = c)
  BY <1>1, TypeNext, ContestStays DEF Knows, TypeInv
<1>2. \/ Knows(t, c)
      \/ Here(t)' /\ team'[t].contest = c
  <2>1. ASSUME store'.pristine = store.pristine,
               \A k \in Task : In(k, "answered")' => saga'[k] = saga[k] /\ In(k, "answered")
        PROVE  Knows(t, c) \/ (Here(t)' /\ team'[t].contest = c)
    BY <2>1 DEF Knows, Tells
  <2>2. ASSUME NEW k \in Task, NEW job, Starts(k, job)
        PROVE  Knows(t, c) \/ (Here(t)' /\ team'[t].contest = c)
    BY <2>1, <2>2 DEF Starts, Sent, Asleep, Ended, In
  <2>3. ASSUME NEW k \in Task, Wakes(k)
        PROVE  Knows(t, c) \/ (Here(t)' /\ team'[t].contest = c)
    BY <2>1, <2>3 DEF Wakes, Moves, Sent, In
  <2>4. ASSUME NEW k \in Task, Handled(k)
        PROVE  Knows(t, c) \/ (Here(t)' /\ team'[t].contest = c)
    <3>1. PICK job, a : job \in Jobs /\ Handles(k, job, a)
      BY <2>4, HandledResult
    <3>2. CASE Tells(a.entities, t, c)
      BY <3>1, <3>2, AnswerTells DEF Handles
    <3>3. CASE ~Tells(a.entities, t, c)
      <4>1. /\ store' = store /\ saga'[k].answer = a
            /\ \A j \in Task \ {k} : saga'[j] = saga[j]
        BY <3>1 DEF Handles, Moves, Answered
      <4> QED BY <3>3, <4>1 DEF Knows, Tells, In
    <3> QED BY <3>2, <3>3
  <2>5. ASSUME NEW k \in Task, Delivers(k)
        PROVE  Knows(t, c) \/ (Here(t)' /\ team'[t].contest = c)
    <3>1. \A j \in Task : In(j, "answered")' => saga'[j] = saga[j] /\ In(j, "answered")
      BY <2>5 DEF Delivers, Moves, Sent, Ended, In
    <3>2. CASE store'.pristine = store.pristine
      BY <2>1, <3>1, <3>2
    <3>3. CASE store'.pristine = Merged(store.pristine, saga[k].answer.entities)
      <4> DEFINE old == store.pristine
                 new == saga[k].answer.entities
      <4>1. old \in [TeamId -> StoredTeam] /\ new \in [TeamId -> StoredTeam]
        BY <2>5 DEF Delivers, TypeInv, SagaTypes, StoreTypes, Answers
      <4>2. store'.pristine[t].main \in {old[t].main, new[t].main}
        <5> HIDE DEF old, new
        <5>1. Merged(old, new)[t].main \in {old[t].main, new[t].main}
          BY <4>1, MergedMain
        <5> QED BY <3>3, <5>1 DEF old, new
      <4>3. In(k, "answered")
        BY <2>5 DEF Delivers
      <4>4. Tells(store'.pristine, t, c) =>
              Tells(store.pristine, t, c) \/ Tells(saga[k].answer.entities, t, c)
        BY <4>2 DEF Tells
      <4>5. ASSUME NEW j \in Task, In(j, "answered")', Tells(saga'[j].answer.entities, t, c)
            PROVE  Knows(t, c)
        BY <3>1, <4>5 DEF Knows
      <4> QED BY <4>3, <4>4, <4>5 DEF Knows
    <3> QED BY <2>5, <3>2, <3>3 DEF Delivers
  <2>6. ASSUME NEW k \in Task, Loses(k)
        PROVE  Knows(t, c) \/ (Here(t)' /\ team'[t].contest = c)
    BY <2>1, <2>6 DEF Loses, Moves, Ended, In
  <2>7. CASE Chooses
    BY <2>1, <2>7 DEF Chooses, In
  <2>8. CASE Quiet
    BY <2>1, <2>8 DEF Quiet, In
  <2> QED BY <2>2, <2>3, <2>4, <2>5, <2>6, <2>7, <2>8, InvNext DEF Effect
<1> QED BY <1>1, <1>2

LEMMA OneContestInit == Init => OneContest
<1> SUFFICES ASSUME Init PROVE OneContest
  OBVIOUS
<1>1. \A t \in TeamId : \A c : ~Knows(t, c)
  BY DEF Init, ServiceInit, Knows, Tells, Here, In, Sent, Ended, Unsent, NoFacets
<1> QED BY <1>1 DEF OneContest

LEMMA OneContestNext ==
  ASSUME IInv, TypeInv, OneContest, [Next]_vars
  PROVE  OneContest'
<1> SUFFICES ASSUME NEW t \in TeamId, NEW c, Knows(t, c)'
             PROVE  team'[t] # None /\ \A d : Knows(t, d)' => c = d
  BY DEF OneContest
<1>1. \A d : Knows(t, d)' => Knows(t, d) \/ (team[t] = None /\ Here(t)' /\ team'[t].contest = d)
  BY KnowsNext
<1>2. team[t] # None => team'[t] # None
  BY TypeNext, ContestStays DEF TypeInv
<1> QED BY <1>1, <1>2 DEF OneContest, Here

-----------------------------------------------------------------------------
(* An answer that shows a team tells its contest, which is that of the     *)
(* job, and so the team shown is loaded.                                   *)

ShownLoaded ==
  store.teamId \in TeamId => store.pristine[store.teamId].main # None

AnswersTell ==
  \A k \in Task : In(k, "answered") /\ ShowsTeam(k) /\ saga[k].answer.teamId # None =>
    Tells(saga[k].answer.entities, saga[k].answer.teamId, saga[k].job.contest)

ToldInv == OneContest /\ ShownLoaded /\ AnswersTell

LEMMA ToldTeamStays ==
  ASSUME IInv, TypeInv, OneContest, [Next]_vars, NEW t \in TeamId, NEW c,
         Tells(store.pristine, t, c)
  PROVE  Tells(store'.pristine, t, c)
<1>1. CASE store'.pristine = store.pristine
  BY <1>1 DEF Tells
<1>2. ASSUME NEW k \in Task, Delivers(k), store'.pristine = Merged(store.pristine, saga[k].answer.entities)
      PROVE  Tells(store'.pristine, t, c)
  <2> DEFINE new == saga[k].answer.entities
  <2>1. store.pristine \in [TeamId -> StoredTeam] /\ new \in [TeamId -> StoredTeam] /\ In(k, "answered")
    BY <1>2 DEF Delivers, TypeInv, SagaTypes, StoreTypes, Answers
  <2>2. ASSUME new[t].main # None PROVE new[t].main.contest = c
    <3>1. Tells(new, t, new[t].main.contest)
      BY <2>2 DEF Tells
    <3>2. Knows(t, new[t].main.contest) /\ Knows(t, c)
      BY <1>2, <2>1, <3>1 DEF Knows
    <3> QED BY <3>2 DEF OneContest
  <2> HIDE DEF new
  <2>3. Merged(store.pristine, new)[t].main = IF new[t].main = None THEN store.pristine[t].main ELSE new[t].main
    BY <2>1, MergedMain
  <2> QED BY <1>2, <2>2, <2>3 DEF Tells, new
<1>3. \/ store'.pristine = store.pristine
      \/ \E k \in Task :
           Delivers(k) /\ store'.pristine = Merged(store.pristine, saga[k].answer.entities)
  <2>1. ASSUME NEW k \in Task, NEW job, Starts(k, job) PROVE store'.pristine = store.pristine
    BY <2>1 DEF Starts
  <2>2. ASSUME NEW k \in Task, Wakes(k) \/ Handled(k) \/ Loses(k)
        PROVE  store'.pristine = store.pristine
    BY <2>2 DEF Wakes, Handled, Loses
  <2>3. ASSUME NEW k \in Task, Delivers(k)
        PROVE  \/ store'.pristine = store.pristine
               \/ store'.pristine = Merged(store.pristine, saga[k].answer.entities)
    BY <2>3 DEF Delivers
  <2>4. CASE Chooses \/ Quiet
    BY <2>4 DEF Chooses, Quiet
  <2> QED BY <2>1, <2>2, <2>3, <2>4, InvNext DEF Effect
<1> QED BY <1>1, <1>2, <1>3

(* The team an answer brings is loaded with it, and is of the contest the  *)
(* task was begun in.                                                      *)
LEMMA AnswerLoads ==
  ASSUME IInv, TypeInv, AnswersTell, NEW k \in Task, Delivers(k), ShowsTeam(k),
         saga[k].answer.teamId # None
  PROVE  Tells(store'.pristine, saga[k].answer.teamId, saga[k].job.contest)
<1> DEFINE new == saga[k].answer.entities
           t == saga[k].answer.teamId
<1>1. In(k, "answered") /\ Busy(k) /\ Loads(k)
  BY DEF Delivers, In, Busy, ShowsTeam
<1>2. /\ store.pristine \in [TeamId -> StoredTeam] /\ new \in [TeamId -> StoredTeam] /\ t \in TeamId
      /\ store'.pristine = Merged(store.pristine, new)
  BY <1>1 DEF Delivers, TypeInv, SagaTypes, StoreTypes, Answers
<1> DEFINE c == saga[k].job.contest
<1>3. Tells(new, t, c)
  BY <1>1 DEF AnswersTell, ShowsTeam
<1> HIDE DEF new, t, c
<1>4. Merged(store.pristine, new)[t].main = IF new[t].main = None THEN store.pristine[t].main ELSE new[t].main
  BY <1>2, MergedMain
<1> QED BY <1>2, <1>3, <1>4 DEF Tells, new, t, c

LEMMA ToldNext ==
  ASSUME IInv, TypeInv, ToldInv, [Next]_vars
  PROVE  ToldInv'
<1> DEFINE Goal == ShownLoaded' /\ AnswersTell'
<1>1. OneContest'
  BY OneContestNext DEF ToldInv
<1>2. ASSUME store'.teamId \in TeamId => store'.teamId = store.teamId PROVE ShownLoaded'
  <2>1. ASSUME store'.teamId \in TeamId PROVE store'.pristine[store'.teamId].main # None
    <3>1. store.pristine[store.teamId].main # None /\ store.teamId \in TeamId
      BY <1>2, <2>1 DEF ToldInv, ShownLoaded
    <3>2. Tells(store.pristine, store.teamId, store.pristine[store.teamId].main.contest)
      BY <3>1 DEF Tells
    <3>3. Tells(store'.pristine, store.teamId, store.pristine[store.teamId].main.contest)
      BY <3>1, <3>2, ToldTeamStays DEF ToldInv
    <3> QED BY <1>2, <2>1, <3>3 DEF Tells
  <2> QED BY <2>1 DEF ShownLoaded
<1>3. ASSUME \A j \in Task : In(j, "answered")' => saga'[j] = saga[j] /\ In(j, "answered")
      PROVE  AnswersTell'
  BY <1>3 DEF ToldInv, AnswersTell, ShowsTeam, Loads
<1>4. ASSUME NEW k \in Task, NEW job, Starts(k, job) PROVE Goal
  <2>1. \A j \in Task : In(j, "answered")' => saga'[j] = saga[j] /\ In(j, "answered")
    BY <1>4 DEF Starts, Sent, Asleep, Ended, In
  <2>2. store'.teamId \in TeamId => store'.teamId = store.teamId
    BY <1>4, UnknownAssumption DEF Starts
  <2> QED BY <1>2, <1>3, <2>1, <2>2
<1>5. ASSUME NEW k \in Task, Wakes(k) PROVE Goal
  <2>1. \A j \in Task : In(j, "answered")' => saga'[j] = saga[j] /\ In(j, "answered")
    BY <1>5 DEF Wakes, Moves, In, Sent
  <2> QED BY <1>2, <1>3, <1>5, <2>1 DEF Wakes
<1>6. ASSUME NEW k \in Task, Handled(k) PROVE Goal
  <2>1. PICK job, a : job \in Jobs /\ Handles(k, job, a)
    BY <1>6, HandledResult
  <2>2. /\ saga'[k] = Answered(job, a) /\ saga[k].job = job /\ store' = store
        /\ \A j \in Task \ {k} : saga'[j] = saga[j]
    BY <2>1 DEF Handles, Moves, Answered
  <2>3. ASSUME ShowsTeam(k)', a.teamId # None PROVE Tells(a.entities, a.teamId, job.contest)
    <3>1. a.status = "view" /\ job.kind \in {"load", "create", "join"} /\ AnswersJob(job, a)'
      BY <2>1, <2>2, <2>3 DEF ShowsTeam, Loads, Answered, Handles
    <3>2. /\ a.teamId \in TeamId /\ Here(a.teamId)' /\ team'[a.teamId].contest = job.contest
          /\ a.entities[a.teamId] = AllFacets(a.teamId)'
      BY <2>3, <3>1 DEF AnswersJob, TeamView, WithMe, Answers
    <3>3. ServiceInv'
      BY TypeNext DEF TypeInv
    <3>4. Main(a.teamId)' # None /\ Main(a.teamId)'.contest = team'[a.teamId].contest
      <4>1. IsTeam(team'[a.teamId], now')
        BY <3>2, <3>3 DEF ServiceInv, Tables
      <4>2. Main(a.teamId)' \in MainFacet
        BY <4>1 DEF IsTeam, Main, MainFacet
      <4> QED BY <4>2, NullFacets DEF Main
    <3> QED BY <3>2, <3>4 DEF Tells, AllFacets
  <2>4. AnswersTell'
    BY <2>2, <2>3 DEF ToldInv, AnswersTell, Answered, ShowsTeam, Loads, In
  <2> QED BY <1>2, <2>2, <2>4
<1>7. ASSUME NEW k \in Task, Delivers(k) PROVE Goal
  <2>1. \A j \in Task : In(j, "answered")' => saga'[j] = saga[j] /\ In(j, "answered")
    BY <1>7 DEF Delivers, Moves, Sent, Ended, In
  <2>2. CASE ShowsTeam(k)
    <3>1. store'.teamId = saga[k].answer.teamId
      BY <1>7, <2>2 DEF Delivers
    <3>2. ASSUME store'.teamId \in TeamId PROVE store'.pristine[store'.teamId].main # None
      <4>1. saga[k].answer.teamId # None
        BY <3>1, <3>2, UnknownAssumption
      <4>2. Tells(store'.pristine, saga[k].answer.teamId, saga[k].job.contest)
        BY <1>7, <2>2, <4>1, AnswerLoads DEF ToldInv
      <4> QED BY <3>1, <4>2 DEF Tells
    <3>3. ShownLoaded'
      BY <3>2 DEF ShownLoaded
    <3> QED BY <1>3, <2>1, <3>3
  <2>3. CASE ~ShowsTeam(k)
    BY <1>2, <1>3, <1>7, <2>1, <2>3 DEF Delivers
  <2> QED BY <2>2, <2>3
<1>8. ASSUME NEW k \in Task, Loses(k) PROVE Goal
  <2>1. \A j \in Task : In(j, "answered")' => saga'[j] = saga[j] /\ In(j, "answered")
    BY <1>8 DEF Loses, Moves, Ended, In
  <2> QED BY <1>2, <1>3, <1>8, <2>1 DEF Loses, SameIds
<1>9. ASSUME Chooses PROVE Goal
  BY <1>2, <1>3, <1>9, UnknownAssumption DEF Chooses, In
<1>10. ASSUME Quiet PROVE Goal
  BY <1>2, <1>3, <1>10 DEF Quiet, In
<1> HIDE DEF Goal
<1>11. Goal
  BY <1>4, <1>5, <1>6, <1>7, <1>8, <1>9, <1>10, InvNext DEF Effect
<1> QED BY <1>1, <1>11 DEF ToldInv, Goal

LEMMA ToldInit == Init => ToldInv
<1> SUFFICES ASSUME Init PROVE ToldInv
  OBVIOUS
<1>1. PICK k \in Task, c \in Contest :
        /\ saga = [j \in Task |-> IF j = k THEN Sent(Job("load", c, None, None)) ELSE Ended]
        /\ store = [tasks |-> {k}, lastError |-> None, optimistic |-> None,
                    pristine |-> Unsent, entities |-> Overlaid(Unsent, None),
                    contestId |-> c, teamId |-> Unknown]
  BY DEF Init
<1>2. ShownLoaded
  BY <1>1, UnknownAssumption DEF ShownLoaded
<1>3. AnswersTell
  BY <1>1 DEF AnswersTell, Ended, Sent, In
<1> QED BY <1>2, <1>3, OneContestInit DEF ToldInv

LEMMA ToldHolds == Spec => [](IInv /\ TypeInv /\ ToldInv)
<1>1. IInv /\ TypeInv /\ ToldInv /\ [Next]_vars => ToldInv'
  BY ToldNext
<1> QED BY <1>1, InvHolds, ToldInit, PTL DEF Spec

(* No press, no change of contest and no answer to a task begun in the     *)
(* contest shown brings the team of another contest.                       *)
LEMMA OnlyLate ==
  ASSUME IInv, TypeInv, ToldInv, [Next]_vars, TeamIsOfContest, ~TeamIsOfContest'
  PROVE  \E k \in Task :
           /\ In(k, "answered") /\ ~In(k, "answered")'
           /\ saga[k].job.kind \in {"load", "create", "join"}
           /\ saga[k].job.contest # store.contestId
<1>1. store'.teamId \in TeamId
  BY DEF TeamIsOfContest
<1>2. ASSUME store'.teamId = store.teamId, store'.contestId = store.contestId PROVE FALSE
  <2>1. store.teamId \in TeamId /\ Tells(store.pristine, store.teamId, store.contestId)
    BY <1>1, <1>2 DEF ToldInv, ShownLoaded, TeamIsOfContest, Tells
  <2>2. Tells(store'.pristine, store.teamId, store.contestId)
    BY <2>1, ToldTeamStays DEF ToldInv
  <2> QED BY <1>2, <2>2 DEF TeamIsOfContest, Tells
<1>3. ASSUME NEW k \in Task, NEW job, Starts(k, job) PROVE FALSE
  BY <1>1, <1>2, <1>3, UnknownAssumption DEF Starts
<1>4. ASSUME NEW k \in Task, Wakes(k) \/ Handled(k) \/ Loses(k) PROVE FALSE
  BY <1>2, <1>4 DEF Wakes, Handled, Loses, SameIds
<1>5. ASSUME Chooses PROVE FALSE
  BY <1>1, <1>5, UnknownAssumption DEF Chooses
<1>6. ASSUME Quiet PROVE FALSE
  BY <1>2, <1>6 DEF Quiet
<1>7. ASSUME NEW k \in Task, Delivers(k)
      PROVE  /\ In(k, "answered") /\ ~In(k, "answered")'
             /\ saga[k].job.kind \in {"load", "create", "join"}
             /\ saga[k].job.contest # store.contestId
  <2>1. In(k, "answered") /\ ~In(k, "answered")' /\ store'.contestId = store.contestId
    BY <1>7 DEF Delivers, Moves, Sent, Ended, In
  <2>2. ShowsTeam(k) /\ store'.teamId = saga[k].answer.teamId
    BY <1>2, <1>7 DEF Delivers
  <2>3. Tells(store'.pristine, store'.teamId, saga[k].job.contest)
    <3>1. saga[k].answer.teamId # None
      BY <1>1, <2>2, UnknownAssumption
    <3> QED BY <1>7, <2>2, <3>1, AnswerLoads DEF ToldInv
  <2>4. saga[k].job.contest # store.contestId
    BY <2>1, <2>3 DEF Tells, TeamIsOfContest
  <2> QED BY <2>1, <2>2, <2>4 DEF ShowsTeam
<1> QED BY <1>3, <1>4, <1>5, <1>6, <1>7, InvNext DEF Effect

-----------------------------------------------------------------------------
(* What is on the screen of a change under way depends on the optimistic   *)
(* change of the store alone, which no step touches but the start and the  *)
(* end of a task.                                                          *)

LEMMA PendingNext ==
  ASSUME IInv, TypeInv, TypeInv', IInv', [Next]_vars,
         NEW k \in Task, Busy(k)', Change(saga'[k].job) # None
  PROVE  \/ Shown(k)'
         \/ Busy(k) /\ ~Shown(k)
         \/ Busy(k) /\ \E j \in Task \ {k} : Busy(j) # Busy(j)'
<1>1. saga'[k].job \in Jobs /\ saga'[k].job.team \in TeamId /\ Change(saga'[k].job).team = saga'[k].job.team
  BY DEF TypeInv, SagaTypes, Change, Jobs
<1>2. /\ store'.entities[saga'[k].job.team].over =
           IF store'.optimistic # None /\ store'.optimistic.team = saga'[k].job.team
           THEN store'.optimistic.set ELSE None
      /\ store.entities[saga'[k].job.team].over =
           IF store.optimistic # None /\ store.optimistic.team = saga'[k].job.team
           THEN store.optimistic.set ELSE None
  BY <1>1 DEF IInv, Fresh, Overlaid
<1>3. ASSUME store'.optimistic = store.optimistic, saga'[k].job = saga[k].job, Busy(k)
      PROVE  Shown(k)' \/ (Busy(k) /\ ~Shown(k))
  BY <1>2, <1>3 DEF Shown
<1>4. ASSUME NEW i \in Task, NEW job, Starts(i, job)
      PROVE  Shown(k)' \/ (Busy(k) /\ \E j \in Task \ {k} : Busy(j) # Busy(j)')
  <2>1. CASE i = k
    <3>1. saga'[k].job = job /\ store'.optimistic = Change(job)
      BY <1>4, <2>1 DEF Starts, Sent, Asleep
    <3> QED BY <1>1, <1>2, <3>1 DEF Shown
  <2>2. CASE i # k
    <3>1. Busy(k) /\ ~Busy(i) /\ Busy(i)'
      BY <1>4, <2>2 DEF Starts, Sent, Asleep, Ended, Busy
    <3> QED BY <2>2, <3>1
  <2> QED BY <2>1, <2>2
<1>5. ASSUME NEW i \in Task, Wakes(i) PROVE Shown(k)' \/ (Busy(k) /\ ~Shown(k))
  BY <1>3, <1>5 DEF Wakes, Moves, Sent, Busy, In
<1>6. ASSUME NEW i \in Task, Handled(i) PROVE Shown(k)' \/ (Busy(k) /\ ~Shown(k))
  <2>1. PICK job, a : job \in Jobs /\ Handles(i, job, a)
    BY <1>6, HandledResult
  <2> QED BY <1>3, <2>1 DEF Handles, Moves, Answered, Busy, In
<1>7. ASSUME NEW i \in Task, Delivers(i)
      PROVE  \/ Shown(k)' \/ (Busy(k) /\ ~Shown(k))
             \/ Busy(k) /\ \E j \in Task \ {k} : Busy(j) # Busy(j)'
  <2>1. CASE GoesOn(i)
    <3>1. saga'[i] = Sent(Job("view", saga[i].job.contest, None, None)) /\ store'.optimistic = store.optimistic
      BY <1>7, <2>1 DEF Delivers, Moves
    <3>2. i # k
      BY <3>1 DEF Sent, Job, Change
    <3>3. saga'[k] = saga[k]
      BY <1>7, <3>2 DEF Delivers, Moves
    <3> QED BY <1>3, <3>1, <3>3 DEF Busy
  <2>2. CASE ~GoesOn(i)
    <3>1. saga'[i] = Ended /\ Busy(i) /\ ~Busy(i)'
      BY <1>7, <2>2 DEF Delivers, Moves, Ended, Busy, In
    <3>2. i # k
      BY <3>1
    <3>3. saga'[k] = saga[k]
      BY <1>7, <3>2 DEF Delivers, Moves
    <3> QED BY <3>1, <3>2, <3>3 DEF Busy
  <2> QED BY <2>1, <2>2
<1>8. ASSUME NEW i \in Task, Loses(i)
      PROVE  Busy(k) /\ \E j \in Task \ {k} : Busy(j) # Busy(j)'
  <2>1. saga'[i] = Ended /\ Busy(i) /\ ~Busy(i)'
    BY <1>8 DEF Loses, Moves, Ended, Busy, In
  <2>2. i # k
    BY <2>1
  <2>3. saga'[k] = saga[k]
    BY <1>8, <2>2 DEF Loses, Moves
  <2> QED BY <2>1, <2>2, <2>3 DEF Busy
<1>9. ASSUME Chooses \/ Quiet PROVE Shown(k)' \/ (Busy(k) /\ ~Shown(k))
  BY <1>3, <1>9 DEF Chooses, Quiet, Busy
<1> QED BY <1>4, <1>5, <1>6, <1>7, <1>8, <1>9, InvNext DEF Effect

-----------------------------------------------------------------------------
(* A user who waits for each task to end. *)

OneTask == \A j, k \in Task : Busy(j) /\ Busy(k) => j = k

(* A task that starts is the only one. *)
LEMMA StartsAlone ==
  ASSUME OneAtATime, NEW k \in Task, NEW job, Starts(k, job)
  PROVE  /\ \A j \in Task : ~Busy(j) /\ (Busy(j)' <=> j = k)
         /\ saga'[k].job = job /\ ~In(k, "answered")'
BY DEF Starts, MayAct, Busy, In, Sent, Asleep, Ended

LEMMA OneTaskNext ==
  ASSUME OneAtATime, IInv, TypeInv, OneTask, [Next]_vars
  PROVE  OneTask'
<1>1. ASSUME \A j \in Task : Busy(j)' => Busy(j) PROVE OneTask'
  BY <1>1 DEF OneTask
<1>2. ASSUME NEW k \in Task, NEW job, Starts(k, job) PROVE OneTask'
  BY <1>2, StartsAlone DEF OneTask
<1>3. ASSUME NEW k \in Task, Handled(k) PROVE OneTask'
  <2>1. PICK job, a : job \in Jobs /\ Handles(k, job, a)
    BY <1>3, HandledResult
  <2> QED BY <1>1, <2>1 DEF Handles, Moves, Answered, Busy, In
<1>4. ASSUME NEW k \in Task, Wakes(k) \/ Delivers(k) \/ Loses(k) PROVE OneTask'
  BY <1>1, <1>4 DEF Wakes, Delivers, Loses, Moves, Busy, In, Ended
<1>5. ASSUME Chooses \/ Quiet PROVE OneTask'
  BY <1>1, <1>5 DEF Chooses, Quiet, Busy
<1> QED BY <1>2, <1>3, <1>4, <1>5, InvNext DEF Effect

LEMMA OneTaskInit == Init => OneTask
BY DEF Init, OneTask, Busy, Ended

LEMMA OneTaskHolds == ASSUME OneAtATime PROVE Spec => [](IInv /\ TypeInv /\ OneTask)
<1>1. IInv /\ TypeInv /\ OneTask /\ [Next]_vars => OneTask'
  BY OneTaskNext
<1> QED BY <1>1, InvHolds, OneTaskInit, PTL DEF Spec

-----------------------------------------------------------------------------
(* When the others leave the user's teams alone, an answer that waits for  *)
(* the browser still says what the service has of them.                    *)

Whole(e, t) == WithMe(t) /\ e[t] = AllFacets(t)

OnlyMain(t) == [main |-> Main(t), member |-> None, members |-> None]

Carries(job, a) ==
  /\ job.kind \in {"load", "create", "join"} /\ a.teamId # None => Whole(a.entities, a.teamId)
  /\ job.kind = "view" => \A t \in TeamId : WithMe(t) => a.entities[t] \in {NoFacets, OnlyMain(t)}
  /\ job.kind \in {"code", "open", "key"} => Whole(a.entities, job.team)

Following(k) ==
  LET job == saga[k].job IN
  /\ store.lastError = None
  /\ job.kind \in {"load", "create", "join", "leave"} => store.teamId \notin TeamId
  /\ job.kind = "view" /\ store.teamId \in TeamId => Whole(store.pristine, store.teamId)
  /\ job.kind \in {"code", "open", "key"} /\ store.teamId \in TeamId => store.teamId = job.team
  /\ In(k, "answered") /\ Loads(k) => Carries(job, saga[k].answer)

InStepInv == InStep /\ \A k \in Task : Busy(k) => Following(k)

(* The teams of Me are the same before and after. *)
MineKept == \A t \in TeamId : WithMe(t) \/ WithMe(t)' => team'[t] = team[t]

LEMMA WholeKept ==
  ASSUME MineKept, NEW t \in TeamId
  PROVE  /\ WithMe(t)' <=> WithMe(t)
         /\ WithMe(t) => AllFacets(t)' = AllFacets(t) /\ OnlyMain(t)' = OnlyMain(t)
<1>1. ASSUME team'[t] = team[t]
      PROVE  (WithMe(t)' <=> WithMe(t)) /\ AllFacets(t)' = AllFacets(t) /\ OnlyMain(t)' = OnlyMain(t)
  BY <1>1 DEF WithMe, Here, Members, AllFacets, OnlyMain, Main
<1> QED BY <1>1 DEF MineKept

LEMMA OthersKeepMine ==
  ASSUME "others" \notin Env, Others \/ UNCHANGED service
  PROVE  MineKept
BY DEF Others, MineKept, service

LEMMA MergedWhole ==
  ASSUME ServiceInv, NEW t \in TeamId,
         NEW old \in [TeamId -> StoredTeam], NEW new \in [TeamId -> StoredTeam],
         \/ Whole(new, t)
         \/ Whole(old, t) /\ new[t] \in {NoFacets, OnlyMain(t)}
  PROVE  Whole(Merged(old, new), t)
<1>1. WithMe(t) /\ Here(t) /\ IsTeam(team[t], now)
  BY HereFacts DEF Whole, WithMe
<1> DEFINE m == Main(t)
           c == team[t].code
           j == team[t].joined
<1>2. m # None /\ c # None /\ j # None
  <2>1. AllFacets(t) \in StoredTeam /\ Main(t) \in MainFacet
    BY <1>1, FacetTypes
  <2>2. c \in Code
    BY <1>1 DEF IsTeam
  <2>3. j \in Roster
    <3> DEFINE us == DOMAIN j
    <3>1. us \in SUBSET User /\ j \in [us -> 0 .. now]
      BY <1>1 DEF IsTeam
    <3>2. 0 .. now \subseteq 0 .. MaxTime
      BY SizeAssumption DEF ServiceInv, Tables
    <3>3. [us -> 0 .. now] \subseteq [us -> 0 .. MaxTime]
      BY <3>2
    <3> QED BY <3>1, <3>3 DEF Roster
  <2> QED BY <2>1, <2>2, <2>3, NullFacets
<1>3. AllFacets(t) = [main |-> m, member |-> c, members |-> j]
  BY DEF AllFacets
<1>4. Merged(old, new)[t] =
        [main    |-> IF new[t].main = None THEN old[t].main ELSE new[t].main,
         member  |-> IF new[t].member = None THEN old[t].member ELSE new[t].member,
         members |-> IF new[t].members = None THEN old[t].members ELSE new[t].members]
  BY MergedIs
<1>5. CASE Whole(new, t)
  <2>1. new[t].main = m /\ new[t].member = c /\ new[t].members = j
    BY <1>3, <1>5 DEF Whole
  <2> HIDE DEF m, c, j
  <2> QED BY <1>1, <1>2, <1>3, <1>4, <2>1 DEF Whole
<1>6. CASE Whole(old, t) /\ new[t] \in {NoFacets, OnlyMain(t)}
  <2>1. /\ old[t].main = m /\ old[t].member = c /\ old[t].members = j
        /\ new[t].main \in {None, m} /\ new[t].member = None /\ new[t].members = None
    BY <1>3, <1>6 DEF Whole, NoFacets, OnlyMain
  <2> HIDE DEF m, c, j
  <2> QED BY <1>1, <1>2, <1>3, <1>4, <2>1 DEF Whole
<1> QED BY <1>5, <1>6

(* What the service answers to Me is what it has. *)
LEMMA AnswerCarries ==
  ASSUME NEW job \in Jobs, NEW a, AnswersJob(job, a), a.status = "view"
  PROVE  Carries(job, a)
<1>1. ASSUME job.kind \in {"code", "open", "key"} PROVE Whole(a.entities, job.team)
  <2>1. job.team \in TeamId
    BY <1>1 DEF Jobs
  <2>2. WithMe(job.team) /\ a.teamId = job.team
    BY <1>1, <2>1 DEF AnswersJob, TeamView
  <2> QED BY <1>1, <2>1, <2>2, UnknownAssumption DEF AnswersJob, TeamView, Whole
<1> QED BY <1>1 DEF AnswersJob, TeamView, ContestView, Carries, Whole, OnlyMain

LEMMA AnswersCarry ==
  \A job \in Jobs : \A a : AnswersJob(job, a) /\ a.status = "view" => Carries(job, a)
BY AnswerCarries

LEMMA AnswersCarryNext ==
  (\A job \in Jobs : \A a : AnswersJob(job, a) /\ a.status = "view" => Carries(job, a))'
BY AnswersCarry, PTL


LEMMA ViewIsRead ==
  ASSUME NEW k \in Task, Handled(k), saga[k].job.kind = "view" PROVE UNCHANGED service
BY DEF Handled, Accepts

(* A step of a saga while the tables stay as they are. *)
LEMMA StandsStill ==
  ASSUME UNCHANGED service
  PROVE  /\ \A e : \A t \in TeamId : Whole(e, t)' <=> Whole(e, t)
         /\ \A job \in Jobs, a \in Answers : Carries(job, a) => Carries(job, a)'
<1>1. MineKept
  BY DEF MineKept, service
<1>2. \A e : \A t \in TeamId : Whole(e, t)' <=> Whole(e, t)
  BY <1>1, WholeKept DEF Whole
<1>3. ASSUME NEW job \in Jobs, NEW a \in Answers, Carries(job, a) PROVE Carries(job, a)'
  BY <1>1, <1>2, <1>3, WholeKept DEF Carries, Jobs, Answers
<1> QED BY <1>2, <1>3

LEMMA InStepInit == Init => InStepInv
<1> SUFFICES ASSUME Init PROVE InStepInv
  OBVIOUS
<1>1. PICK k \in Task, c \in Contest :
        /\ saga = [j \in Task |-> IF j = k THEN Sent(Job("load", c, None, None)) ELSE Ended]
        /\ store = [tasks |-> {k}, lastError |-> None, optimistic |-> None,
                    pristine |-> Unsent, entities |-> Overlaid(Unsent, None),
                    contestId |-> c, teamId |-> Unknown]
  BY DEF Init
<1>2. Busy(k) /\ \A j \in Task : Busy(j) => j = k
  BY <1>1 DEF Busy, Sent, Ended
<1>3. Following(k)
  BY <1>1, UnknownAssumption DEF Following, Sent, Job, In
<1> QED BY <1>2, <1>3 DEF InStepInv, InStep

LEMMA InStepNext ==
  ASSUME OneAtATime, "others" \notin Env, IInv, TypeInv, ToldInv, OneTask, InStepInv, [Next]_vars
  PROVE  InStepInv'
<1>1. ASSUME NEW k \in Task, NEW job, Starts(k, job) PROVE InStepInv'
  <2>1. /\ \A j \in Task : ~Busy(j) /\ (Busy(j)' <=> j = k)
        /\ saga'[k].job = job /\ ~In(k, "answered")'
    BY <1>1, StartsAlone
  <2>2. ~TeamShown => store.teamId \notin TeamId
    BY DEF ToldInv, ShownLoaded, TeamShown
  <2>3. /\ job.kind \in {"create", "join", "leave"} => store'.teamId \notin TeamId
        /\ job.kind \in {"create", "join", "leave", "code", "open", "key"}
        /\ job.kind \in {"code", "open", "key"} => store'.teamId = job.team
        /\ store'.lastError = None
    BY <1>1, <2>2, UnknownAssumption DEF Starts, Pressed
  <2>4. Following(k)'
    BY <2>1, <2>3 DEF Following
  <2> QED BY <2>1, <2>4 DEF InStepInv, InStep
<1>2. ASSUME NEW k \in Task, Wakes(k) PROVE InStepInv'
  <2>1. /\ \A j \in Task : (Busy(j)' <=> Busy(j)) /\ saga'[j].job = saga[j].job
        /\ \A j \in Task : In(j, "answered")' => saga'[j] = saga[j]
        /\ UNCHANGED <<service, store>>
    BY <1>2 DEF Wakes, Moves, Busy, In, Sent
  <2>2. \A t \in TeamId : Whole(store.pristine, t) => Whole(store.pristine, t)'
    <3>1. PICK e : e = store.pristine /\ e = store'.pristine
      BY <2>1
    <3> QED BY <2>1, <3>1, StandsStill DEF Whole
  <2>3. InStep'
    BY <2>1, <2>2 DEF InStepInv, InStep, Whole
  <2>4. ASSUME NEW j \in Task, Busy(j)' PROVE Following(j)'
    <3>1. Following(j) /\ saga[j].job \in Jobs /\ (In(j, "answered") => saga[j].answer \in Answers)
      BY <2>1, <2>4 DEF InStepInv, TypeInv, SagaTypes
    <3>2. In(j, "answered")' => saga'[j] = saga[j] /\ In(j, "answered")
      BY <2>1 DEF In
    <3>3. PICK job, a : job \in Jobs /\ job = saga[j].job /\ a = saga[j].answer
      BY <3>1
    <3>4. In(j, "answered")' /\ Loads(j)' => Carries(job, a)'
      BY <2>1, <3>1, <3>2, <3>3, StandsStill DEF Following, Loads
    <3>5. In(j, "answered")' /\ Loads(j)' => Carries(saga[j].job, saga[j].answer)'
      BY <3>2, <3>3, <3>4 DEF Carries, Whole
    <3> QED BY <2>1, <2>2, <3>1, <3>5 DEF Following
  <2> QED BY <2>3, <2>4 DEF InStepInv
<1>3. ASSUME NEW k \in Task, Handled(k) PROVE InStepInv'
  <2>1. PICK job, a : job \in Jobs /\ Handles(k, job, a)
    BY <1>3, HandledResult
  <2>2. /\ saga'[k] = Answered(job, a) /\ saga[k].job = job /\ store' = store
        /\ \A j \in Task \ {k} : saga'[j] = saga[j]
        /\ Busy(k) /\ \A j \in Task : Busy(j)' <=> Busy(j)
    BY <2>1 DEF Handles, Moves, Answered, Busy, In
  <2>3. \A j \in Task : Busy(j)' <=> j = k
    BY <2>2 DEF OneTask
  <2>4. Following(k)
    BY <2>2 DEF InStepInv
  <2>5. a.status = "view" => Carries(job, a)'
    BY <2>1, AnswersCarryNext DEF Handles
  <2>6. job.kind = "view" /\ store.teamId \in TeamId => Whole(store.pristine, store.teamId)'
    <3>1. PICK e, t : e = store.pristine /\ t = store.teamId
      OBVIOUS
    <3>2. job.kind = "view" /\ t \in TeamId => Whole(e, t)'
      BY <1>3, <2>2, <2>4, <3>1, ViewIsRead, StandsStill DEF Following
    <3> QED BY <2>2, <3>1, <3>2 DEF Whole
  <2>7. Following(k)'
    BY <2>2, <2>4, <2>5, <2>6 DEF Following, Answered, Loads
  <2> QED BY <2>3, <2>7 DEF InStepInv, InStep
<1>4. ASSUME NEW k \in Task, Delivers(k) PROVE InStepInv'
  <2> DEFINE job == saga[k].job
             a == saga[k].answer
  <2>1. /\ Busy(k) /\ \A j \in Task \ {k} : saga'[j] = saga[j] /\ ~Busy(j)'
        /\ Following(k) /\ UNCHANGED service /\ job \in Jobs /\ a \in Answers
        /\ store.pristine \in [TeamId -> StoredTeam] /\ ServiceInv
    BY <1>4 DEF Delivers, Moves, Busy, In, OneTask, InStepInv,
                TypeInv, SagaTypes, StoreTypes
  <2>2. CASE ~Loads(k)
    <3>1. store'.lastError # None /\ saga'[k] = Ended
      BY <1>4, <2>1, <2>2, NullFacets DEF Delivers, Moves, Loads, Fails, GoesOn, Answers, Errors
    <3> QED BY <2>1, <3>1 DEF InStepInv, InStep, Busy, Ended
  <2>3. CASE Loads(k)
    <3>1. /\ store'.pristine = Merged(store.pristine, a.entities) /\ store'.lastError = None
          /\ store'.teamId = IF ShowsTeam(k) THEN a.teamId ELSE store.teamId
          /\ Carries(job, a) /\ a.entities \in [TeamId -> StoredTeam]
      BY <1>4, <2>1, <2>3 DEF Delivers, Loads, Fails, Following, Answers
    <3>2. ASSUME store'.teamId \in TeamId PROVE Whole(store'.pristine, store'.teamId)
      <4>1. CASE ShowsTeam(k)
        <5>1. Whole(a.entities, store'.teamId)
          BY <3>1, <3>2, <4>1, UnknownAssumption DEF ShowsTeam, Carries
        <5> QED BY <2>1, <3>1, <3>2, <5>1, MergedWhole
      <4>2. CASE ~ShowsTeam(k) /\ job.kind \in {"code", "open", "key"}
        <5>1. Whole(a.entities, store'.teamId)
          BY <2>1, <3>1, <3>2, <4>2 DEF Carries, Following
        <5> QED BY <2>1, <3>1, <3>2, <5>1, MergedWhole
      <4>3. CASE ~ShowsTeam(k) /\ job.kind = "view"
        <5>1. Whole(store.pristine, store'.teamId)
          BY <2>1, <3>1, <3>2, <4>3 DEF Following
        <5>2. a.entities[store'.teamId] \in {NoFacets, OnlyMain(store'.teamId)}
          BY <3>1, <3>2, <4>3, <5>1 DEF Carries, Whole
        <5> QED BY <2>1, <3>1, <3>2, <5>1, <5>2, MergedWhole
      <4>4. CASE ~ShowsTeam(k) /\ job.kind \in {"load", "create", "join", "leave"}
        BY <2>1, <3>1, <3>2, <4>4 DEF Following
      <4>5. job.kind \in {"load", "view", "create", "join", "leave", "code", "open", "key"}
        BY <2>1 DEF Jobs
      <4> QED BY <4>1, <4>2, <4>3, <4>4, <4>5
    <3>3. store'.teamId \in TeamId => Whole(store.pristine, store.teamId)'
      <4>1. PICK e, t : e = store'.pristine /\ t = store'.teamId
        OBVIOUS
      <4>2. t \in TeamId => Whole(e, t)'
        BY <2>1, <3>2, <4>1, StandsStill
      <4> QED BY <4>1, <4>2 DEF Whole
    <3>4. CASE GoesOn(k)
      <4>1. saga'[k] = Sent(Job("view", job.contest, None, None))
        BY <1>4, <3>4 DEF Delivers, Moves
      <4>2. Following(k)' /\ Busy(k)'
        BY <3>1, <3>3, <4>1 DEF Following, Sent, Job, In, Busy
      <4> QED BY <2>1, <4>2 DEF InStepInv, InStep
    <3>5. CASE ~GoesOn(k)
      <4>1. saga'[k] = Ended
        BY <1>4, <3>5 DEF Delivers, Moves
      <4> QED BY <2>1, <3>3, <4>1 DEF InStepInv, InStep, Whole, Busy, Ended
    <3> QED BY <3>4, <3>5
  <2> QED BY <2>2, <2>3
<1>5. ASSUME NEW k \in Task, Loses(k) PROVE InStepInv'
  <2>1. \A j \in Task : ~Busy(j)'
    BY <1>5 DEF Loses, Moves, Busy, In, Ended, OneTask
  <2> QED BY <1>5, <2>1, NullFacets DEF Loses, InStepInv, InStep, Errors
<1>6. ASSUME Chooses PROVE InStepInv'
  <2>1. store'.teamId \notin TeamId /\ store'.lastError = store.lastError /\ UNCHANGED <<service, saga>>
    BY <1>6, UnknownAssumption DEF Chooses
  <2>2. InStep'
    BY <2>1 DEF InStep
  <2>3. ASSUME NEW j \in Task, Busy(j)' PROVE Following(j)'
    <3>1. Following(j) /\ saga[j].job \in Jobs /\ (In(j, "answered") => saga[j].answer \in Answers)
      BY <2>1, <2>3 DEF InStepInv, Busy, TypeInv, SagaTypes
    <3>2. In(j, "answered") /\ Loads(j) => Carries(saga[j].job, saga[j].answer)'
      <4>1. PICK job, a : job = saga[j].job /\ a = saga[j].answer
        OBVIOUS
      <4>2. In(j, "answered") /\ Loads(j) => Carries(job, a)'
        BY <2>1, <3>1, <4>1, StandsStill DEF Following
      <4> QED BY <2>1, <4>1, <4>2 DEF Carries, Whole
    <3> QED BY <2>1, <3>1, <3>2 DEF Following, In, Loads
  <2> QED BY <2>2, <2>3 DEF InStepInv
<1>7. ASSUME Quiet PROVE InStepInv'
  <2>1. MineKept /\ store' = store /\ saga' = saga
    BY <1>7, OthersKeepMine DEF Quiet
  <2>2. \A e : \A t \in TeamId : Whole(e, t) => Whole(e, t)'
    BY <2>1, WholeKept DEF Whole
  <2>3. InStep'
    BY <2>1, <2>2 DEF InStepInv, InStep, Whole, Busy
  <2>4. ASSUME NEW j \in Task, Busy(j)' PROVE Following(j)'
    <3>1. Following(j) /\ saga[j].job \in Jobs /\ (In(j, "answered") => saga[j].answer \in Answers)
      BY <2>1, <2>4 DEF InStepInv, Busy, TypeInv, SagaTypes
    <3>2. In(j, "answered") /\ Loads(j) => Carries(saga[j].job, saga[j].answer)'
      BY <2>1, <2>2, <3>1, WholeKept DEF Following, Carries, Jobs, Answers
    <3> QED BY <2>1, <2>2, <3>1, <3>2 DEF Following, In, Loads, Jobs
  <2> QED BY <2>3, <2>4 DEF InStepInv
<1> QED BY <1>1, <1>2, <1>3, <1>4, <1>5, <1>6, <1>7, InvNext DEF Effect


-----------------------------------------------------------------------------
(* "Teams are per-contest? so when the contest changes, forget the current *)
(* team" (Backend/index.ts:83): for any number of tasks under way, only an *)
(* answer to a task begun before the change brings back the team of        *)
(* another contest.                                                        *)
THEOREM OnlyLateAnswers == Spec => OnlyLateAnswersMix
<1>1. IInv /\ TypeInv /\ ToldInv /\ [Next]_vars =>
        [TeamIsOfContest /\ ~TeamIsOfContest' =>
           \E k \in Task :
             /\ In(k, "answered") /\ ~In(k, "answered")'
             /\ saga[k].job.kind \in {"load", "create", "join"}
             /\ saga[k].job.contest # store.contestId]_vars
  BY OnlyLate
<1> QED BY <1>1, ToldHolds, PTL DEF Spec, OnlyLateAnswersMix

(* README.md:39: a change is shown from the start of its task, and goes    *)
(* from the screen before its end only when another task starts or ends,   *)
(* for any number of tasks and with newer keys cancelling older ones.      *)
THEOREM ChangesStay == Spec => PendingStays
<1>1. ASSUME IInv, TypeInv, [Next]_vars
      PROVE  [\A k \in Task : Busy(k)' /\ Change(saga'[k].job) # None =>
                \/ Shown(k)'
                \/ Busy(k) /\ ~Shown(k)
                \/ Busy(k) /\ \E j \in Task \ {k} : Busy(j) # Busy(j)']_vars
  BY <1>1, InvNext, TypeNext, PendingNext
<1>2. IInv /\ TypeInv /\ [Next]_vars =>
        [\A k \in Task : Busy(k)' /\ Change(saga'[k].job) # None =>
           \/ Shown(k)'
           \/ Busy(k) /\ ~Shown(k)
           \/ Busy(k) /\ \E j \in Task \ {k} : Busy(j) # Busy(j)']_vars
  BY <1>1
<1> QED BY <1>2, InvHolds, PTL DEF Spec, PendingStays

(* A user who waits for each task to end, and whose teams are left alone,  *)
(* sees the team as the service has it whenever no task is under way and   *)
(* no error is shown, whatever connection was lost before and whenever the *)
(* contest was changed.                                                    *)
THEOREM StaysInStep == ASSUME OneAtATime, "others" \notin Env PROVE Spec => []InStep
<1>1. IInv /\ TypeInv /\ ToldInv /\ OneTask /\ InStepInv /\ [Next]_vars => InStepInv'
  BY InStepNext
<1>2. InStepInv => InStep
  BY DEF InStepInv
<1> QED BY <1>1, <1>2, ToldHolds, OneTaskHolds, InStepInit, PTL DEF Spec

=============================================================================
