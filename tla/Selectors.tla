------------------------------ MODULE Selectors ------------------------------
(***************************************************************************)
(* The selectors of the browser (frontend Backend/selectors.ts): from the  *)
(* facets in the store they build a graph of entities, which has cycles (a *)
(* team lists its members, a member names its team), and keep what they    *)
(* have built until the generation of the store changes                    *)
(* (Backend/index.ts, flushSelectorCache).                                 *)
(*                                                                         *)
(* A node is a collection with an id.  Of the facets of a node the model   *)
(* keeps a content, which stands for all properties that are no ids, and   *)
(* the nodes its ids name.  The selectors call each other: each call is a  *)
(* step, and the store waits until the first call has returned.            *)
(***************************************************************************)
EXTENDS Integers, Sequences, FiniteSets

CONSTANTS
  Contest, Team, Member, User,   \* ids, by collection
  Null,            \* the id null, by collection: what a component asks for
                   \* that has no id yet
  Content,
  Absent,          \* no entity of this id in the store
  MaxGeneration    \* bounds the changes of the store

VARIABLES
  generation, entities,     \* state.backend
  cache, cacheGeneration,   \* of selectors.ts
  calls,    \* the entities being loaded, and of their ids those not visited yet
  asked,    \* history: the nodes selected since the cache was cleared
  behind    \* history: since then a state was loaded whose generation is no
            \* newer than the cache

vars == <<generation, entities, cache, cacheGeneration, calls, asked, behind>>

Node == Contest \cup Team \cup Member \cup User \cup Null

ASSUME BoundAssumption  == MaxGeneration \in Nat
ASSUME AbsentAssumption == Absent \notin [content : Content, refs : SUBSET Node]

(* A contest names its teams and a team its members, both only when that   *)
(* facet has been received; a member always its team and its user.  The    *)
(* store holds nothing under null.                                         *)
Facets(names) == {Absent} \cup [content : Content, refs : names]
Collections ==
  [contests    : [Contest -> Facets(SUBSET Team)],
   teams       : [Team -> Facets(SUBSET Member)],
   teamMembers : [Member -> Facets({{p[1], p[2]} : p \in Team \X User})],
   users       : [User -> Facets({{}})]]
OfCollections(c) ==
  [n \in Node |-> CASE n \in Contest -> c.contests[n]
                    [] n \in Team    -> c.teams[n]
                    [] n \in Member  -> c.teamMembers[n]
                    [] n \in User    -> c.users[n]
                    [] n \in Null    -> Absent]
Entities == {OfCollections(c) : c \in Collections}

-----------------------------------------------------------------------------
(* An EntityImpl: a thunk, then loading, then loaded.  What has no facets  *)
(* in the store stays a thunk, or the null entity.                         *)
Missing(n) == [is |-> IF n \in Null THEN "null" ELSE "thunk", content |-> Absent, refs |-> {}]
Loading   == [is |-> "loading", content |-> Absent, refs |-> {}]
Loaded(f) == [is |-> "loaded", content |-> f.content, refs |-> f.refs]

With(c, n, e) == [m \in DOMAIN c \cup {n} |-> IF m = n THEN e ELSE c[m]]

(* maybeClearCache *)
Current_always == <<>>
Current == IF cacheGeneration = generation THEN cache ELSE <<>>

(* visitEntity: below are the calls this one returns to.  An entity of the *)
(* store is cached before its value is built, so a cycle ends at it.       *)
Visit_cachedLate(n, below) ==
  /\ cacheGeneration' = generation
  /\ \/ /\ n \in DOMAIN Current
        /\ cache' = Current /\ calls' = below
     \/ /\ n \notin DOMAIN Current /\ entities[n] = Absent
        /\ cache' = With(Current, n, Missing(n)) /\ calls' = below
     \/ /\ n \notin DOMAIN Current /\ entities[n] # Absent
        /\ cache' = Current
        /\ calls' = Append(below, [node |-> n, left |-> entities[n].refs])
  /\ UNCHANGED <<generation, entities>>
Visit_keepsGeneration(n, below) ==
  /\ UNCHANGED cacheGeneration
  /\ \/ /\ n \in DOMAIN Current
        /\ cache' = Current /\ calls' = below
     \/ /\ n \notin DOMAIN Current /\ entities[n] = Absent
        /\ cache' = With(Current, n, Missing(n)) /\ calls' = below
     \/ /\ n \notin DOMAIN Current /\ entities[n] # Absent
        /\ cache' = With(Current, n, Loading)
        /\ calls' = Append(below, [node |-> n, left |-> entities[n].refs])
  /\ UNCHANGED <<generation, entities>>
Visit_shallow(n, below) ==
  /\ cacheGeneration' = generation
  /\ \/ /\ n \in DOMAIN Current
        /\ cache' = Current /\ calls' = below
     \/ /\ n \notin DOMAIN Current /\ entities[n] = Absent
        /\ cache' = With(Current, n, Missing(n)) /\ calls' = below
     \/ /\ n \notin DOMAIN Current /\ entities[n] # Absent
        /\ cache' = With(Current, n, Loading)
        /\ calls' = Append(below, [node |-> n, left |-> {}])
  /\ UNCHANGED <<generation, entities>>
Visit(n, below) ==
  /\ cacheGeneration' = generation
  /\ \/ /\ n \in DOMAIN Current
        /\ cache' = Current /\ calls' = below
     \/ /\ n \notin DOMAIN Current /\ entities[n] = Absent
        /\ cache' = With(Current, n, Missing(n)) /\ calls' = below
     \/ /\ n \notin DOMAIN Current /\ entities[n] # Absent
        /\ cache' = With(Current, n, Loading)
        /\ calls' = Append(below, [node |-> n, left |-> entities[n].refs])
  /\ UNCHANGED <<generation, entities>>

(* A component calls a selector. *)
Select(n) ==
  /\ calls = <<>>
  /\ Visit(n, <<>>)
  /\ asked' = {n} \cup IF cacheGeneration = generation THEN asked ELSE {}
  /\ behind' = (behind /\ cacheGeneration = generation)

Top == calls[Len(calls)]

(* The load of an entity calls the selector of one of its ids; in which    *)
(* order is nothing the graph depends on.                                  *)
Descend ==
  /\ calls # <<>>
  /\ \E m \in Top.left : Visit(m, [calls EXCEPT ![Len(calls)].left = @ \ {m}])
  /\ UNCHANGED <<asked, behind>>

(* All ids have been visited: the value is set, and visitEntity returns.   *)
Return ==
  /\ calls # <<>> /\ Top.left = {}
  /\ cache' = With(cache, Top.node, Loaded(entities[Top.node]))
  /\ calls' = SubSeq(calls, 1, Len(calls) - 1)
  /\ UNCHANGED <<generation, entities, cacheGeneration, asked, behind>>

-----------------------------------------------------------------------------
(* Every reducer that changes the entities ends in flushSelectorCache. *)
Flush_sameGeneration(e) ==
  /\ generation < MaxGeneration
  /\ entities' = e /\ UNCHANGED generation
Flush(e) ==
  /\ generation < MaxGeneration
  /\ entities' = e /\ generation' = generation + 1

(* An answer brings facets of any entities, or the changes of a task are   *)
(* shown or withdrawn.                                                     *)
Change ==
  /\ calls = <<>>
  /\ \E e \in Entities :
       (\A n \in Node : entities[n] # Absent => e[n] # Absent) /\ Flush(e)
  /\ UNCHANGED <<cache, cacheGeneration, calls, asked, behind>>

(* The LOAD action of development replaces the whole state by one saved    *)
(* earlier, generation included, whatever the cache was built from.        *)
Load ==
  /\ calls = <<>>
  /\ entities' \in Entities
  /\ generation' \in 0 .. MaxGeneration
  /\ behind' = (behind \/ generation' <= cacheGeneration)
  /\ UNCHANGED <<cache, cacheGeneration, calls, asked>>

Init ==
  /\ generation = 0 /\ cacheGeneration = -1
  /\ entities = [n \in Node |-> Absent]
  /\ cache = <<>> /\ calls = <<>> /\ asked = {} /\ behind = FALSE

Next == (\E n \in Node : Select(n)) \/ Descend \/ Return \/ Change \/ Load

Spec == Init /\ [][Next]_vars

-----------------------------------------------------------------------------
(* Properties. *)

(* The nodes that the ids of an entity in the store name. *)
Refs(n) == IF entities[n] = Absent THEN {} ELSE entities[n].refs

(* Entities are cached under their own nodes, and as long as a selector    *)
(* runs the cache is that of the store it reads.                           *)
TypeOK ==
  /\ generation \in 0 .. MaxGeneration /\ cacheGeneration \in -1 .. MaxGeneration
  /\ entities \in Entities
  /\ DOMAIN cache \subseteq Node
  /\ \A n \in DOMAIN cache :
       cache[n] \in [is : {"null", "thunk", "loading", "loaded"}, content : Content \cup {Absent},
                     refs : SUBSET Node]
  /\ calls \in Seq([node : Node, left : SUBSET Node])
  /\ calls # <<>> => cacheGeneration = generation
  /\ asked \subseteq Node /\ behind \in BOOLEAN

(* What a selector returns is never half built: there are entities for all *)
(* ids it names.  Nor is it of an older state (README.md:30): an entity of *)
(* the store is loaded and has its content, and others are missing.  The   *)
(* cache tells states apart by their numbers alone, so the latter ends     *)
(* where LOAD brings a number it has seen.                                 *)
CacheIsFresh ==
  calls = <<>> /\ cacheGeneration = generation => \A n \in DOMAIN cache :
    /\ cache[n] # Loading /\ cache[n].refs \subseteq DOMAIN cache
    /\ ~behind => cache[n] = IF entities[n] = Absent THEN Missing(n) ELSE Loaded(entities[n])

(* The nodes that ns lead to, by the ids in the store: what every set      *)
(* closed under them has that has ns.                                      *)
Closed(S) == \A n \in S : Refs(n) \subseteq S
Reach(ns) == {m \in Node : \A S \in SUBSET Node : ns \subseteq S /\ Closed(S) => m \in S}

(* "each entity is allocated before its value is constructed, allowing a   *)
(* graph to be assembled" (README.md:28): the selectors assemble the whole *)
(* graph that the entities asked for lead to, and cache nothing else.      *)
SelectsTheGraph ==
  calls = <<>> /\ cacheGeneration = generation /\ ~behind => DOMAIN cache = Reach(asked)

(* As long as the cache is kept an entity once handed out stays the object *)
(* it is, with its value, whatever is loaded meanwhile: components compare *)
(* them to decide whether to render.                                       *)
EntitiesStay ==
  [][cacheGeneration' = cacheGeneration =>
       \A n \in DOMAIN cache :
         n \in DOMAIN cache' /\ (cache[n] # Loading => cache'[n] = cache[n])]_vars

(* What the running selectors have still to do: entities to load, and ids  *)
(* of entities to visit.                                                   *)
ToLoad  == {n \in Node : n \notin DOMAIN cache \/ cache[n] = Loading}
ToVisit ==
  {p \in Node \X Node :
     \/ p[1] \notin DOMAIN cache
     \/ \E i \in DOMAIN calls : calls[i].node = p[1] /\ p[2] \in calls[i].left}

(* A selector returns, however the entities name each other and whatever   *)
(* older entities the cache holds: each of its steps leaves less to do.    *)
SelectorsEnd ==
  [][calls # <<>> =>
       /\ ToLoad' \subseteq ToLoad /\ ToVisit' \subseteq ToVisit
       /\ ToLoad' # ToLoad \/ ToVisit' # ToVisit]_vars

=============================================================================
