-------------------------- MODULE SelectorsProofs ---------------------------
(***************************************************************************)
(* Proofs about Selectors.tla, for any entities that name each other in    *)
(* any way, and any sequence of changes: what a selector returns is whole  *)
(* and of the current store, and every selector returns.                   *)
(***************************************************************************)
EXTENDS Selectors, SequenceTheorems, TLAPS

-----------------------------------------------------------------------------
(* Entities and the nodes they lead to. *)

LEMMA RefsAreNodes ==
  ASSUME entities \in Entities, NEW n \in Node
  PROVE  /\ Refs(n) \in SUBSET Node
         /\ entities[n] # Absent =>
              /\ entities[n].content \in Content /\ entities[n].refs = Refs(n)
              /\ Loaded(entities[n]).refs = Refs(n) /\ Loaded(entities[n]) # Loading
<1>1. PICK c \in Collections : entities = OfCollections(c)
  BY DEF Entities
<1>2. entities[n] \in Facets(SUBSET Node)
  <2>1. \A names \in SUBSET SUBSET Node : Facets(names) \subseteq Facets(SUBSET Node)
    BY DEF Facets
  <2>2. {{p[1], p[2]} : p \in Team \X User} \subseteq SUBSET Node
    BY DEF Node
  <2>3. /\ Facets(SUBSET Team) \subseteq Facets(SUBSET Node)
        /\ Facets(SUBSET Member) \subseteq Facets(SUBSET Node)
        /\ Facets({{p[1], p[2]} : p \in Team \X User}) \subseteq Facets(SUBSET Node)
        /\ Facets({{}}) \subseteq Facets(SUBSET Node)
    BY <2>1, <2>2 DEF Node
  <2>4. /\ n \in Contest => c.contests[n] \in Facets(SUBSET Node)
        /\ n \in Team => c.teams[n] \in Facets(SUBSET Node)
        /\ n \in Member => c.teamMembers[n] \in Facets(SUBSET Node)
        /\ n \in User => c.users[n] \in Facets(SUBSET Node)
        /\ Absent \in Facets(SUBSET Node)
    BY <2>3 DEF Collections, Facets
  <2> QED BY <1>1, <2>4 DEF OfCollections, Node
<1>3. CASE entities[n] = Absent
  BY <1>3 DEF Refs
<1>4. CASE entities[n] # Absent
  <2>1. entities[n].content \in Content /\ entities[n].refs \in SUBSET Node
    BY <1>2, <1>4 DEF Facets
  <2> QED BY <1>4, <2>1 DEF Refs, Loaded, Loading
<1> QED BY <1>3, <1>4

LEMMA ReachLeast ==
  ASSUME NEW ns \in SUBSET Node, NEW S \in SUBSET Node, ns \subseteq S, Closed(S)
  PROVE  Reach(ns) \subseteq S
BY DEF Reach

LEMMA ReachContains ==
  ASSUME NEW ns \in SUBSET Node PROVE ns \subseteq Reach(ns) /\ Reach(ns) \in SUBSET Node
BY DEF Reach

LEMMA ReachClosed ==
  ASSUME entities \in Entities, NEW ns, NEW n \in Reach(ns) PROVE Refs(n) \subseteq Reach(ns)
<1>1. n \in Node /\ Refs(n) \subseteq Node
  BY RefsAreNodes DEF Reach
<1>2. ASSUME NEW S \in SUBSET Node, ns \subseteq S, Closed(S) PROVE Refs(n) \subseteq S
  BY <1>2 DEF Reach, Closed
<1> QED BY <1>1, <1>2 DEF Reach

LEMMA ReachGrows ==
  ASSUME NEW ns, NEW ms, ns \subseteq ms PROVE Reach(ns) \subseteq Reach(ms)
BY DEF Reach

-----------------------------------------------------------------------------
(* The calls under way cs and the cache c: the entities being loaded, each *)
(* once, are cached and have ids left; the ids visited are in D.  What is  *)
(* cached is being loaded or loaded, and then what it names is cached.     *)

Frame == [node : Node, left : SUBSET Node]

CallsSound(cs, c, D) ==
  /\ cs \in Seq(Frame)
  /\ \A i, j \in DOMAIN cs : cs[i].node = cs[j].node => i = j
  /\ \A i \in DOMAIN cs :
       /\ cs[i].node \in DOMAIN c /\ c[cs[i].node] = Loading
       /\ entities[cs[i].node] # Absent
       /\ cs[i].left \subseteq Refs(cs[i].node)
       /\ Refs(cs[i].node) \ cs[i].left \subseteq D

Built(n) == IF entities[n] = Absent THEN Missing(n) ELSE Loaded(entities[n])

(* What is being loaded has a call, and what is not names what is cached.  *)
GraphSound(cs, c) ==
  /\ DOMAIN c \subseteq Node
  /\ \A n \in DOMAIN c :
       IF c[n] = Loading THEN \E i \in DOMAIN cs : cs[i].node = n ELSE c[n].refs \subseteq DOMAIN c

CacheSound(c) ==
  \A n \in DOMAIN c :
    c[n] # Loading => c[n] = Built(n) /\ Refs(n) \subseteq DOMAIN c

(* What is cached was built from the store as it is, and from it all that  *)
(* the entities asked for lead to.                                         *)
Whole ==
  /\ CacheSound(cache)
  /\ asked \subseteq DOMAIN cache /\ DOMAIN cache \subseteq Reach(asked)

(* The calls and the graph are sound always; the cache is that of the      *)
(* store unless an older state was loaded over it.                         *)
IInv ==
  /\ TypeOK
  /\ CallsSound(calls, cache, DOMAIN cache) /\ GraphSound(calls, cache)
  /\ ~behind => cacheGeneration <= generation /\ (cacheGeneration = generation => Whole)

LEMMA BuiltIsNotLoading ==
  ASSUME entities \in Entities, NEW n \in Node PROVE Built(n) # Loading
BY RefsAreNodes DEF Built, Missing, Loading

LEMMA AppendFields ==
  ASSUME NEW cs \in Seq(Frame), NEW f \in Frame
  PROVE  /\ Append(cs, f) \in Seq(Frame) /\ DOMAIN Append(cs, f) = DOMAIN cs \cup {Len(cs) + 1}
         /\ Append(cs, f)[Len(cs) + 1] = f /\ Len(cs) + 1 \notin DOMAIN cs
         /\ \A i \in DOMAIN cs : Append(cs, f)[i] = cs[i]
<1>1. DOMAIN cs = 1 .. Len(cs) /\ Len(cs) \in Nat
  OBVIOUS
<1> QED BY <1>1, AppendProperties

LEMMA FrontFields ==
  ASSUME NEW cs \in Seq(Frame), cs # <<>>, NEW front, front = SubSeq(cs, 1, Len(cs) - 1)
  PROVE  /\ Len(cs) \in DOMAIN cs /\ cs[Len(cs)] \in Frame
         /\ front \in Seq(Frame) /\ DOMAIN front = DOMAIN cs \ {Len(cs)}
         /\ \A i \in DOMAIN front : front[i] = cs[i]
<1>1. DOMAIN cs = 1 .. Len(cs) /\ Len(cs) \in Nat \ {0}
  OBVIOUS
<1>2. Len(front) = Len(cs) - 1 /\ DOMAIN front = 1 .. Len(front) /\ front \in Seq(Frame)
  BY <1>1, SubSeqProperties
<1>3. \A i \in 1 .. Len(front) : front[i] = cs[i]
  BY <1>1, <1>2, SubSeqProperties
<1> QED BY <1>1, <1>2, <1>3

LEMMA ReplaceFields ==
  ASSUME NEW cs \in Seq(Frame), NEW k \in DOMAIN cs, NEW f \in Frame,
         NEW ds, ds = [cs EXCEPT ![k] = f]
  PROVE  /\ ds \in Seq(Frame) /\ DOMAIN ds = DOMAIN cs
         /\ \A i \in DOMAIN cs : ds[i] = IF i = k THEN f ELSE cs[i]
<1>1. DOMAIN cs = 1 .. Len(cs)
  OBVIOUS
<1>2. ds \in Seq(Frame) /\ \A i \in 1 .. Len(cs) : ds[i] = IF i = k THEN f ELSE cs[i]
  BY <1>1, ExceptSeq
<1> QED BY <1>1, <1>2

(* The calls cs, when the last one has taken m from its ids. *)
Visited(cs, m) == [cs EXCEPT ![Len(cs)].left = @ \ {m}]

LEMMA VisitedFields ==
  ASSUME NEW cs \in Seq(Frame), cs # <<>>, NEW m, NEW ds, ds = Visited(cs, m)
  PROVE  /\ ds \in Seq(Frame) /\ DOMAIN ds = DOMAIN cs
         /\ ds[Len(cs)].left = cs[Len(cs)].left \ {m}
         /\ \A i \in DOMAIN cs : ds[i].node = cs[i].node /\ (i # Len(cs) => ds[i] = cs[i])
<1> DEFINE f == [cs[Len(cs)] EXCEPT !.left = @ \ {m}]
<1>1. DOMAIN cs = 1 .. Len(cs) /\ Len(cs) \in DOMAIN cs /\ cs[Len(cs)] \in Frame
  OBVIOUS
<1>2. f \in Frame /\ f.left = cs[Len(cs)].left \ {m} /\ f.node = cs[Len(cs)].node
  BY <1>1 DEF Frame
<1>3. ds = [cs EXCEPT ![Len(cs)] = f]
  BY <1>1 DEF Visited
<1> HIDE DEF f
<1>4. /\ ds \in Seq(Frame) /\ DOMAIN ds = DOMAIN cs
      /\ \A i \in DOMAIN cs : ds[i] = IF i = Len(cs) THEN f ELSE cs[i]
  BY <1>1, <1>2, <1>3, ReplaceFields
<1> QED BY <1>1, <1>2, <1>4

-----------------------------------------------------------------------------
(* A call of visitEntity keeps all that, and caches the entity asked for   *)
(* and no other.                                                           *)
LEMMA VisitKeeps ==
  ASSUME entities \in Entities, NEW n \in Node, NEW below, Visit(n, below),
         CallsSound(below, Current, DOMAIN Current \cup {n}), GraphSound(below, Current)
  PROVE  /\ DOMAIN cache' = DOMAIN Current \cup {n}
         /\ CallsSound(calls', cache', DOMAIN cache') /\ GraphSound(calls', cache')
         /\ CacheSound(Current) => CacheSound(cache')
         /\ \A m \in DOMAIN Current : cache'[m] = Current[m]
<1>1. CASE n \in DOMAIN Current /\ cache' = Current /\ calls' = below
  <2>1. DOMAIN Current \cup {n} = DOMAIN Current
    BY <1>1
  <2> QED BY <1>1, <2>1
<1>2. CASE /\ n \notin DOMAIN Current /\ entities[n] = Absent
           /\ cache' = With(Current, n, Missing(n)) /\ calls' = below
  <2>1. /\ DOMAIN cache' = DOMAIN Current \cup {n} /\ cache'[n] = Built(n) /\ Refs(n) = {}
        /\ \A m \in DOMAIN Current : cache'[m] = Current[m]
    BY <1>2 DEF With, Built, Refs
  <2>2. cache'[n] # Loading /\ cache'[n].refs = {}
    BY <1>2, <2>1, BuiltIsNotLoading DEF Built, Missing
  <2>3. CallsSound(calls', cache', DOMAIN cache')
    BY <1>2, <2>1 DEF CallsSound
  <2>4. GraphSound(calls', cache')
    BY <1>2, <2>1, <2>2 DEF GraphSound
  <2>5. CacheSound(Current) => CacheSound(cache')
    BY <1>2, <2>1 DEF CacheSound
  <2> QED BY <2>1, <2>3, <2>4, <2>5
<1>3. CASE /\ n \notin DOMAIN Current /\ entities[n] # Absent
           /\ cache' = With(Current, n, Loading)
           /\ calls' = Append(below, [node |-> n, left |-> entities[n].refs])
  <2> DEFINE f == [node |-> n, left |-> entities[n].refs]
             k == Len(below) + 1
  <2>1. /\ DOMAIN cache' = DOMAIN Current \cup {n} /\ cache'[n] = Loading
        /\ \A m \in DOMAIN Current : cache'[m] = Current[m]
    BY <1>3 DEF With
  <2>2. f \in Frame /\ f.node = n /\ f.left = Refs(n)
    BY <1>3, RefsAreNodes DEF Frame
  <2>3. below \in Seq(Frame)
    BY DEF CallsSound
  <2> HIDE DEF f
  <2>4. /\ calls' \in Seq(Frame) /\ DOMAIN calls' = DOMAIN below \cup {k}
        /\ calls'[k] = f /\ k \notin DOMAIN below
        /\ \A i \in DOMAIN below : calls'[i] = below[i]
    BY <1>3, <2>2, <2>3, AppendFields DEF f
  <2> HIDE DEF k
  <2>5. \A i \in DOMAIN below :
          /\ below[i].node \in DOMAIN Current /\ Current[below[i].node] = Loading
          /\ entities[below[i].node] # Absent
          /\ below[i].left \subseteq Refs(below[i].node)
          /\ Refs(below[i].node) \ below[i].left \subseteq DOMAIN Current \cup {n}
    BY DEF CallsSound
  <2>6. \A i, j \in DOMAIN calls' : calls'[i].node = calls'[j].node => i = j
    BY <1>3, <2>2, <2>4, <2>5 DEF CallsSound
  <2>7. \A i \in DOMAIN calls' :
          /\ calls'[i].node \in DOMAIN cache' /\ cache'[calls'[i].node] = Loading
          /\ entities[calls'[i].node] # Absent
          /\ calls'[i].left \subseteq Refs(calls'[i].node)
          /\ Refs(calls'[i].node) \ calls'[i].left \subseteq DOMAIN cache'
    BY <1>3, <2>1, <2>2, <2>4, <2>5
  <2>8. CallsSound(calls', cache', DOMAIN cache')
    BY <2>4, <2>6, <2>7 DEF CallsSound
  <2>9. GraphSound(calls', cache')
    BY <2>1, <2>2, <2>4 DEF GraphSound
  <2>10. CacheSound(Current) => CacheSound(cache')
    BY <2>1 DEF CacheSound
  <2> QED BY <2>1, <2>8, <2>9, <2>10
<1> QED BY <1>1, <1>2, <1>3 DEF Visit

EntityImpl == [is : {"null", "thunk", "loading", "loaded"}, content : Content \cup {Absent},
               refs : SUBSET Node]

LEMMA Impls ==
  ASSUME entities \in Entities, NEW n \in Node
  PROVE  /\ Loading \in EntityImpl /\ Missing(n) \in EntityImpl
         /\ entities[n] # Absent => Loaded(entities[n]) \in EntityImpl
BY RefsAreNodes DEF EntityImpl, Loading, Missing, Loaded

LEMMA VisitTypes ==
  ASSUME TypeOK, NEW n \in Node, NEW below, Visit(n, below)
  PROVE  \A m \in DOMAIN cache' : cache'[m] \in EntityImpl
<1>1. \A m \in DOMAIN Current : Current[m] \in EntityImpl
  BY DEF TypeOK, Current, EntityImpl
<1>2. cache' = Current \/ \E e \in EntityImpl : cache' = With(Current, n, e)
  BY Impls DEF Visit, TypeOK
<1> QED BY <1>1, <1>2 DEF With

(* What is sound of the store stays sound as long as the store does. *)
LEMMA SameStore ==
  ASSUME entities' = entities
  PROVE  /\ CallsSound(calls', cache', DOMAIN cache') => CallsSound(calls, cache, DOMAIN cache)'
         /\ GraphSound(calls', cache') => GraphSound(calls, cache)'
         /\ CacheSound(cache') => CacheSound(cache)'
         /\ \A ns : Reach(ns)' = Reach(ns)
<1>1. \A n : Refs(n)' = Refs(n) /\ Built(n)' = Built(n)
  BY DEF Refs, Built, Missing
<1>2. CallsSound(calls', cache', DOMAIN cache') => CallsSound(calls, cache, DOMAIN cache)'
  BY <1>1 DEF CallsSound
<1>3. /\ GraphSound(calls', cache') => GraphSound(calls, cache)'
      /\ CacheSound(cache') => CacheSound(cache)'
  BY <1>1 DEF CacheSound, GraphSound
<1>4. \A ns : Reach(ns)' = Reach(ns)
  BY <1>1 DEF Reach, Closed
<1> QED BY <1>2, <1>3, <1>4

-----------------------------------------------------------------------------
(* The steps of the selectors. *)

LEMMA SoundCurrent ==
  ASSUME IInv
  PROVE  /\ cacheGeneration = generation => Current = cache
         /\ cacheGeneration # generation =>
              Current = <<>> /\ DOMAIN Current = {} /\ calls = <<>>
         /\ cacheGeneration = generation /\ ~behind => Whole
BY DEF IInv, TypeOK, Current

LEMMA IInvAgain ==
  ASSUME IInv, entities' = entities, generation' = generation, cacheGeneration' = generation,
         CallsSound(calls', cache', DOMAIN cache'), GraphSound(calls', cache'),
         \A n \in DOMAIN cache' : cache'[n] \in EntityImpl,
         asked' \subseteq Node, behind' \in BOOLEAN,
         ~behind' => /\ CacheSound(cache') /\ asked' \subseteq DOMAIN cache'
                     /\ DOMAIN cache' \subseteq Reach(asked')
  PROVE  IInv'
<1>1. ~behind' => Whole'
  BY SameStore DEF Whole
<1>2. calls' \in Seq(Frame) /\ DOMAIN cache' \subseteq Node
  BY DEF CallsSound, GraphSound
<1>3. TypeOK'
  BY <1>2 DEF IInv, TypeOK, Frame, EntityImpl
<1>4. generation \in Nat
  BY BoundAssumption DEF IInv, TypeOK
<1> QED BY <1>1, <1>3, <1>4, SameStore DEF IInv

LEMMA SelectKeeps ==
  ASSUME IInv, NEW n \in Node, Select(n) PROVE IInv'
<1>1. TypeOK /\ entities \in Entities /\ calls = <<>> /\ Visit(n, <<>>)
  BY DEF IInv, TypeOK, Select
<1>2. GraphSound(<<>>, Current) /\ CallsSound(<<>>, Current, DOMAIN Current \cup {n})
  <2>1. CallsSound(<<>>, Current, DOMAIN Current \cup {n})
    BY DEF CallsSound
  <2>2. CASE cacheGeneration = generation
    BY <1>1, <2>1, <2>2, SoundCurrent DEF IInv
  <2>3. CASE cacheGeneration # generation
    BY <2>1, <2>3, SoundCurrent DEF GraphSound
  <2> QED BY <2>2, <2>3
<1>3. /\ DOMAIN cache' = DOMAIN Current \cup {n}
      /\ CallsSound(calls', cache', DOMAIN cache') /\ GraphSound(calls', cache')
      /\ CacheSound(Current) => CacheSound(cache')
  BY <1>1, <1>2, VisitKeeps
<1>4. asked' \in SUBSET Node /\ behind' \in BOOLEAN
  BY <1>1 DEF TypeOK, Select
<1>5. ASSUME ~behind'
      PROVE  /\ CacheSound(cache')
             /\ asked' \subseteq DOMAIN cache' /\ DOMAIN cache' \subseteq Reach(asked')
  <2>1. CASE cacheGeneration = generation
    <3>1. asked' = {n} \cup asked /\ Current = cache /\ Whole
      BY <1>5, <2>1, SoundCurrent DEF Select
    <3>2. asked \subseteq DOMAIN cache /\ DOMAIN cache \subseteq Reach(asked) /\ CacheSound(Current)
      BY <3>1 DEF Whole
    <3>3. asked' \subseteq Reach(asked')
      BY <1>4, ReachContains
    <3>4. Reach(asked) \subseteq Reach(asked')
      BY <3>1, ReachGrows
    <3> QED BY <1>3, <3>1, <3>2, <3>3, <3>4
  <2>2. CASE cacheGeneration # generation
    <3>1. asked' = {n} /\ DOMAIN cache' = {n} /\ CacheSound(Current)
      BY <1>3, <2>2, SoundCurrent DEF Select, CacheSound
    <3> QED BY <1>3, <3>1, ReachContains
  <2> QED BY <2>1, <2>2
<1> QED BY <1>1, <1>3, <1>4, <1>5, VisitTypes, IInvAgain DEF Visit

(* The call that the last one makes, after its id has been taken from it. *)
LEMMA Descends ==
  ASSUME IInv, NEW m \in Top.left, calls # <<>>,
         NEW ds, ds = Visited(calls, m)
  PROVE  /\ m \in Node /\ m \in Refs(Top.node) /\ Top.node \in DOMAIN cache
         /\ Current = cache /\ ds \in Seq(Frame) /\ Len(calls) \in DOMAIN calls
         /\ DOMAIN ds = DOMAIN calls /\ ds[Len(calls)].left = Top.left \ {m}
         /\ \A i \in DOMAIN calls : ds[i].node = calls[i].node /\ ds[i].left \subseteq calls[i].left
         /\ CallsSound(ds, cache, DOMAIN cache \cup {m}) /\ GraphSound(ds, cache)
<1>1. entities \in Entities /\ Current = cache
  BY SoundCurrent DEF IInv, TypeOK
<1>2. /\ calls \in Seq(Frame) /\ DOMAIN cache \subseteq Node /\ GraphSound(calls, cache)
      /\ CallsSound(calls, cache, DOMAIN cache)
  BY DEF IInv, CallsSound, GraphSound
<1>3. Len(calls) \in DOMAIN calls
  BY <1>2
<1>4. m \in Refs(Top.node) /\ Top.node \in DOMAIN cache
  BY <1>2, <1>3 DEF CallsSound, Top
<1>5. m \in Node
  BY <1>1, <1>2, <1>4, RefsAreNodes
<1>6. /\ ds \in Seq(Frame) /\ DOMAIN ds = DOMAIN calls
      /\ ds[Len(calls)].left = calls[Len(calls)].left \ {m}
      /\ \A i \in DOMAIN calls :
           ds[i].node = calls[i].node /\ (i # Len(calls) => ds[i] = calls[i])
  BY <1>2, VisitedFields
<1>7. \A i \in DOMAIN calls : ds[i].left \subseteq calls[i].left /\ calls[i].left \ ds[i].left \subseteq {m}
  BY <1>6
<1>8. CallsSound(ds, cache, DOMAIN cache \cup {m})
  <2>1. \A i, j \in DOMAIN ds : ds[i].node = ds[j].node => i = j
    BY <1>2, <1>6 DEF CallsSound
  <2>2. \A i \in DOMAIN ds :
          /\ ds[i].node \in DOMAIN cache /\ cache[ds[i].node] = Loading
          /\ entities[ds[i].node] # Absent
          /\ ds[i].left \subseteq Refs(ds[i].node)
          /\ Refs(ds[i].node) \ ds[i].left \subseteq DOMAIN cache \cup {m}
    <3> SUFFICES ASSUME NEW i \in DOMAIN calls
                 PROVE  /\ calls[i].node \in DOMAIN cache /\ cache[calls[i].node] = Loading
                        /\ entities[calls[i].node] # Absent
                        /\ ds[i].left \subseteq Refs(calls[i].node)
                        /\ Refs(calls[i].node) \ ds[i].left \subseteq DOMAIN cache \cup {m}
      BY <1>6
    <3>1. /\ calls[i].node \in DOMAIN cache /\ cache[calls[i].node] = Loading
          /\ entities[calls[i].node] # Absent
          /\ calls[i].left \subseteq Refs(calls[i].node)
          /\ Refs(calls[i].node) \ calls[i].left \subseteq DOMAIN cache
      BY <1>2 DEF CallsSound
    <3> QED BY <1>7, <3>1
  <2> QED BY <1>6, <2>1, <2>2 DEF CallsSound
<1>9. GraphSound(ds, cache)
  BY <1>2, <1>6 DEF GraphSound
<1> QED BY <1>1, <1>3, <1>4, <1>5, <1>6, <1>7, <1>8, <1>9 DEF Top

LEMMA DescendKeeps ==
  ASSUME IInv, Descend PROVE IInv'
<1>1. PICK m \in Top.left : Visit(m, Visited(calls, m))
  BY DEF Descend, Visited
<1> DEFINE ds == Visited(calls, m)
<1>2. calls # <<>> /\ asked' = asked /\ behind' = behind /\ Visit(m, ds)
  BY <1>1 DEF Descend
<1> HIDE DEF ds
<1>3. TypeOK /\ entities \in Entities /\ cacheGeneration = generation
  BY <1>2, SoundCurrent DEF IInv, TypeOK
<1>4. /\ m \in Node /\ m \in Refs(Top.node) /\ Top.node \in DOMAIN cache /\ Current = cache
      /\ CallsSound(ds, cache, DOMAIN cache \cup {m}) /\ GraphSound(ds, cache)
  BY <1>2, Descends DEF ds
<1>5. /\ DOMAIN cache' = DOMAIN cache \cup {m} /\ CallsSound(calls', cache', DOMAIN cache')
      /\ GraphSound(calls', cache') /\ (CacheSound(cache) => CacheSound(cache'))
  BY <1>2, <1>3, <1>4, VisitKeeps
<1>6. ASSUME ~behind
      PROVE  /\ CacheSound(cache') /\ asked' \subseteq DOMAIN cache'
             /\ DOMAIN cache' \subseteq Reach(asked')
  <2>1. CacheSound(cache) /\ asked \subseteq DOMAIN cache /\ DOMAIN cache \subseteq Reach(asked)
    BY <1>3, <1>6, SoundCurrent DEF Whole
  <2>2. m \in Reach(asked)
    BY <1>3, <1>4, <2>1, ReachClosed
  <2> QED BY <1>2, <1>5, <2>1, <2>2
<1>7. asked' \subseteq Node /\ behind' \in BOOLEAN
  BY <1>2, <1>3 DEF TypeOK
<1> QED BY <1>2, <1>3, <1>4, <1>5, <1>6, <1>7, VisitTypes, IInvAgain DEF Visit

(* The call that returns was the last one, and its entity the only one     *)
(* that it loads.                                                          *)
LEMMA Returns ==
  ASSUME IInv, Return
  PROVE  /\ TypeOK /\ cacheGeneration = generation
         /\ Top.node \in DOMAIN cache /\ cache[Top.node] = Loading /\ Top.node \in Node
         /\ entities[Top.node] # Absent /\ Refs(Top.node) \subseteq DOMAIN cache
         /\ DOMAIN cache' = DOMAIN cache /\ cache'[Top.node] = Loaded(entities[Top.node])
         /\ \A n \in DOMAIN cache : n # Top.node => cache'[n] = cache[n]
         /\ calls' \in Seq(Frame) /\ DOMAIN calls' = DOMAIN calls \ {Len(calls)}
         /\ Len(calls) \in DOMAIN calls
         /\ \A i \in DOMAIN calls' : calls'[i] = calls[i] /\ calls[i].node # Top.node
<1>1. TypeOK /\ cacheGeneration = generation /\ calls # <<>>
  BY SoundCurrent DEF IInv, TypeOK, Return
<1>2. calls \in Seq(Frame) /\ CallsSound(calls, cache, DOMAIN cache)
  BY DEF IInv, CallsSound
<1>3. /\ Len(calls) \in DOMAIN calls /\ calls' \in Seq(Frame)
      /\ DOMAIN calls' = DOMAIN calls \ {Len(calls)}
      /\ \A i \in DOMAIN calls' : calls'[i] = calls[i]
  BY <1>1, <1>2, FrontFields DEF Return
<1>4. /\ Top.node \in DOMAIN cache /\ cache[Top.node] = Loading
      /\ entities[Top.node] # Absent
      /\ \A i \in DOMAIN calls' : calls[i].node # Top.node
  BY <1>2, <1>3 DEF CallsSound, Top
<1>5. Refs(Top.node) \subseteq DOMAIN cache
  BY <1>2, <1>3 DEF CallsSound, Top, Return
<1>6. /\ DOMAIN cache' = DOMAIN cache /\ cache'[Top.node] = Loaded(entities[Top.node])
      /\ \A n \in DOMAIN cache : n # Top.node => cache'[n] = cache[n]
  BY <1>4 DEF Return, With
<1> QED BY <1>1, <1>3, <1>4, <1>5, <1>6 DEF TypeOK

LEMMA ReturnKeeps ==
  ASSUME IInv, Return PROVE IInv'
<1>1. /\ TypeOK /\ cacheGeneration = generation
      /\ Top.node \in DOMAIN cache /\ cache[Top.node] = Loading /\ Top.node \in Node
      /\ entities[Top.node] # Absent /\ Refs(Top.node) \subseteq DOMAIN cache
      /\ DOMAIN cache' = DOMAIN cache /\ cache'[Top.node] = Loaded(entities[Top.node])
      /\ \A n \in DOMAIN cache : n # Top.node => cache'[n] = cache[n]
      /\ calls' \in Seq(Frame) /\ DOMAIN calls' = DOMAIN calls \ {Len(calls)}
      /\ Len(calls) \in DOMAIN calls
      /\ \A i \in DOMAIN calls' : calls'[i] = calls[i] /\ calls[i].node # Top.node
  BY Returns
<1>2. CallsSound(calls, cache, DOMAIN cache) /\ GraphSound(calls, cache)
  BY DEF IInv
<1>3. CallsSound(calls', cache', DOMAIN cache')
  BY <1>1, <1>2 DEF CallsSound
<1>4. entities \in Entities /\ Loaded(entities[Top.node]) \in EntityImpl
      /\ Loaded(entities[Top.node]) # Loading
      /\ Loaded(entities[Top.node]).refs = Refs(Top.node)
  BY <1>1, Impls, RefsAreNodes DEF TypeOK
<1>5. GraphSound(calls', cache')
  <2>1. ASSUME NEW n \in DOMAIN cache, n # Top.node
        PROVE  IF cache'[n] = Loading THEN \E i \in DOMAIN calls' : calls'[i].node = n
               ELSE cache'[n].refs \subseteq DOMAIN cache'
    BY <1>1, <1>2, <2>1 DEF GraphSound, Top
  <2> QED BY <1>1, <1>2, <1>4, <2>1 DEF GraphSound
<1>6. \A n \in DOMAIN cache' : cache'[n] \in EntityImpl
  BY <1>1, <1>4 DEF TypeOK, EntityImpl
<1>7. ASSUME ~behind'
      PROVE  /\ CacheSound(cache') /\ asked' \subseteq DOMAIN cache'
             /\ DOMAIN cache' \subseteq Reach(asked')
  <2>1. CacheSound(cache) /\ asked \subseteq DOMAIN cache /\ DOMAIN cache \subseteq Reach(asked)
    BY <1>1, <1>7, SoundCurrent DEF Return, Whole
  <2>2. cache'[Top.node] = Built(Top.node)
    BY <1>1 DEF Built
  <2>3. CacheSound(cache')
    BY <1>1, <2>1, <2>2 DEF CacheSound
  <2> QED BY <1>1, <2>1, <2>3 DEF Return
<1>8. asked' \subseteq Node /\ behind' \in BOOLEAN
  BY <1>1 DEF TypeOK, Return
<1> QED BY <1>1, <1>3, <1>5, <1>6, <1>7, <1>8, IInvAgain DEF Return

(* A change of the store leaves the cache of an older generation behind;   *)
(* a state loaded with a number that is not newer is what behind tells.    *)
LEMMA StoreKeeps ==
  ASSUME IInv, Change \/ Load PROVE IInv'
<1>1. TypeOK /\ calls = <<>> /\ GraphSound(calls, cache)
  BY DEF IInv, Change, Load
<1>2. /\ entities' \in Entities /\ generation' \in 0 .. MaxGeneration /\ behind' \in BOOLEAN
      /\ ~behind' => cacheGeneration < generation'
      /\ UNCHANGED <<cache, cacheGeneration, calls, asked>>
  <2>1. generation \in Nat /\ cacheGeneration \in Int
    BY <1>1, BoundAssumption DEF TypeOK
  <2>2. CASE Change
    BY <1>1, <2>1, <2>2, BoundAssumption DEF IInv, TypeOK, Change, Flush
  <2>3. CASE Load
    <3>1. /\ entities' \in Entities /\ generation' \in 0 .. MaxGeneration
          /\ UNCHANGED <<cache, cacheGeneration, calls, asked>>
      BY <2>3 DEF Load
    <3>2. behind' \in BOOLEAN /\ (~behind' => ~(generation' <= cacheGeneration))
      BY <2>3 DEF Load
    <3>3. ~(generation' <= cacheGeneration) => cacheGeneration < generation'
      BY <2>1, <3>1, BoundAssumption
    <3> QED BY <3>1, <3>2, <3>3
  <2> QED BY <2>2, <2>3
<1>3. TypeOK'
  BY <1>1, <1>2 DEF TypeOK
<1>4. (CallsSound(calls, cache, DOMAIN cache) /\ GraphSound(calls, cache))'
  BY <1>1, <1>2 DEF CallsSound, GraphSound
<1>5. generation' \in Nat /\ cacheGeneration' \in Int
  BY <1>3, BoundAssumption DEF TypeOK
<1> QED BY <1>2, <1>3, <1>4, <1>5 DEF IInv

LEMMA InitIInv == Init => IInv
<1> SUFFICES ASSUME Init PROVE IInv
  OBVIOUS
<1>1. entities \in Entities
  <2> DEFINE nothing(S) == [n \in S |-> Absent]
             c == [contests |-> nothing(Contest), teams |-> nothing(Team),
                   teamMembers |-> nothing(Member), users |-> nothing(User)]
  <2>1. c \in Collections
    BY DEF Collections, Facets
  <2>2. \A n \in Node : OfCollections(c)[n] = Absent
    BY DEF OfCollections, Node
  <2>3. entities = OfCollections(c)
    BY <2>2 DEF Init, OfCollections
  <2> HIDE DEF c
  <2> QED BY <2>1, <2>3 DEF Entities
<1>2. calls = <<>> /\ DOMAIN cache = {} /\ DOMAIN calls = {}
  BY DEF Init
<1>3. calls \in Seq(Frame)
  BY <1>2, EmptySeq
<1>4. TypeOK
  <2>1. generation \in 0 .. MaxGeneration /\ cacheGeneration \in -1 .. MaxGeneration
    BY BoundAssumption DEF Init
  <2>2. asked \subseteq Node /\ behind \in BOOLEAN
    BY DEF Init
  <2> QED BY <1>1, <1>2, <1>3, <2>1, <2>2 DEF TypeOK, Frame
<1>5. CallsSound(calls, cache, DOMAIN cache) /\ GraphSound(calls, cache)
  BY <1>2, <1>3 DEF CallsSound, GraphSound
<1> QED BY <1>4, <1>5 DEF Init, IInv

LEMMA NextIInv == IInv /\ [Next]_vars => IInv'
<1> SUFFICES ASSUME IInv, [Next]_vars PROVE IInv'
  OBVIOUS
<1>1. ASSUME NEW n \in Node, Select(n) PROVE IInv'
  BY <1>1, SelectKeeps
<1>2. CASE Descend
  BY <1>2, DescendKeeps
<1>3. CASE Return
  BY <1>3, ReturnKeeps
<1>4. CASE Change \/ Load
  BY <1>4, StoreKeeps
<1>5. CASE UNCHANGED vars
  <2>1. TypeOK'
    BY <1>5 DEF IInv, TypeOK, vars
  <2>2. Whole => Whole'
    BY <1>5, SameStore DEF Whole, vars
  <2>3. (CallsSound(calls, cache, DOMAIN cache) /\ GraphSound(calls, cache))'
    BY <1>5, SameStore DEF IInv, vars
  <2> QED BY <1>5, <2>1, <2>2, <2>3 DEF IInv, vars
<1> QED BY <1>1, <1>2, <1>3, <1>4, <1>5 DEF Next

LEMMA AlwaysIInv == Spec => []IInv
BY InitIInv, NextIInv, PTL DEF Spec

-----------------------------------------------------------------------------
(* What holds of the selectors. *)

(* Whatever is selected in whatever order, and changed between: entities   *)
(* are cached under their own nodes, and as long as a selector runs the    *)
(* cache is that of the store it reads (maybeClearCache).                  *)
THEOREM TypeCorrect == Spec => []TypeOK
<1>1. IInv => TypeOK
  BY DEF IInv
<1> QED BY <1>1, AlwaysIInv, PTL

(* A selector that has returned has left nothing half built, and nothing   *)
(* of an older state as long as no saved state is loaded whose generation  *)
(* the cache has seen, however the entities name each other (README.md:30).*)
THEOREM FreshCache == Spec => []CacheIsFresh
<1>1. IInv => CacheIsFresh
  <2> SUFFICES ASSUME IInv, calls = <<>>, cacheGeneration = generation, NEW n \in DOMAIN cache
               PROVE  /\ cache[n] # Loading /\ cache[n].refs \subseteq DOMAIN cache
                      /\ ~behind => cache[n] = Built(n)
    BY DEF CacheIsFresh, Built
  <2>1. cache[n] # Loading /\ cache[n].refs \subseteq DOMAIN cache
    BY DEF IInv, GraphSound
  <2>2. ~behind => CacheSound(cache)
    BY DEF IInv, Whole
  <2> QED BY <2>1, <2>2 DEF CacheSound
<1> QED BY <1>1, AlwaysIInv, PTL

(* The selectors assemble the whole graph that the entities asked for lead *)
(* to, through every cycle and every missing entity, and cache nothing     *)
(* else (README.md:28), unless such a state has been loaded.               *)
THEOREM WholeGraph == Spec => []SelectsTheGraph
<1>1. IInv => SelectsTheGraph
  <2> SUFFICES ASSUME IInv, calls = <<>>, cacheGeneration = generation, ~behind
               PROVE  DOMAIN cache = Reach(asked)
    BY DEF SelectsTheGraph
  <2>1. /\ CacheSound(cache) /\ GraphSound(<<>>, cache)
        /\ asked \subseteq DOMAIN cache /\ DOMAIN cache \subseteq Reach(asked)
    BY DEF IInv, Whole
  <2>2. DOMAIN cache \in SUBSET Node /\ Closed(DOMAIN cache)
    BY <2>1 DEF CacheSound, GraphSound, Closed
  <2>3. Reach(asked) \subseteq DOMAIN cache
    BY <2>1, <2>2, ReachLeast
  <2> QED BY <2>1, <2>3
<1> QED BY <1>1, AlwaysIInv, PTL

(* An entity handed out stays the object it is, with the value it has, as  *)
(* long as the cache is kept: what a component compares with what it has   *)
(* rendered.                                                               *)
THEOREM StableEntities == Spec => EntitiesStay
<1>1. ASSUME IInv, [Next]_vars, cacheGeneration' = cacheGeneration, NEW n \in DOMAIN cache
      PROVE  n \in DOMAIN cache' /\ (cache[n] # Loading => cache'[n] = cache[n])
  <2>1. ASSUME NEW m, NEW below, Visit(m, below)
        PROVE  n \in DOMAIN cache' /\ cache'[n] = cache[n]
    <3>1. Current = cache
      BY <1>1, <2>1 DEF Visit, Current
    <3> QED BY <1>1, <2>1, <3>1 DEF Visit, With
  <2>2. CASE \E m \in Node : Select(m)
    BY <2>1, <2>2 DEF Select
  <2>3. CASE Descend
    BY <2>1, <2>3 DEF Descend
  <2>4. CASE Return
    BY <1>1, <2>4, Returns
  <2>5. CASE Change \/ Load \/ UNCHANGED vars
    BY <1>1, <2>5 DEF Change, Load, vars
  <2> QED BY <1>1, <2>2, <2>3, <2>4, <2>5 DEF Next
<1>2. IInv /\ [Next]_vars =>
        [cacheGeneration' = cacheGeneration =>
           \A n \in DOMAIN cache :
             n \in DOMAIN cache' /\ (cache[n] # Loading => cache'[n] = cache[n])]_vars
  BY <1>1
<1> QED BY <1>2, AlwaysIInv, PTL DEF Spec, EntitiesStay

(* Every step of a running selector leaves less to load or less to visit,  *)
(* and both are finite when the store is: on no cycle of entities that     *)
(* name each other does a selector run for ever.                           *)
THEOREM EverySelectorReturns == Spec => SelectorsEnd
<1>1. ASSUME IInv, [Next]_vars, vars' # vars, calls # <<>>
      PROVE  /\ ToLoad' \subseteq ToLoad /\ ToVisit' \subseteq ToVisit
             /\ ToLoad' # ToLoad \/ ToVisit' # ToVisit
  <2>1. CallsSound(calls, cache, DOMAIN cache) /\ GraphSound(calls, cache)
    BY <1>1 DEF IInv
  <2>2. CASE Descend
    <3>1. PICK m \in Top.left : Visit(m, Visited(calls, m))
      BY <2>2 DEF Descend, Visited
    <3> DEFINE ds == Visited(calls, m)
    <3>2. Visit(m, ds)
      BY <3>1
    <3> HIDE DEF ds
    <3>3. /\ m \in Node /\ m \in Refs(Top.node) /\ Top.node \in DOMAIN cache
          /\ Current = cache /\ ds \in Seq(Frame) /\ Len(calls) \in DOMAIN calls
          /\ DOMAIN ds = DOMAIN calls /\ ds[Len(calls)].left = Top.left \ {m}
          /\ \A i \in DOMAIN calls : ds[i].node = calls[i].node /\ ds[i].left \subseteq calls[i].left
      BY <1>1, <3>2, Descends DEF ds
    <3>4. Top.node \in Node /\ <<Top.node, m>> \in ToVisit
      BY <2>1, <3>3 DEF ToVisit, Top, GraphSound
    <3>5. CASE m \in DOMAIN cache /\ cache' = cache /\ calls' = ds
      <4>1. ToLoad' = ToLoad
        BY <3>5 DEF ToLoad
      <4>2. ToVisit' \subseteq ToVisit
        BY <3>3, <3>5 DEF ToVisit
      <4>3. \A i \in DOMAIN calls : calls[i].node = Top.node => i = Len(calls)
        BY <2>1, <3>3 DEF CallsSound, Top
      <4>4. <<Top.node, m>> \notin ToVisit'
        BY <3>3, <3>5, <4>3 DEF ToVisit
      <4> QED BY <3>4, <4>1, <4>2, <4>4
    <3>6. CASE /\ m \notin DOMAIN cache /\ entities[m] = Absent
               /\ cache' = With(cache, m, Missing(m)) /\ calls' = ds
      <4>1. /\ DOMAIN cache' = DOMAIN cache \cup {m} /\ cache'[m] = Missing(m)
            /\ \A n \in DOMAIN cache : cache'[n] = cache[n]
        BY <3>6 DEF With
      <4>2. Missing(m) # Loading
        BY DEF Missing, Loading
      <4>3. ToLoad' \subseteq ToLoad /\ m \in ToLoad /\ m \notin ToLoad'
        BY <3>3, <3>6, <4>1, <4>2 DEF ToLoad
      <4>4. ToVisit' \subseteq ToVisit
        BY <3>3, <3>6, <4>1 DEF ToVisit
      <4> QED BY <4>3, <4>4
    <3>7. CASE /\ m \notin DOMAIN cache /\ entities[m] # Absent
               /\ cache' = With(cache, m, Loading)
               /\ calls' = Append(ds, [node |-> m, left |-> entities[m].refs])
      <4> DEFINE f == [node |-> m, left |-> entities[m].refs]
      <4>1. /\ DOMAIN cache' = DOMAIN cache \cup {m} /\ cache'[m] = Loading
            /\ \A n \in DOMAIN cache : cache'[n] = cache[n]
        BY <3>7 DEF With
      <4>2. f \in Frame /\ f.node = m
        BY <1>1, <3>3, <3>7, RefsAreNodes DEF Frame, IInv, TypeOK
      <4> HIDE DEF f
      <4>3. /\ DOMAIN calls' = DOMAIN ds \cup {Len(ds) + 1} /\ calls'[Len(ds) + 1] = f
            /\ \A i \in DOMAIN ds : calls'[i] = ds[i]
        BY <3>3, <3>7, <4>2, AppendFields DEF f
      <4>4. ToLoad' \subseteq ToLoad
        BY <4>1 DEF ToLoad
      <4>5. ToVisit' \subseteq ToVisit
        BY <3>3, <3>7, <4>1, <4>2, <4>3 DEF ToVisit
      <4>6. \A i \in DOMAIN calls : calls[i].node = Top.node => i = Len(calls)
        BY <2>1, <3>3 DEF CallsSound, Top
      <4>7. <<Top.node, m>> \notin ToVisit'
        BY <3>3, <3>7, <4>1, <4>2, <4>3, <4>6 DEF ToVisit
      <4> QED BY <3>4, <4>4, <4>5, <4>7
    <3> QED BY <3>2, <3>3, <3>5, <3>6, <3>7 DEF Visit
  <2>3. CASE Return
    <3>1. /\ Top.node \in DOMAIN cache /\ cache[Top.node] = Loading
          /\ DOMAIN cache' = DOMAIN cache /\ cache'[Top.node] = Loaded(entities[Top.node])
          /\ \A n \in DOMAIN cache : n # Top.node => cache'[n] = cache[n]
          /\ DOMAIN calls' = DOMAIN calls \ {Len(calls)}
          /\ \A i \in DOMAIN calls' : calls'[i] = calls[i]
      BY <1>1, <2>3, Returns
    <3>2. Loaded(entities[Top.node]) # Loading /\ Top.node \in Node
      BY <2>1, <3>1 DEF Loaded, Loading, GraphSound
    <3>3. ToLoad' \subseteq ToLoad /\ Top.node \in ToLoad /\ Top.node \notin ToLoad'
      BY <3>1, <3>2 DEF ToLoad
    <3>4. ToVisit' \subseteq ToVisit
      BY <3>1 DEF ToVisit
    <3> QED BY <3>3, <3>4
  <2> QED BY <1>1, <2>2, <2>3 DEF Next, Select, Change, Load
<1>2. IInv /\ [Next]_vars =>
        [calls # <<>> =>
           /\ ToLoad' \subseteq ToLoad /\ ToVisit' \subseteq ToVisit
           /\ ToLoad' # ToLoad \/ ToVisit' # ToVisit]_vars
  BY <1>1
<1> QED BY <1>2, AlwaysIInv, PTL DEF Spec, SelectorsEnd

=============================================================================
