-------------------------- MODULE OpenStackProofs ---------------------------
(***************************************************************************)
(* The listings and look-ups of pkg/openstack/v2, for any number of        *)
(* callers, kinds, objects, names, page sizes and faults: what a walk over *)
(* the pages returns is exact, however the cloud changes between two pages.*)
(***************************************************************************)
EXTENDS OpenStack, FiniteSetTheorems, SequenceTheorems, WellFoundedInduction, TLAPS

-----------------------------------------------------------------------------
(* The order of a listing. *)

\* The objects of a listing: finitely many, each with an id of its own.
Ordered(S) ==
    /\ IsFiniteSet(S)
    /\ \A o \in S : o.id \in Nat
    /\ \A o, p \in S : o.id = p.id => o = p

Rank(o, S) == Cardinality(Before(o, S))

\* Fewer objects come before one than there are.
LEMMA RankBound ==
  ASSUME NEW S, Ordered(S), NEW o \in S
  PROVE  Rank(o, S) \in Nat /\ Rank(o, S) < Cardinality(S)
  <1>1. IsFiniteSet(S) /\ o.id \in Nat
      BY DEF Ordered
  <1>2. Before(o, S) \in SUBSET S /\ o \notin Before(o, S)
      BY <1>1 DEF Before
  <1>3. /\ IsFiniteSet(Before(o, S)) /\ Cardinality(Before(o, S)) <= Cardinality(S)
        /\ Cardinality(S) = Cardinality(Before(o, S)) => S = Before(o, S)
      BY <1>1, <1>2, FS_Subset
  <1>4. S # Before(o, S)
      BY <1>2
  <1>5. Cardinality(Before(o, S)) \in Nat /\ Cardinality(S) \in Nat
      BY <1>1, <1>3, FS_CardinalityType
  <1> QED
      BY <1>3, <1>4, <1>5 DEF Rank

\* A higher id has a higher rank.
LEMMA RankGrows ==
  ASSUME NEW S, Ordered(S), NEW o \in S, NEW p \in S, o.id < p.id
  PROVE  Rank(o, S) < Rank(p, S)
  <1>1. IsFiniteSet(S) /\ o.id \in Nat /\ p.id \in Nat /\ \A q \in S : q.id \in Nat
      BY DEF Ordered
  <1>2. /\ Before(o, S) \in SUBSET Before(p, S) /\ Before(p, S) \in SUBSET S
        /\ o \in Before(p, S) /\ o \notin Before(o, S)
      BY <1>1 DEF Before
  <1>3. IsFiniteSet(Before(p, S))
      BY <1>1, <1>2, FS_Subset
  <1>4. /\ Cardinality(Before(o, S)) <= Cardinality(Before(p, S))
        /\ Cardinality(Before(p, S)) = Cardinality(Before(o, S)) => Before(p, S) = Before(o, S)
      BY <1>2, <1>3, FS_Subset
  <1>5. Before(p, S) # Before(o, S)
      BY <1>2
  <1>6. Rank(o, S) \in Nat /\ Rank(p, S) \in Nat
      BY RankBound
  <1> QED
      BY <1>4, <1>5, <1>6 DEF Rank

\* Objects of one rank are one object.
LEMMA RankDecides ==
  ASSUME NEW S, Ordered(S), NEW o \in S, NEW p \in S
  PROVE  /\ Rank(o, S) = Rank(p, S) => o = p
         /\ Rank(o, S) < Rank(p, S) => o.id < p.id
         /\ o.id <= p.id => Rank(o, S) <= Rank(p, S)
  <1>1. /\ o.id \in Nat /\ p.id \in Nat /\ (o.id = p.id => o = p)
        /\ Rank(o, S) \in Nat /\ Rank(p, S) \in Nat
      BY RankBound DEF Ordered
  <1>2. (o.id < p.id => Rank(o, S) < Rank(p, S)) /\ (p.id < o.id => Rank(p, S) < Rank(o, S))
      BY RankGrows
  <1> QED
      BY <1>1, <1>2

\* There is an object of every rank, and Nth finds it.
LEMMA NthFacts ==
  ASSUME NEW S, Ordered(S), NEW n \in 1..Cardinality(S)
  PROVE  Nth(S, n) \in S /\ Rank(Nth(S, n), S) = n - 1
  <1> DEFINE rank == [o \in S |-> Rank(o, S)]
             ranks == 0..(Cardinality(S) - 1)
  <1>1. IsFiniteSet(S) /\ Cardinality(S) \in Nat
      BY FS_CardinalityType DEF Ordered
  <1>2. \A o \in S : Rank(o, S) \in Nat /\ Rank(o, S) < Cardinality(S)
      BY RankBound
  <1>3. rank \in [S -> ranks]
      BY <1>1, <1>2
  <1>4. \A o, p \in S : rank[o] = rank[p] => o = p
      BY RankDecides
  <1>5. rank \in Injection(S, ranks)
      BY <1>3, <1>4 DEF Injection, IsInjective
  <1>6. IsFiniteSet(ranks) /\ Cardinality(ranks) = Cardinality(S)
    <2>1. 0 \in Int /\ Cardinality(S) - 1 \in Int
        BY <1>1
    <2>2. /\ IsFiniteSet(ranks)
          /\ Cardinality(ranks) =
                 IF 0 > Cardinality(S) - 1 THEN 0 ELSE Cardinality(S) - 1 - 0 + 1
        BY <2>1, FS_Interval
    <2> QED
        BY <1>1, <2>2
  <1>7. rank \in Surjection(S, ranks)
      BY <1>5, <1>6, FS_Injection
  <1>8. n - 1 \in ranks
      BY <1>1
  <1>9. \E o \in S : rank[o] = n - 1
      BY <1>7, <1>8 DEF Surjection
  <1>10. \E o \in S : Cardinality(Before(o, S)) = n - 1
      BY <1>9 DEF Rank
  <1> QED
      BY <1>10 DEF Nth, Rank
-----------------------------------------------------------------------------
(* Pages. *)

\* Any part of a kind's objects is ordered.
LEMMA KindIsOrdered ==
  ASSUME TypeOK, NEW w
  PROVE  /\ Ordered(Listed(w)) /\ Listed(w) \subseteq Objects /\ Listed(w) \subseteq objects
         /\ \A S \in SUBSET Listed(w) : Ordered(S) /\ S \subseteq Objects
  <1>1. /\ objects \subseteq Objects /\ IsFiniteSet(objects)
        /\ \A o, p \in objects : o.kind = p.kind /\ o.id = p.id => o = p
      BY DEF TypeOK
  <1>2. Listed(w) \in SUBSET objects
      BY DEF Listed, Wanted
  <1>3. \A o \in Listed(w) : o.kind = w.kind
      BY DEF Listed, Wanted
  <1>4. \A o \in objects : o.id \in Nat
      BY <1>1 DEF Objects
  <1>5. ASSUME NEW S \in SUBSET Listed(w) PROVE Ordered(S) /\ S \subseteq Objects
    <2>1. S \in SUBSET objects
        BY <1>2
    <2>2. IsFiniteSet(S)
        BY <1>1, <2>1, FS_Subset
    <2> QED
        BY <1>1, <1>3, <1>4, <2>1, <2>2 DEF Ordered
  <1> QED
      BY <1>2, <1>5

\* A page has the objects it is made of in order, all of them when it is
\* short, and all up to its last one when it is full.
Paged(page, S, most) ==
    /\ page \in Seq(Objects) /\ Len(page) <= most
    /\ \A i \in 1..Len(page) : page[i] \in S
    /\ \A i, j \in 1..Len(page) : i < j => page[i].id < page[j].id
    /\ Len(page) < most => \A o \in S : \E i \in 1..Len(page) : page[i] = o
    /\ Len(page) = most =>
           \A o \in S : o.id <= page[Len(page)].id => \E i \in 1..Len(page) : page[i] = o

\* Every page is of that kind.
LEMMA PageFacts ==
  ASSUME NEW S, Ordered(S), S \subseteq Objects, NEW most \in Nat \ {0},
         NEW page, page = PageOf(S, most)
  PROVE  Paged(page, S, most)
  <1>1. PICK size : size = Cardinality(S)
      OBVIOUS
  <1>2. size \in Nat
      BY <1>1, FS_CardinalityType DEF Ordered
  <1>3. PICK n : n = PageLength(S, most)
      OBVIOUS
  <1>4. n = IF size < most THEN size ELSE most
      BY <1>1, <1>3 DEF PageLength
  <1>5. n \in Nat /\ n <= size /\ n <= most
        /\ (n < most => n = size)
      BY <1>2, <1>4
  <1>6. page = [i \in 1..n |-> Nth(S, i)]
      BY <1>3 DEF PageOf
  <1>7. \A i \in 1..n : Nth(S, i) \in S /\ Rank(Nth(S, i), S) = i - 1
    <2>1. ASSUME NEW i \in 1..n PROVE i \in 1..Cardinality(S)
        BY <1>1, <1>2, <1>5
    <2> QED
        BY <2>1, NthFacts
  <1>8. \A i \in 1..n : page[i] \in S /\ Rank(page[i], S) = i - 1
      BY <1>6, <1>7
  <1>9. page \in Seq(Objects) /\ Len(page) = n
    <2>1. page \in [1..n -> Objects]
        BY <1>6, <1>7
    <2> QED
        BY <1>5, <2>1
  <1>10. ASSUME NEW o \in S, Rank(o, S) < n PROVE \E i \in 1..n : page[i] = o
    <2>1. Rank(o, S) \in Nat
        BY RankBound
    <2>2. PICK i \in 1..n : i = Rank(o, S) + 1
        BY <1>5, <1>10, <2>1
    <2>3. page[i] \in S /\ Rank(page[i], S) = Rank(o, S)
        BY <1>8, <2>1, <2>2
    <2>4. page[i] = o
        BY <2>3, RankDecides
    <2> QED
        BY <2>4
  <1>11. \A i, j \in 1..n : i < j => page[i].id < page[j].id
    <2>1. ASSUME NEW i \in 1..n, NEW j \in 1..n, i < j PROVE page[i].id < page[j].id
      <3>1. page[i] \in S /\ page[j] \in S /\ Rank(page[i], S) < Rank(page[j], S)
          BY <1>5, <1>8, <2>1
      <3> QED
          BY <3>1, RankDecides
    <2> QED
        BY <2>1
  <1>12. ASSUME n < most, NEW o \in S PROVE \E i \in 1..n : page[i] = o
    <2>1. Rank(o, S) < n
        BY <1>1, <1>5, <1>12, RankBound
    <2> QED
        BY <1>10, <2>1
  <1>13. ASSUME n = most, NEW o \in S, o.id <= page[n].id
         PROVE  \E i \in 1..n : page[i] = o
    <2>1. n \in 1..n
        BY <1>5, <1>13
    <2>2. page[n] \in S /\ Rank(page[n], S) = n - 1
        BY <1>8, <2>1
    <2>3. Rank(o, S) <= n - 1 /\ Rank(o, S) \in Nat
        BY <1>13, <2>2, RankBound, RankDecides
    <2>4. Rank(o, S) < n
        BY <1>5, <2>3
    <2> QED
        BY <1>10, <2>4
  <1> QED
      BY <1>5, <1>8, <1>9, <1>11, <1>12, <1>13 DEF Paged
-----------------------------------------------------------------------------
(* Single requests. *)

\* Objects that can make up a cloud.
Sound(S) ==
    /\ S \subseteq Objects /\ IsFiniteSet(S)
    /\ \A o, p \in S : o.kind = p.kind /\ o.id = p.id => o = p

\* What any request leaves: a sound cloud, and the walks as they were.
Requested ==
    /\ Sound(objects') /\ quotas' \subseteq QuotaServices
    /\ UNCHANGED <<clients, topic, walk>>
    /\ faults' \in 0..MaxFaults /\ calls' \in 0..MaxCalls

\* An object is looked up by its id.
LEMMA ObjectThere ==
  ASSUME NEW k, NEW i, Exists(k, i), NEW o, o = TheObject(k, i)
  PROVE  o \in objects /\ o.kind = k /\ o.id = i
  <1>1. \E p \in OfKind(k) : p.id = i
      BY DEF Exists, IdsOf
  <1>2. o \in OfKind(k) /\ o.id = i
      BY <1>1 DEF TheObject
  <1> QED
      BY <1>2 DEF OfKind

\* A request that makes a sound cloud of a sound one.
LEMMA RequestIsSound ==
  ASSUME TypeOK, NEW c, calls < MaxCalls, NEW k, NEW effect, Request(c, k, effect),
         Sound(effect.objects), effect.quotas \subseteq QuotaServices
  PROVE  Requested
  <1>1. /\ quotas \subseteq QuotaServices /\ faults \in 0..MaxFaults /\ calls \in 0..MaxCalls
        /\ Sound(objects)
      BY DEF TypeOK, Sound
  <1>2. calls' = calls + 1 /\ UNCHANGED <<clients, topic, walk>>
      BY DEF Request, Begin
  <1>3. \/ objects' = objects /\ quotas' = quotas
        \/ objects' = effect.objects /\ quotas' = quotas \union effect.quotas
      BY DEF Request
  <1>4. faults' = faults \/ (faults < MaxFaults /\ faults' = faults + 1)
      BY DEF Request
  <1>5. Sound(objects') /\ quotas' \subseteq QuotaServices
      BY <1>1, <1>3
  <1>6. MaxCalls \in Nat /\ MaxFaults \in Nat
      BY CloudAssumption
  <1>7. faults' \in 0..MaxFaults /\ calls' \in 0..MaxCalls
      BY <1>1, <1>2, <1>4, <1>6
  <1> QED
      BY <1>2, <1>5, <1>7 DEF Requested

\* A request that leaves the objects alone.
LEMMA EffectIsSound ==
  ASSUME NEW new, Sound(new)
  PROVE  Sound(Effect(new).objects) /\ Effect(new).quotas \subseteq QuotaServices
  BY DEF Effect

\* A request that is refused leaves the objects as they are.
LEMMA RefusedIsSound ==
  ASSUME TypeOK
  PROVE  Sound(Refused.objects) /\ Refused.quotas \subseteq QuotaServices
  BY DEF Refused, TypeOK, Sound

\* An object takes another one's place, of the same kind and id.
LEMMA ReplacedIsSound ==
  ASSUME TypeOK, NEW o \in objects, NEW new \in Objects, new.kind = o.kind, new.id = o.id
  PROVE  Sound((objects \ {o}) \union {new})
  <1>1. /\ objects \subseteq Objects /\ IsFiniteSet(objects)
        /\ \A p, q \in objects : p.kind = q.kind /\ p.id = q.id => p = q
      BY DEF TypeOK
  <1>2. IsFiniteSet(objects \ {o})
      BY <1>1, FS_RemoveElement
  <1>3. IsFiniteSet((objects \ {o}) \union {new})
      BY <1>2, FS_AddElement
  <1>4. \A p, q \in (objects \ {o}) \union {new} : p.kind = q.kind /\ p.id = q.id => p = q
      BY <1>1
  <1> QED
      BY <1>1, <1>3, <1>4 DEF Sound

\* An object is added, with an id that no other one of its kind has.
LEMMA AddedIsSound ==
  ASSUME TypeOK, NEW k \in Kinds, NEW i \in Ids[k] \ IdsOf(k), NEW n \in Names, NEW p \in Nat
  PROVE  Sound(objects \union {Object(k, i, n, p)})
  <1>1. /\ objects \subseteq Objects /\ IsFiniteSet(objects)
        /\ \A o, q \in objects : o.kind = q.kind /\ o.id = q.id => o = q
      BY DEF TypeOK
  <1>2. PICK new : new = Object(k, i, n, p)
      OBVIOUS
  <1>3. i \in Nat \ {0}
      BY CloudAssumption
  <1>4. new \in Objects /\ new.kind = k /\ new.id = i
      BY <1>2, <1>3 DEF Object, Objects
  <1>5. \A o \in objects : o.kind = k => o.id # i
      BY DEF IdsOf, OfKind
  <1>6. IsFiniteSet(objects \union {new})
      BY <1>1, FS_AddElement
  <1>7. \A o, q \in objects \union {new} : o.kind = q.kind /\ o.id = q.id => o = q
      BY <1>1, <1>4, <1>5
  <1> QED
      BY <1>1, <1>2, <1>4, <1>6, <1>7 DEF Sound

\* An object is removed, its children with it, and what was attached to it is
\* attached to nothing.
LEMMA WithoutIsSound ==
  ASSUME TypeOK, NEW o
  PROVE  Sound(Without(o))
  <1>1. /\ objects \subseteq Objects /\ IsFiniteSet(objects)
        /\ \A p, q \in objects : p.kind = q.kind /\ p.id = q.id => p = q
      BY DEF TypeOK
  <1>2. PICK kept : kept = {p \in objects \ {o} :
            ~(o.kind \in DOMAIN Children /\ p.kind = Children[o.kind] /\ p.in = o.id)}
      OBVIOUS
  <1>3. PICK loose : loose = {p \in kept :
            o.kind \in DOMAIN Attached /\ p.kind = Attached[o.kind] /\ p.at = o.id}
      OBVIOUS
  <1>4. kept \in SUBSET objects /\ loose \in SUBSET objects /\ kept \ loose \in SUBSET objects
      BY <1>2, <1>3
  <1>5. PICK free : free = [p \in loose |-> [p EXCEPT !.at = 0]]
      OBVIOUS
  <1>6. PICK freed : freed = {[p EXCEPT !.at = 0] : p \in loose}
      OBVIOUS
  <1>7. Without(o) = (kept \ loose) \union freed
      BY <1>2, <1>3, <1>6 DEF Without
  <1>8. \A q \in freed : \E p \in loose : q = free[p]
      BY <1>5, <1>6
  <1>9. \A p \in loose : free[p] \in freed
      BY <1>5, <1>6
  <1>10. \A p \in loose : free[p] \in Objects /\ free[p].kind = p.kind /\ free[p].id = p.id
    <2>1. ASSUME NEW p \in loose
          PROVE  free[p] \in Objects /\ free[p].kind = p.kind /\ free[p].id = p.id
      <3>1. p \in Objects /\ free[p] = [p EXCEPT !.at = 0]
          BY <1>1, <1>4, <1>5
      <3> QED
          BY <3>1 DEF Objects
    <2> QED
        BY <2>1
  <1>11. IsFiniteSet(freed)
    <2>1. IsFiniteSet(loose)
        BY <1>1, <1>4, FS_Subset
    <2>2. free \in Surjection(loose, freed)
        BY <1>5, <1>8, <1>9 DEF Surjection
    <2> QED
        BY <2>1, <2>2, FS_Surjection
  <1>12. IsFiniteSet(kept \ loose)
      BY <1>1, <1>4, FS_Subset
  <1>13. IsFiniteSet(Without(o))
      BY <1>7, <1>11, <1>12, FS_Union
  <1>14. \A q \in Without(o) : /\ q \in Objects
                               /\ \E p \in objects : /\ p.kind = q.kind /\ p.id = q.id
                                                     /\ \/ p \notin loose /\ q = p
                                                        \/ p \in loose /\ q = free[p]
      BY <1>1, <1>4, <1>7, <1>8, <1>10
  <1>15. \A p, q \in Without(o) : p.kind = q.kind /\ p.id = q.id => p = q
    <2>1. ASSUME NEW p \in Without(o), NEW q \in Without(o), p.kind = q.kind, p.id = q.id
          PROVE  p = q
      <3>1. PICK a \in objects : /\ a.kind = p.kind /\ a.id = p.id
                                 /\ \/ a \notin loose /\ p = a
                                    \/ a \in loose /\ p = free[a]
          BY <1>14
      <3>2. PICK b \in objects : /\ b.kind = q.kind /\ b.id = q.id
                                 /\ \/ b \notin loose /\ q = b
                                    \/ b \in loose /\ q = free[b]
          BY <1>14
      <3>3. a = b
          BY <1>1, <2>1, <3>1, <3>2
      <3> QED
          BY <3>1, <3>2, <3>3
    <2> QED
        BY <2>1
  <1> QED
      BY <1>13, <1>14, <1>15 DEF Sound
\* The kinds that calls are about.
LEMMA KindKnown ==
  ASSUME TypeOK, NEW k, k \in topic
  PROVE  k \in Kinds
  BY CloudAssumption DEF TypeOK

\* A request is about a kind that there is.
LEMMA RequestKind ==
  ASSUME TypeOK, NEW c, NEW k, NEW effect, Request(c, k, effect)
  PROVE  k \in Kinds
  BY KindKnown DEF Request, Begin

\* Requests that read, or that change nothing the model keeps.
LEMMA GetRequested ==
  ASSUME TypeOK, calls < MaxCalls, NEW c, NEW k, Get(c, k) \/ Touch(c, k)
  PROVE  Requested
  <1>1. PICK i : Request(c, k, IF Exists(k, i) THEN Effect(objects) ELSE Refused)
      BY DEF Get, Touch
  <1>2. PICK e : e = IF Exists(k, i) THEN Effect(objects) ELSE Refused
      OBVIOUS
  <1>3. Sound(objects)
      BY DEF TypeOK, Sound
  <1>4. Sound(e.objects) /\ e.quotas \subseteq QuotaServices
      BY <1>2, <1>3, EffectIsSound, RefusedIsSound
  <1>5. Request(c, k, e)
      BY <1>1, <1>2
  <1> QED
      BY <1>4, <1>5, RequestIsSound

\* An object is created, or the creation is refused.
LEMMA CreateRequested ==
  ASSUME TypeOK, calls < MaxCalls, NEW c, NEW k, NEW parents, parents \subseteq Nat,
         Create(c, k, parents)
  PROVE  Requested
  <1>1. PICK n \in Names, p \in parents :
            \/ \E i \in Ids[k] \ IdsOf(k) :
                   Request(c, k, Effect(objects \union {Object(k, i, n, p)}))
            \/ Request(c, k, Refused)
      BY DEF Create
  <1>2. ASSUME NEW i \in Ids[k] \ IdsOf(k),
               Request(c, k, Effect(objects \union {Object(k, i, n, p)}))
        PROVE  Requested
    <2>1. k \in Kinds
        BY <1>2, RequestKind
    <2>2. Sound(objects \union {Object(k, i, n, p)})
        BY <2>1, AddedIsSound
    <2> QED
        BY <1>2, <2>2, EffectIsSound, RequestIsSound
  <1>3. ASSUME Request(c, k, Refused) PROVE Requested
      BY <1>3, RefusedIsSound, RequestIsSound
  <1> QED
      BY <1>1, <1>2, <1>3

\* An object is there afterwards, as the caller wants it.
LEMMA EnsureRequested ==
  ASSUME TypeOK, calls < MaxCalls, NEW c, NEW k, NEW parents, parents \subseteq Nat,
         Ensure(c, k, parents)
  PROVE  Requested
  <1>1. PICK n \in Names, p \in parents :
            \/ Request(c, k, Effect(objects))
            \/ \E i \in Ids[k] \ IdsOf(k) :
                   Request(c, k, Effect(objects \union {Object(k, i, n, p)}))
      BY DEF Ensure
  <1>2. ASSUME NEW i \in Ids[k] \ IdsOf(k),
               Request(c, k, Effect(objects \union {Object(k, i, n, p)}))
        PROVE  Requested
    <2>1. k \in Kinds
        BY <1>2, RequestKind
    <2>2. Sound(objects \union {Object(k, i, n, p)})
        BY <2>1, AddedIsSound
    <2> QED
        BY <1>2, <2>2, EffectIsSound, RequestIsSound
  <1>3. ASSUME Request(c, k, Effect(objects)) PROVE Requested
    <2>1. Sound(objects)
        BY DEF TypeOK, Sound
    <2> QED
        BY <1>3, <2>1, EffectIsSound, RequestIsSound
  <1> QED
      BY <1>1, <1>2, <1>3

\* An object is deleted, or the deletion is refused.
LEMMA DestroyRequested ==
  ASSUME TypeOK, calls < MaxCalls, NEW c, NEW k, Destroy(c, k)
  PROVE  Requested
  <1>1. PICK o, e : /\ e = Effect(Without(o)) \/ e = Refused
                    /\ Request(c, k, e)
      BY DEF Destroy
  <1>2. Sound(e.objects) /\ e.quotas \subseteq QuotaServices
      BY <1>1, EffectIsSound, RefusedIsSound, WithoutIsSound
  <1> QED
      BY <1>1, <1>2, RequestIsSound

\* An object is named anew, attached or detached.
LEMMA ReplaceRequested ==
  ASSUME TypeOK, calls < MaxCalls, NEW c, NEW k, NEW o, NEW new, NEW e,
         e = Refused \/ (/\ o \in objects /\ new \in Objects
                         /\ new.kind = o.kind /\ new.id = o.id
                         /\ e = Effect((objects \ {o}) \union {new})),
         Request(c, k, e)
  PROVE  Requested
  <1>1. Sound(e.objects) /\ e.quotas \subseteq QuotaServices
      BY EffectIsSound, RefusedIsSound, ReplacedIsSound
  <1> QED
      BY <1>1, RequestIsSound

\* An object is given another name.
LEMMA RenameRequested ==
  ASSUME TypeOK, calls < MaxCalls, NEW c, NEW k, Rename(c, k)
  PROVE  Requested
  <1>1. PICK i \in Ids[k], n \in Names :
            Request(c, k, IF Exists(k, i)
                          THEN Effect((objects \ {TheObject(k, i)})
                                         \union {[TheObject(k, i) EXCEPT !.name = n]})
                          ELSE Refused)
      BY DEF Rename
  <1>2. PICK o, new : o = TheObject(k, i) /\ new = [o EXCEPT !.name = n]
      OBVIOUS
  <1>3. PICK e : e = IF Exists(k, i) THEN Effect((objects \ {o}) \union {new}) ELSE Refused
      OBVIOUS
  <1>4. Request(c, k, e)
      BY <1>1, <1>2, <1>3
  <1>5. ASSUME Exists(k, i)
        PROVE  o \in objects /\ new \in Objects /\ new.kind = o.kind /\ new.id = o.id
    <2>1. o \in objects /\ o \in Objects
        BY <1>2, <1>5, ObjectThere DEF TypeOK
    <2> QED
        BY <1>2, <2>1 DEF Objects
  <1> QED
      BY <1>3, <1>4, <1>5, ReplaceRequested

\* An object is attached to another, or detached from it.
LEMMA AttachRequested ==
  ASSUME TypeOK, calls < MaxCalls, NEW c, NEW k, NEW k2, Attach(c, k, k2) \/ Detach(c, k, k2)
  PROVE  Requested
  <1>1. PICK i, j, e :
            /\ Request(c, k, e)
            /\ \/ e = Refused
               \/ /\ Exists(k, i) /\ (j = 0 \/ Exists(k2, j))
                  /\ e = Effect((objects \ {TheObject(k, i)})
                                   \union {[TheObject(k, i) EXCEPT !.at = j]})
    <2>1. CASE Attach(c, k, k2)
        BY <2>1 DEF Attach
    <2>2. CASE Detach(c, k, k2)
        BY <2>2 DEF Detach
    <2> QED
        BY <2>1, <2>2
  <1>2. PICK o, new : o = TheObject(k, i) /\ new = [o EXCEPT !.at = j]
      OBVIOUS
  <1>3. ASSUME Exists(k, i), j = 0 \/ Exists(k2, j)
        PROVE  o \in objects /\ new \in Objects /\ new.kind = o.kind /\ new.id = o.id
    <2>1. o \in objects /\ o \in Objects
        BY <1>2, <1>3, ObjectThere DEF TypeOK
    <2>2. j \in Nat
      <3>1. ASSUME Exists(k2, j) PROVE j \in Nat
        <4>1. TheObject(k2, j) \in Objects /\ TheObject(k2, j).id = j
            BY <3>1, ObjectThere DEF TypeOK
        <4> QED
            BY <4>1 DEF Objects
      <3> QED
          BY <1>3, <3>1
    <2> QED
        BY <1>2, <2>1, <2>2 DEF Objects
  <1> QED
      BY <1>1, <1>2, <1>3, ReplaceRequested

\* A quota is changed.
LEMMA QuotaRequested ==
  ASSUME TypeOK, calls < MaxCalls, NEW c, NEW s \in QuotaServices, NEW out, NEW e,
         e = [objects |-> objects, quotas |-> {s}, out |-> out],
         Request(c, "quota", e)
  PROVE  Requested
  <1>1. Sound(e.objects) /\ e.quotas \subseteq QuotaServices
      BY DEF TypeOK, Sound
  <1> QED
      BY <1>1, RequestIsSound
-----------------------------------------------------------------------------
(* The operations, sorted: each begins a listing or is a single request. *)

\* A listing is begun, of some kind and with some criteria.
LooksUp(c) ==
    \E want \in Wants, k \in Kinds, filter \in Criteria, match \in Criteria :
        Look(c, want, k, filter, match)

\* The criteria that the operations give.
LEMMA CriteriaGiven ==
  /\ All \in Criteria
  /\ \A n \in Names : ByName(n) \in Criteria
  /\ \A i \in Nat : ById(i) \in Criteria /\ ByParent(i) \in Criteria /\ ByServer(i) \in Criteria
  /\ \A i \in Nat, n \in Names : [ByName(n) EXCEPT !.in = i] \in Criteria
  <1>1. All \in Criteria
      BY DEF All, Criteria
  <1> QED
      BY <1>1 DEF ByName, ById, ByParent, ByServer, Criteria

\* A listing is about a kind there is.
LEMMA LookIsTyped ==
  ASSUME TypeOK, NEW c, NEW want \in Wants, NEW k, NEW filter \in Criteria,
         NEW match \in Criteria, Look(c, want, k, filter, match)
  PROVE  LooksUp(c)
  <1>1. k \in Kinds
      BY KindKnown DEF Look, Begin
  <1> QED
      BY <1>1 DEF LooksUp

\* The operations that list or look up begin a listing.
LEMMA ListingsLookUp ==
  ASSUME TypeOK, NEW c, NEW k, List(c, k) \/ FirstByName(c, k)
  PROVE  LooksUp(c)
  <1>1. "list" \in Wants /\ "first" \in Wants
      BY DEF Wants
  <1> QED
      BY <1>1, CriteriaGiven, LookIsTyped DEF List, FirstByName

\* The ones that search for something else than a name, or that answer by yes
\* or no.
LEMMA SearchesLookUp ==
  ASSUME TypeOK, NEW c,
         \/ ListDomains(c) \/ ListAttachedNetworksByServerId(c) \/ GetSubnetByNetworkID(c)
         \/ GetPortByNetIdAndIp(c) \/ GetAttachedPortByServerIdAndNetworkId(c)
         \/ GetHypervisorByHostname(c) \/ IsFlavorExist(c) \/ IsImageExistByName(c)
         \/ IsImageExist(c) \/ IsProjectExists(c) \/ IsDomainExists(c)
  PROVE  LooksUp(c)
  <1>1. {"list", "listSome", "first", "exists", "whether", "whetherSome"} \subseteq Wants
      BY DEF Wants
  <1>2. \A k \in {"network", "server", "image"} : Ids[k] \subseteq Nat
      BY CloudAssumption
  <1>3. CASE ListDomains(c)
    <2>1. PICK f \in {All} \union {ByName(n) : n \in Names} :
              Look(c, "listSome", "domain", f, All)
        BY <1>3 DEF ListDomains
    <2>2. f \in Criteria
        BY <2>1, CriteriaGiven
    <2> QED
        BY <1>1, <2>1, <2>2, CriteriaGiven, LookIsTyped
  <1>4. CASE ListAttachedNetworksByServerId(c)
    <2>1. PICK s \in Nat : Look(c, "list", "port", ByServer(s), All)
        BY <1>2, <1>4 DEF ListAttachedNetworksByServerId
    <2> QED
        BY <1>1, <2>1, CriteriaGiven, LookIsTyped
  <1>5. CASE GetSubnetByNetworkID(c)
    <2>1. PICK i \in Nat : Look(c, "first", "subnet", ByParent(i), ByParent(i))
        BY <1>2, <1>5 DEF GetSubnetByNetworkID
    <2> QED
        BY <1>1, <2>1, CriteriaGiven, LookIsTyped
  <1>6. CASE GetPortByNetIdAndIp(c)
    <2>1. PICK i \in Nat, n \in Names :
              Look(c, "first", "port", [ByName(n) EXCEPT !.in = i], [ByName(n) EXCEPT !.in = i])
        BY <1>2, <1>6 DEF GetPortByNetIdAndIp
    <2>2. [ByName(n) EXCEPT !.in = i] \in Criteria
        BY CriteriaGiven
    <2> QED
        BY <1>1, <2>1, <2>2, LookIsTyped
  <1>7. CASE GetAttachedPortByServerIdAndNetworkId(c)
    <2>1. PICK s \in Nat, i \in Nat : Look(c, "first", "port", ByServer(s), ByParent(i))
        BY <1>2, <1>7 DEF GetAttachedPortByServerIdAndNetworkId
    <2> QED
        BY <1>1, <2>1, CriteriaGiven, LookIsTyped
  <1>8. CASE GetHypervisorByHostname(c)
      BY <1>1, <1>8, CriteriaGiven, LookIsTyped DEF GetHypervisorByHostname
  <1>9. CASE IsFlavorExist(c)
      BY <1>1, <1>9, CriteriaGiven, LookIsTyped DEF IsFlavorExist
  <1>10. CASE IsImageExistByName(c)
      BY <1>1, <1>10, CriteriaGiven, LookIsTyped DEF IsImageExistByName
  <1>11. CASE IsImageExist(c)
    <2>1. PICK i \in Nat : Look(c, "exists", "image", ById(i), ById(i))
        BY <1>2, <1>11 DEF IsImageExist
    <2> QED
        BY <1>1, <2>1, CriteriaGiven, LookIsTyped
  <1>12. CASE IsProjectExists(c)
      BY <1>1, <1>12, CriteriaGiven, LookIsTyped DEF IsProjectExists
  <1>13. CASE IsDomainExists(c)
      BY <1>1, <1>13, CriteriaGiven, LookIsTyped DEF IsDomainExists
  <1> QED
      BY <1>3, <1>4, <1>5, <1>6, <1>7, <1>8, <1>9, <1>10, <1>11, <1>12, <1>13
\* Every operation of the first group begins a listing or is a request.
LEMMA LookUpSorted ==
  ASSUME TypeOK, NEW c, LookUp(c)
  PROVE  LooksUp(c) \/ Requested
  <1>0. calls < MaxCalls
      BY DEF LookUp, MayCall
  <1>1. CASE \/ ListNetworks(c) \/ ListSubnets(c) \/ ListRouters(c) \/ ListPorts(c)
             \/ ListSecurityGroups(c) \/ ListSecurityGroupRules(c)
             \/ ListSecurityGroupRulesPage(c) \/ ListLoadBalancers(c)
             \/ ListLoadBalancerFlavorProfiles(c) \/ ListLoadBalancerFlavors(c)
             \/ ListFloatingIps(c)
    <2>1. \E k : List(c, k)
        BY <1>1 DEF
           ListNetworks, ListSubnets, ListRouters, ListPorts, ListSecurityGroups,
           ListSecurityGroupRules, ListSecurityGroupRulesPage, ListLoadBalancers,
           ListLoadBalancerFlavorProfiles, ListLoadBalancerFlavors, ListFloatingIps
    <2> QED
        BY <1>0, <2>1, ListingsLookUp
  <1>2. CASE \/ ListDnsZones(c) \/ ListServers(c) \/ ListImages(c) \/ ListProjects(c)
             \/ ListUsers(c) \/ ListRoleAssignments(c) \/ ListEc2Credentials(c)
             \/ ListVolumeTypes(c) \/ ListVolumes(c) \/ ListShares(c) \/ ListHypervisors(c)
    <2>1. \E k : List(c, k)
        BY <1>2 DEF
           ListDnsZones, ListServers, ListImages, ListProjects, ListUsers, ListRoleAssignments,
           ListEc2Credentials, ListVolumeTypes, ListVolumes, ListShares, ListHypervisors
    <2> QED
        BY <1>0, <2>1, ListingsLookUp
  <1>3. CASE \/ GetNetworkByName(c) \/ GetSubnetByName(c) \/ GetSecurityGroupByName(c)
             \/ GetShareNetworkByName(c) \/ GetFloatingIpByIp(c) \/ GetDnsZoneByName(c)
             \/ GetImageByName(c) \/ GetProjectByName(c) \/ GetProjectIdByName(c)
             \/ GetUserByName(c) \/ GetUserIdByName(c) \/ GetRoleByName(c)
    <2>1. \E k : FirstByName(c, k)
        BY <1>3 DEF
           GetNetworkByName, GetSubnetByName, GetSecurityGroupByName, GetShareNetworkByName,
           GetFloatingIpByIp, GetDnsZoneByName, GetImageByName, GetProjectByName,
           GetProjectIdByName, GetUserByName, GetUserIdByName, GetRoleByName
    <2> QED
        BY <1>0, <2>1, ListingsLookUp
  <1>4. CASE \/ ListDomains(c) \/ ListAttachedNetworksByServerId(c) \/ GetSubnetByNetworkID(c)
             \/ GetPortByNetIdAndIp(c) \/ GetAttachedPortByServerIdAndNetworkId(c)
             \/ GetHypervisorByHostname(c) \/ IsFlavorExist(c) \/ IsImageExistByName(c)
             \/ IsImageExist(c) \/ IsProjectExists(c) \/ IsDomainExists(c)
      BY <1>4, SearchesLookUp
  <1>5. CASE \/ GetNetwork(c) \/ GetSubnet(c) \/ GetRouter(c) \/ GetSecurityGroup(c)
             \/ GetLoadBalancer(c) \/ GetLoadBalancerFlavorProfile(c)
             \/ GetLoadBalancerFlavor(c) \/ GetServer(c)
    <2>1. \E k : Get(c, k)
        BY <1>5 DEF
           GetNetwork, GetSubnet, GetRouter, GetSecurityGroup, GetLoadBalancer,
           GetLoadBalancerFlavorProfile, GetLoadBalancerFlavor, GetServer
    <2> QED
        BY <1>0, <2>1, GetRequested
  <1>6. CASE \/ GetImage(c) \/ GetComputeFlavor(c) \/ GetHypervisorUpTime(c) \/ GetProject(c)
             \/ GetVolume(c) \/ ValidToken(c) \/ GetServiceCatalog(c)
    <2>1. \E k : Get(c, k)
        BY <1>6 DEF
           GetImage, GetComputeFlavor, GetHypervisorUpTime, GetProject, GetVolume, ValidToken,
           GetServiceCatalog
    <2> QED
        BY <1>0, <2>1, GetRequested
  <1>7. CASE GetHypervisorStatistics(c)
    <2>1. Sound(objects) /\ Request(c, "hypervisor", Effect(objects))
        BY <1>7 DEF GetHypervisorStatistics, TypeOK, Sound
    <2> QED
        BY <1>0, <2>1, EffectIsSound, RequestIsSound
  <1>8. CASE ListContainers(c)
    <2>1. Request(c, "container", Refused)
        BY <1>8 DEF ListContainers
    <2> QED
        BY <1>0, <2>1, RefusedIsSound, RequestIsSound
  <1> QED
      BY <1>1, <1>2, <1>3, <1>4, <1>5, <1>6, <1>7, <1>8 DEF LookUp

\* The parents of new objects are objects.
LEMMA ParentsAreIds == ASSUME TypeOK, NEW k PROVE IdsOf(k) \subseteq Nat /\ Top \subseteq Nat
  BY DEF TypeOK, Objects, IdsOf, OfKind, Top

\* Every operation of the second group is a request.
LEMMA ChangeSorted ==
  ASSUME TypeOK, NEW c, Change(c)
  PROVE  Requested
  <1>0. calls < MaxCalls
      BY DEF Change, MayCall
  <1>1. CASE \/ CreateNetwork(c) \/ CreateRouter(c) \/ CreateSecurityGroup(c)
             \/ CreateShareNetwork(c) \/ CreateFloatingIp(c) \/ CreateDnsZone(c)
             \/ CreateProject(c) \/ CreateUser(c)
    <2>1. \E k : Create(c, k, Top)
        BY <1>1 DEF
           CreateNetwork, CreateRouter, CreateSecurityGroup, CreateShareNetwork,
           CreateFloatingIp, CreateDnsZone, CreateProject, CreateUser
    <2> QED
        BY <1>0, <2>1, CreateRequested, ParentsAreIds
  <1>2. CASE \/ CreateSubnet(c) \/ CreatePort(c) \/ CreateSecurityGroupRule(c)
             \/ CreateDnsRecord(c) \/ CreateEc2Credential(c)
    <2>1. \E k, k2 : Create(c, k, IdsOf(k2))
        BY <1>2 DEF
           CreateSubnet, CreatePort, CreateSecurityGroupRule, CreateDnsRecord,
           CreateEc2Credential
    <2> QED
        BY <1>0, <2>1, CreateRequested, ParentsAreIds
  <1>3. CASE \/ CreateContainer(c) \/ AddRole(c) \/ AssignRoleToUser(c)
    <2>1. \E k : Ensure(c, k, Top) \/ \E k2 : Ensure(c, k, IdsOf(k2))
        BY <1>3 DEF
           CreateContainer, AddRole, AssignRoleToUser
    <2> QED
        BY <1>0, <2>1, EnsureRequested, ParentsAreIds
  <1>4. CASE \/ DeleteNetwork(c) \/ DeleteSubnet(c) \/ DeleteRouter(c) \/ DeletePort(c)
             \/ DeleteSecurityGroup(c) \/ DeleteSecurityGroupRule(c) \/ DeleteShareNetwork(c)
             \/ DeleteLoadBalancer(c) \/ DeleteFloatingIP(c)
    <2>1. \E k : Destroy(c, k)
        BY <1>4 DEF
           DeleteNetwork, DeleteSubnet, DeleteRouter, DeletePort, DeleteSecurityGroup,
           DeleteSecurityGroupRule, DeleteShareNetwork, DeleteLoadBalancer, DeleteFloatingIP
    <2> QED
        BY <1>0, <2>1, DestroyRequested
  <1>5. CASE \/ DeleteDnsZone(c) \/ DeleteDnsRecord(c) \/ DeleteServer(c) \/ DeleteImage(c)
             \/ DeleteProject(c) \/ DeleteUser(c) \/ DeleteEc2Credential(c) \/ DeleteVolume(c)
             \/ DeleteShare(c)
    <2>1. \E k : Destroy(c, k)
        BY <1>5 DEF
           DeleteDnsZone, DeleteDnsRecord, DeleteServer, DeleteImage, DeleteProject,
           DeleteUser, DeleteEc2Credential, DeleteVolume, DeleteShare
    <2> QED
        BY <1>0, <2>1, DestroyRequested
  <1>6. CASE \/ UpdateNetwork(c) \/ UpdateSubnet(c) \/ UpdateRouter(c) \/ UpdatePort(c)
             \/ UpdateSecurityGroup(c) \/ UpdateServer(c) \/ UpdateImageProperty(c)
    <2>1. \E k : Rename(c, k)
        BY <1>6 DEF
           UpdateNetwork, UpdateSubnet, UpdateRouter, UpdatePort, UpdateSecurityGroup,
           UpdateServer, UpdateImageProperty
    <2> QED
        BY <1>0, <2>1, RenameRequested
  <1>7. CASE \/ AddNetworkTag(c) \/ AddRouterTag(c) \/ DisassociateFloatingIp(c)
    <2>1. \E k : Touch(c, k)
        BY <1>7 DEF
           AddNetworkTag, AddRouterTag, DisassociateFloatingIp
    <2> QED
        BY <1>0, <2>1, GetRequested
  <1>8. CASE \/ AttachNetworkToRouter(c) \/ AttachPortToInstance(c) \/ AssociateFloatingIp(c)
             \/ RemoveRouterInterface(c) \/ DeleteRouterInterface(c)
             \/ DeleteAttachedPortFromInstance(c)
    <2>1. \E k, k2 : Attach(c, k, k2) \/ Detach(c, k, k2)
        BY <1>8 DEF
           AttachNetworkToRouter, AttachPortToInstance, AssociateFloatingIp,
           RemoveRouterInterface, DeleteRouterInterface, DeleteAttachedPortFromInstance
    <2> QED
        BY <1>0, <2>1, AttachRequested
  <1>9. CASE \/ UpdateComputeQuotas(c) \/ UpdateComputeQuota(c) \/ UpdateStorageQuotas(c)
             \/ UpdateBlockStorageQuota(c) \/ UpdateNetworkQuotas(c) \/ UpdateNetworkQuota(c)
    <2>1. PICK s \in {"compute", "storage", "network"} : UpdateQuota(c, s)
        BY <1>9 DEF
           UpdateComputeQuotas, UpdateComputeQuota, UpdateStorageQuotas,
           UpdateBlockStorageQuota, UpdateNetworkQuotas, UpdateNetworkQuota
    <2>2. s \in QuotaServices
        BY DEF QuotaServices
    <2> QED
        BY <1>0, <2>1, <2>2, QuotaRequested DEF UpdateQuota
  <1>10. CASE UpdateSharedFileSystemQuota(c)
    <2>1. "share" \in QuotaServices
        BY DEF QuotaServices
    <2>2. PICK status \in {200, 201, 202} :
              Request(c, "quota", [objects |-> objects, quotas |-> {"share"},
                                   out |-> IF status = 200 THEN "ok" ELSE "error"])
        BY <1>10 DEF UpdateSharedFileSystemQuota
    <2> QED
        BY <1>0, <2>1, <2>2, QuotaRequested
  <1> QED
      BY <1>1, <1>2, <1>3, <1>4, <1>5, <1>6, <1>7, <1>8, <1>9, <1>10 DEF Change
-----------------------------------------------------------------------------
(* A walk, from page to page. *)

\* What is wanted of more is more.
LEMMA WantedGrows ==
  ASSUME NEW w, NEW S, NEW T, S \subseteq T
  PROVE  Wanted(w, S) \subseteq Wanted(w, T)
  BY DEF Wanted

\* The members of a list are its elements.
LEMMA Members ==
  ASSUME NEW s \in Seq(Objects), NEW o
  PROVE  o \in ToSet(s) <=> \E i \in 1..Len(s) : s[i] = o
  BY DEF ToSet

\* A list and a page that comes behind it.
LEMMA Appended ==
  ASSUME NEW s \in Seq(Objects), NEW t \in Seq(Objects), NEW list, list = s \o t
  PROVE  /\ list \in Seq(Objects) /\ Len(list) = Len(s) + Len(t)
         /\ \A i \in 1..Len(list) :
                \/ i \in 1..Len(s) /\ list[i] = s[i]
                \/ i \notin 1..Len(s) /\ i - Len(s) \in 1..Len(t) /\ list[i] = t[i - Len(s)]
         /\ ToSet(list) = ToSet(s) \union ToSet(t)
  <1>1. list \in Seq(Objects) /\ Len(list) = Len(s) + Len(t)
      OBVIOUS
  <1>2. Len(s) \in Nat /\ Len(t) \in Nat
      OBVIOUS
  <1>3. \A i \in 1..Len(list) :
            \/ i \in 1..Len(s) /\ list[i] = s[i]
            \/ i \notin 1..Len(s) /\ i - Len(s) \in 1..Len(t) /\ list[i] = t[i - Len(s)]
      BY <1>1, <1>2
  <1>4. \A i \in 1..Len(s) : i \in 1..Len(list) /\ list[i] = s[i]
      BY <1>1, <1>2
  <1>5. \A i \in 1..Len(t) : i + Len(s) \in 1..Len(list) /\ list[i + Len(s)] = t[i]
      BY <1>1, <1>2
  <1>6. ASSUME NEW o \in ToSet(list) PROVE o \in ToSet(s) \/ o \in ToSet(t)
    <2>1. PICK i \in 1..Len(list) : list[i] = o
        BY <1>1, <1>6, Members
    <2> QED
        BY <1>3, <2>1, Members
  <1>7. ASSUME NEW o, o \in ToSet(s) \/ o \in ToSet(t) PROVE o \in ToSet(list)
    <2>1. CASE o \in ToSet(s)
      <3>1. PICK i \in 1..Len(s) : s[i] = o
          BY <2>1, Members
      <3>2. i \in 1..Len(list) /\ list[i] = o
          BY <1>4, <3>1
      <3> QED
          BY <1>1, <3>2, Members
    <2>2. CASE o \in ToSet(t)
      <3>1. PICK i \in 1..Len(t) : t[i] = o
          BY <2>2, Members
      <3>2. PICK j \in 1..Len(list) : list[j] = o
          BY <1>5, <3>1
      <3> QED
          BY <1>1, <3>2, Members
    <2> QED
        BY <1>7, <2>1, <2>2
  <1> QED
      BY <1>1, <1>3, <1>6, <1>7

\* The order is kept, when the page begins behind the marker.
LEMMA StaysOrdered ==
  ASSUME NEW s \in Seq(Objects), NEW t \in Seq(Objects), NEW list, list = s \o t,
         NEW m \in Nat,
         \A i, j \in 1..Len(s) : i < j => s[i].id < s[j].id,
         \A i, j \in 1..Len(t) : i < j => t[i].id < t[j].id,
         \A i \in 1..Len(s) : s[i].id <= m,
         \A i \in 1..Len(t) : t[i].id > m
  PROVE  \A i, j \in 1..Len(list) : i < j => list[i].id < list[j].id
  <1>1. SUFFICES ASSUME NEW i \in 1..Len(list), NEW j \in 1..Len(list), i < j
                 PROVE  list[i].id < list[j].id
      OBVIOUS
  <1>2. /\ \/ i \in 1..Len(s) /\ list[i] = s[i]
           \/ i \notin 1..Len(s) /\ i - Len(s) \in 1..Len(t) /\ list[i] = t[i - Len(s)]
        /\ \/ j \in 1..Len(s) /\ list[j] = s[j]
           \/ j \notin 1..Len(s) /\ j - Len(s) \in 1..Len(t) /\ list[j] = t[j - Len(s)]
      BY Appended
  <1>3. Len(s) \in Nat /\ Len(t) \in Nat /\ i \in Nat /\ j \in Nat
      BY Appended
  <1>4. /\ \A k \in 1..Len(s) : s[k].id \in Nat
        /\ \A k \in 1..Len(t) : t[k].id \in Nat
    <2>1. \A o \in Objects : o.id \in Nat
        BY DEF Objects
    <2>2. /\ \A k \in 1..Len(s) : s[k] \in Objects
          /\ \A k \in 1..Len(t) : t[k] \in Objects
        OBVIOUS
    <2> QED
        BY <2>1, <2>2
  <1>5. CASE i \in 1..Len(s) /\ j \in 1..Len(s)
      BY <1>1, <1>2, <1>5
  <1>6. CASE i \in 1..Len(s) /\ j \notin 1..Len(s)
    <2>1. PICK k \in 1..Len(t) : list[j] = t[k]
        BY <1>2, <1>6
    <2>2. list[i] = s[i] /\ s[i].id <= m /\ t[k].id > m
        BY <1>2, <1>6
    <2>3. PICK a \in Nat, b \in Nat : a = s[i].id /\ b = t[k].id
        BY <1>4, <1>6
    <2>4. a <= m /\ b > m
        BY <2>2, <2>3
    <2>5. a < b
        BY <2>4
    <2> QED
        BY <2>1, <2>2, <2>3, <2>5
  <1>7. CASE i \notin 1..Len(s) /\ j \notin 1..Len(s)
    <2>1. PICK k \in 1..Len(t), l \in 1..Len(t) :
              /\ k = i - Len(s) /\ l = j - Len(s) /\ list[i] = t[k] /\ list[j] = t[l]
        BY <1>2, <1>7
    <2>2. k < l
        BY <1>1, <1>3, <2>1
    <2> QED
        BY <2>1, <2>2
  <1>8. ~(i \notin 1..Len(s) /\ j \in 1..Len(s))
      BY <1>1, <1>3
  <1> QED
      BY <1>5, <1>6, <1>7, <1>8
\* The fields of a walk.
LEMMA WalkFields ==
  ASSUME NEW w \in Walks
  PROVE  /\ w.got \in Seq(Objects) /\ w.marker \in Nat /\ w.limit \in Nat
         /\ w.want \in Wants \union {"none"}
  BY DEF Walks

\* The ids of what a walk has got are not above its marker.
LEMMA GotBelowMarker ==
  ASSUME NEW T, NEW S, NEW E, NEW w \in Walks, Exact(w, T, S, E), ByMarker(w),
         NEW got, got = w.got, NEW m, m = w.marker
  PROVE  /\ got \in Seq(Objects) /\ m \in Nat
         /\ \A i, j \in 1..Len(got) : i < j => got[i].id < got[j].id
         /\ \A i \in 1..Len(got) : got[i].id <= m
         /\ m = IF got = <<>> THEN 0 ELSE got[Len(got)].id
  <1>1. got \in Seq(Objects) /\ m \in Nat
      BY WalkFields
  <1>2. /\ \A i, j \in DOMAIN got : i < j => got[i].id < got[j].id
        /\ m = IF got = <<>> THEN 0 ELSE got[Len(got)].id
      BY DEF Exact, UpToMarker, Last
  <1>3. DOMAIN got = 1..Len(got) /\ Len(got) \in Nat
      BY <1>1
  <1>4. \A i, j \in 1..Len(got) : i < j => got[i].id < got[j].id
      BY <1>2, <1>3
  <1>5. ASSUME NEW i \in 1..Len(got) PROVE got[i].id <= m
    <2>1. got # <<>> /\ Len(got) \in 1..Len(got)
        BY <1>1, <1>3
    <2>2. m = got[Len(got)].id
        BY <1>2, <2>1
    <2>3. CASE i = Len(got)
        BY <1>1, <2>2, <2>3
    <2>4. CASE i < Len(got)
      <3>1. got[i].id < got[Len(got)].id
          BY <1>4, <2>1, <2>4
      <3>2. got[i] \in Objects
          BY <1>1
      <3>3. PICK a \in Nat : a = got[i].id
          BY <3>2 DEF Objects
      <3> QED
          BY <1>1, <2>2, <3>1, <3>3
    <2> QED
        BY <1>3, <2>3, <2>4
  <1> QED
      BY <1>1, <1>2, <1>4, <1>5

\* A list is in the order of its ids.
Rising(list) == \A i, j \in 1..Len(list) : i < j => list[i].id < list[j].id

\* A list has all that was there all the time, up to an id.
Covers(list, w, T, m) == \A o \in Wanted(w, T) : o.id <= m => o \in ToSet(list)

\* What a list is that a walk makes by its next page.
Extended(list, page, w, T, E) ==
    /\ page \in Seq(Objects) /\ Len(page) <= PageSize /\ list \in Seq(Objects)
    /\ ToSet(list) \subseteq Wanted(w, E)
    /\ Rising(list)
    /\ Len(page) < PageSize => Wanted(w, T) \subseteq ToSet(list)
    /\ Len(page) = PageSize => Covers(list, w, T, page[Len(page)].id)

\* What a walk has got with its next page.
LEMMA NextList ==
  ASSUME TypeOK, NEW w \in Walks, NEW T, NEW E, E \subseteq Objects, Exact(w, T, objects, E),
         ByMarker(w), NEW page, page = PageBehindMarker(w), NEW list, list = w.got \o page
  PROVE  Extended(list, page, w, T, E)
  <1>1. PICK got : got = w.got
      OBVIOUS
  <1>2. PICK m : m = w.marker
      OBVIOUS
  <1>3. PICK S : S = BehindMarker(w)
      OBVIOUS
  <1>4. /\ got \in Seq(Objects) /\ m \in Nat
        /\ \A i, j \in 1..Len(got) : i < j => got[i].id < got[j].id
        /\ \A i \in 1..Len(got) : got[i].id <= m
      BY <1>1, <1>2, GotBelowMarker
  <1>5. /\ T \subseteq objects /\ objects \subseteq E
        /\ ToSet(got) \subseteq Wanted(w, E)
        /\ \A o \in Wanted(w, T) : o.id <= m => o \in ToSet(got)
      BY <1>1, <1>2 DEF Exact, UpToMarker
  <1>6. Ordered(S) /\ S \subseteq Objects /\ S \subseteq Listed(w)
    <2>1. S \in SUBSET Listed(w)
        BY <1>3 DEF BehindMarker
    <2> QED
        BY <2>1, KindIsOrdered
  <1>7. /\ page \in Seq(Objects) /\ Len(page) <= PageSize
        /\ \A i \in 1..Len(page) : page[i] \in S
        /\ \A i, j \in 1..Len(page) : i < j => page[i].id < page[j].id
        /\ Len(page) < PageSize => \A o \in S : \E i \in 1..Len(page) : page[i] = o
        /\ Len(page) = PageSize =>
               \A o \in S : o.id <= page[Len(page)].id => \E i \in 1..Len(page) : page[i] = o
    <2>1. page = PageOf(S, PageSize) /\ PageSize \in Nat \ {0}
        BY <1>3, CloudAssumption DEF PageBehindMarker
    <2>2. Paged(page, S, PageSize)
        BY <1>6, <2>1, PageFacts
    <2> QED
        BY <2>2 DEF Paged
  <1>8. list \in Seq(Objects) /\ ToSet(list) = ToSet(got) \union ToSet(page)
    <2>1. got \in Seq(Objects) /\ page \in Seq(Objects) /\ list = got \o page
        BY <1>1, <1>4, <1>7
    <2> QED
        BY <2>1, Appended
  <1>9. ToSet(list) \subseteq Wanted(w, E)
    <2>1. ToSet(page) \subseteq S
        BY <1>7, Members
    <2>2. Listed(w) \subseteq Wanted(w, E)
        BY <1>5, WantedGrows DEF Listed
    <2> QED
        BY <1>5, <1>6, <1>8, <2>1, <2>2
  <1>10. Rising(list)
    <2>1. \A i \in 1..Len(page) : page[i].id > m
        BY <1>2, <1>3, <1>7 DEF BehindMarker
    <2>2. /\ got \in Seq(Objects) /\ page \in Seq(Objects) /\ list = got \o page /\ m \in Nat
          /\ \A i, j \in 1..Len(got) : i < j => got[i].id < got[j].id
          /\ \A i, j \in 1..Len(page) : i < j => page[i].id < page[j].id
          /\ \A i \in 1..Len(got) : got[i].id <= m
        BY <1>1, <1>4, <1>7
    <2> QED
        BY <2>1, <2>2, StaysOrdered DEF Rising
  <1>11. ASSUME NEW o \in Wanted(w, T) PROVE o \in ToSet(got) \/ o \in S
    <2>1. o \in T /\ o \in Listed(w) /\ o \in Objects
        BY <1>5, <1>11, WantedGrows DEF Wanted, Listed
    <2>2. o.id \in Nat
        BY <2>1 DEF Objects
    <2>3. o.id <= m \/ o.id > m
        BY <1>4, <2>2
    <2> QED
        BY <1>2, <1>3, <1>5, <2>1, <2>3 DEF BehindMarker
  <1>12. ASSUME NEW o \in S, \E i \in 1..Len(page) : page[i] = o PROVE o \in ToSet(list)
      BY <1>7, <1>8, <1>12, Members
  <1>13. Len(page) < PageSize => Wanted(w, T) \subseteq ToSet(list)
      BY <1>7, <1>8, <1>11, <1>12
  <1>14. Len(page) = PageSize => Covers(list, w, T, page[Len(page)].id)
      BY <1>7, <1>8, <1>11, <1>12 DEF Covers
  <1> QED
      BY <1>7, <1>8, <1>9, <1>10, <1>13, <1>14 DEF Extended

\* A walk that begins has nothing, and nothing is due.
LEMMA BeginsExact ==
  ASSUME NEW w, w.got = <<>>, w.marker = 0, NEW S, S \subseteq Objects
  PROVE  Exact(w, S, S, S)
  <1>1. ToSet(w.got) = {} /\ DOMAIN w.got = {}
      BY DEF ToSet
  <1>2. \A o \in Wanted(w, S) : o.id \in Nat \ {0}
      BY DEF Wanted, Objects
  <1>3. \A o \in Wanted(w, S) : ~(o.id <= 0)
      BY <1>2
  <1> QED
      BY <1>1, <1>3 DEF Exact, UpToMarker

\* Whatever becomes of the objects, a walk stays exact.
LEMMA StaysExact ==
  ASSUME NEW w, NEW T, NEW S, NEW E, Exact(w, T, S, E), NEW new
  PROVE  Exact(w, T \intersect new, new, E \union new)
  <1>1. /\ Wanted(w, T \intersect new) \subseteq Wanted(w, T)
        /\ Wanted(w, E) \subseteq Wanted(w, E \union new)
      BY WantedGrows
  <1> QED
      BY <1>1 DEF Exact, UpToMarker

\* The walk w behind a full page.
Advanced(w) ==
    [w EXCEPT !.marker = Last(PageBehindMarker(w)).id, !.got = @ \o PageBehindMarker(w)]

\* A full page makes it exact up to the last object of the page.
LEMMA AdvancesExact ==
  ASSUME TypeOK, NEW w \in Walks, NEW T, NEW E, E \subseteq Objects, Exact(w, T, objects, E),
         ByMarker(w), Len(PageBehindMarker(w)) = PageSize
  PROVE  /\ Advanced(w) \in Walks /\ Advanced(w).want = w.want
         /\ Exact(Advanced(w), T, objects, E)
  <1>1. PICK v, page : /\ page = PageBehindMarker(w) /\ v = Advanced(w)
                       /\ v = [w EXCEPT !.marker = Last(page).id, !.got = @ \o page]
      BY DEF Advanced
  <1>2. PICK list : list = w.got \o page
      OBVIOUS
  <1>3. PICK last : last = page[Len(page)]
      OBVIOUS
  <1>4. /\ page \in Seq(Objects) /\ list \in Seq(Objects)
        /\ ToSet(list) \subseteq Wanted(w, E)
        /\ \A i, j \in 1..Len(list) : i < j => list[i].id < list[j].id
        /\ \A o \in Wanted(w, T) : o.id <= last.id => o \in ToSet(list)
    <2>1. Extended(list, page, w, T, E)
        BY <1>1, <1>2, NextList
    <2>2. /\ page \in Seq(Objects) /\ list \in Seq(Objects)
          /\ ToSet(list) \subseteq Wanted(w, E) /\ Rising(list)
          /\ Covers(list, w, T, last.id)
        BY <1>1, <1>3, <2>1 DEF Extended
    <2> QED
        BY <2>2 DEF Covers, Rising
  <1>5. Len(page) \in Nat \ {0}
      BY <1>1, CloudAssumption
  <1>6. last \in Objects
      BY <1>3, <1>4, <1>5
  <1>7. last.id \in Nat
      BY <1>6 DEF Objects
  <1>8. v = [w EXCEPT !.marker = last.id, !.got = list]
      BY <1>1, <1>2, <1>3 DEF Last
  <1>9. /\ v \in Walks /\ v.want = w.want /\ v.kind = w.kind /\ v.filter = w.filter
        /\ v.marker = last.id /\ v.got = list
      BY <1>4, <1>7, <1>8 DEF Walks
  <1>10. list # <<>> /\ Last(list) = last
    <2>1. /\ Len(list) = Len(w.got) + Len(page) /\ Len(w.got) \in Nat
          /\ list[Len(list)] = page[Len(list) - Len(w.got)]
        BY <1>2, <1>4, <1>5, WalkFields
    <2>2. Len(list) # 0
        BY <1>5, <2>1
    <2>3. Len(list) - Len(w.got) = Len(page)
        BY <1>5, <2>1
    <2> QED
        BY <1>3, <2>1, <2>2, <2>3 DEF Last
  <1>11. Wanted(v, T) = Wanted(w, T) /\ Wanted(v, E) = Wanted(w, E)
      BY <1>9 DEF Wanted
  <1>12. DOMAIN list = 1..Len(list)
      BY <1>4
  <1>13. T \subseteq objects /\ objects \subseteq E
      BY DEF Exact
  <1>14. Exact(v, T, objects, E)
    <2>1. ToSet(v.got) \subseteq Wanted(v, E)
        BY <1>4, <1>9, <1>11
    <2>2. \A i, j \in DOMAIN v.got : i < j => v.got[i].id < v.got[j].id
        BY <1>4, <1>9, <1>12
    <2>3. v.got # <<>> /\ v.marker = Last(v.got).id
      <3>1. v.marker = last.id /\ v.got = list
          BY <1>9
      <3> QED
          BY <1>10, <3>1
    <2>4. \A o \in Wanted(v, T) : o.id <= v.marker => o \in ToSet(v.got)
        BY <1>4, <1>9, <1>11
    <2> QED
        BY <1>13, <2>1, <2>2, <2>3, <2>4 DEF Exact, UpToMarker
  <1> QED
      BY <1>1, <1>9, <1>14

\* The walk w behind a page at an offset.
Moved(w) == [w EXCEPT !.marker = @ + w.limit, !.got = @ \o PageAtOffset(w)]

\* A page at an offset is a list of what is there.
LEMMA OffsetPage ==
  ASSUME TypeOK, NEW w
  PROVE  /\ PageAtOffset(w) \in Seq(Objects)
         /\ \A i \in 1..Len(PageAtOffset(w)) : PageAtOffset(w)[i] \in Listed(w)
  <1>1. PICK S, page : S = BehindOffset(w) /\ page = PageAtOffset(w)
      OBVIOUS
  <1>2. PICK most \in Nat \ {0} : page = PageOf(S, most)
      BY <1>1, CloudAssumption DEF PageAtOffset
  <1>3. S \in SUBSET Listed(w)
      BY <1>1 DEF BehindOffset
  <1>4. Ordered(S) /\ S \subseteq Objects
      BY <1>3, KindIsOrdered
  <1>5. page \in Seq(Objects) /\ \A i \in 1..Len(page) : page[i] \in S
      BY <1>2, <1>4, PageFacts DEF Paged
  <1> QED
      BY <1>1, <1>3, <1>5

\* What a walk by offset has got with its next page.
LEMMA NextOffsetList ==
  ASSUME TypeOK, NEW w \in Walks, NEW T, NEW E, E \subseteq Objects, Exact(w, T, objects, E),
         NEW list, list = w.got \o PageAtOffset(w)
  PROVE  list \in Seq(Objects) /\ ToSet(list) \subseteq Wanted(w, E)
  <1>1. PICK got, page : got = w.got /\ page = PageAtOffset(w)
      OBVIOUS
  <1>2. page \in Seq(Objects) /\ \A i \in 1..Len(page) : page[i] \in Listed(w)
      BY <1>1, OffsetPage
  <1>3. got \in Seq(Objects)
      BY <1>1, WalkFields
  <1>4. list \in Seq(Objects) /\ ToSet(list) = ToSet(got) \union ToSet(page)
    <2>1. list = got \o page
        BY <1>1
    <2> QED
        BY <1>2, <1>3, <2>1, Appended
  <1>5. ToSet(page) \subseteq Listed(w)
      BY <1>2, Members
  <1>6. Listed(w) \subseteq Wanted(w, E) /\ ToSet(got) \subseteq Wanted(w, E)
      BY <1>1, WantedGrows DEF Listed, Exact
  <1> QED
      BY <1>4, <1>5, <1>6

\* A page at an offset adds only what is there.
LEMMA MovesExact ==
  ASSUME TypeOK, NEW w \in Walks, NEW T, NEW E, E \subseteq Objects, Exact(w, T, objects, E),
         ~ByMarker(w), PageAtOffset(w) # <<>>
  PROVE  /\ Moved(w) \in Walks /\ Moved(w).want = w.want
         /\ Exact(Moved(w), T, objects, E)
  <1>1. PICK v, list : /\ list = w.got \o PageAtOffset(w) /\ v = Moved(w)
                       /\ v = [w EXCEPT !.marker = @ + w.limit, !.got = list]
      BY DEF Moved
  <1>2. list \in Seq(Objects) /\ ToSet(list) \subseteq Wanted(w, E)
      BY <1>1, NextOffsetList
  <1>3. w.marker \in Nat /\ w.limit \in Nat
      BY DEF Walks
  <1>4. /\ v \in Walks /\ v.want = w.want /\ v.kind = w.kind /\ v.filter = w.filter
        /\ v.got = list
    <2>1. w.marker + w.limit \in Nat
        BY <1>3
    <2> QED
        BY <1>1, <1>2, <2>1 DEF Walks
  <1>5. Wanted(v, E) = Wanted(w, E) /\ ~ByMarker(v)
      BY <1>4 DEF Wanted, ByMarker
  <1>6. list # <<>>
    <2>1. PICK got, page : got = w.got /\ page = PageAtOffset(w) /\ list = got \o page
        BY <1>1
    <2>2. got \in Seq(Objects) /\ page \in Seq(Objects)
        BY <2>1, WalkFields, OffsetPage
    <2> QED
        BY <2>1, <2>2
  <1> QED
      BY <1>1, <1>2, <1>4, <1>5, <1>6 DEF Exact
-----------------------------------------------------------------------------
(* The invariant. *)

\* Caller c goes on with walk v, and the cloud is as it was.
Turns(c, v) ==
    /\ walk' = [walk EXCEPT ![c] = v]
    /\ UNCHANGED cloud
    /\ faults' \in 0..MaxFaults /\ calls' \in 0..MaxCalls

\* The walk of a caller that begins a listing.
Begun(v) == v \in Walks /\ v.want \in Wants /\ v.marker = 0 /\ v.got = <<>>

\* The bounds, and the walk of a caller in no call.
LEMMA Bounds ==
  ASSUME TypeOK
  PROVE  /\ MaxFaults \in Nat /\ MaxCalls \in Nat
         /\ faults \in 0..MaxFaults /\ calls \in 0..MaxCalls
         /\ faults < MaxFaults => faults + 1 \in 0..MaxFaults
         /\ calls < MaxCalls => calls + 1 \in 0..MaxCalls
  BY CloudAssumption DEF TypeOK

\* A caller in no call has the empty walk.
LEMMA NoWalkIsAWalk == NoWalk \in Walks /\ NoWalk.want = "none"
  <1>1. All \in Criteria
      BY CriteriaGiven
  <1>2. <<>> \in Seq(Objects)
      OBVIOUS
  <1> QED
      BY <1>1, <1>2 DEF NoWalk, Walks

\* A look-up begins a walk, or panics.
LEMMA LookUpTurns ==
  ASSUME TypeOK, NEW c \in Callers, calls < MaxCalls, LooksUp(c)
  PROVE  Requested \/ \E v : Begun(v) /\ Turns(c, v)
  <1>1. PICK want \in Wants, k \in Kinds, filter \in Criteria, match \in Criteria :
            Look(c, want, k, filter, match)
      BY DEF LooksUp
  <1>2. PICK walkOf : walkOf = [l \in Nat |-> [want |-> want, kind |-> k, filter |-> filter,
                                   match |-> match, limit |-> l, marker |-> 0, got |-> <<>>]]
      OBVIOUS
  <1>3. <<>> \in Seq(Objects)
      OBVIOUS
  <1>4. \A l \in Nat : Begun(walkOf[l])
      BY <1>2, <1>3 DEF Begun, Walks
  <1>5. calls' = calls + 1 /\ UNCHANGED <<cloud, faults>>
      BY <1>1 DEF Look, Begin
  <1>6. faults' \in 0..MaxFaults /\ calls' \in 0..MaxCalls
      BY <1>5, Bounds
  <1>7. walk' = walk \/ \E l \in Nat : walk' = [walk EXCEPT ![c] = walkOf[l]]
    <2>1. \/ walk' = walk
          \/ \E l \in Nat : walk' = [walk EXCEPT ![c] =
                 [want |-> want, kind |-> k, filter |-> filter, match |-> match,
                  limit |-> l, marker |-> 0, got |-> <<>>]]
        BY <1>1, CloudAssumption DEF Look
    <2> QED
        BY <1>2, <2>1
  <1>8. CASE walk' = walk
      BY <1>5, <1>6, <1>8 DEF Requested, TypeOK, Sound, cloud
  <1>9. ASSUME NEW l \in Nat, walk' = [walk EXCEPT ![c] = walkOf[l]]
        PROVE  \E v : Begun(v) /\ Turns(c, v)
    <2>1. Turns(c, walkOf[l])
        BY <1>5, <1>6, <1>9 DEF Turns
    <2> QED
        BY <1>4, <2>1
  <1> QED
      BY <1>7, <1>8, <1>9

\* The steps of a walk under way.
Paging(c) == NextPage(c) \/ NextOffsetPage(c) \/ PageFails(c)

\* The walk w goes on as v.
GoesOn(w, v) ==
    \/ ByMarker(w) /\ Len(PageBehindMarker(w)) = PageSize /\ v = Advanced(w)
    \/ ~ByMarker(w) /\ PageAtOffset(w) # <<>> /\ v = Moved(w)

\* A walk that goes on stays a walk, and exact.
LEMMA GoesOnExact ==
  ASSUME TypeOK, NEW w \in Walks, NEW T, NEW E, E \subseteq Objects, Exact(w, T, objects, E),
         NEW v, GoesOn(w, v)
  PROVE  v \in Walks /\ v.want = w.want /\ Exact(v, T, objects, E)
  <1>1. CASE ByMarker(w) /\ Len(PageBehindMarker(w)) = PageSize /\ v = Advanced(w)
      BY <1>1, AdvancesExact
  <1>2. CASE ~ByMarker(w) /\ PageAtOffset(w) # <<>> /\ v = Moved(w)
      BY <1>2, MovesExact
  <1> QED
      BY <1>1, <1>2 DEF GoesOn

\* A page that is refused, short or lost ends a walk; a full one carries it on.
LEMMA PageTurns ==
  ASSUME TypeOK, NEW c \in Callers, Paging(c)
  PROVE  Turns(c, NoWalk) \/ \E v : GoesOn(walk[c], v) /\ Turns(c, v)
  <1>1. faults' \in 0..MaxFaults
      BY Bounds DEF Paging, NextPage, NextOffsetPage, PageFails
  <1>2. calls \in 0..MaxCalls
      BY Bounds
  <1>3. ASSUME NEW outcome, EndWalk(c, outcome) PROVE Turns(c, NoWalk)
      BY <1>1, <1>2, <1>3 DEF EndWalk, Turns
  <1>4. CASE PageFails(c)
      BY <1>3, <1>4 DEF PageFails
  <1>5. CASE NextPage(c)
    <2>1. PICK w, page : w = walk[c] /\ page = PageBehindMarker(w)
        OBVIOUS
    <2>2. \/ \E outcome : EndWalk(c, outcome)
          \/ /\ Len(page) = PageSize
             /\ walk' = [walk EXCEPT ![c].marker = Last(page).id, ![c].got = @ \o page]
             /\ UNCHANGED <<cloud, calls>>
        BY <1>5, <2>1 DEF NextPage
    <2>0. ByMarker(w)
        BY <1>5, <2>1 DEF NextPage
    <2>3. CASE /\ Len(page) = PageSize
               /\ walk' = [walk EXCEPT ![c].marker = Last(page).id, ![c].got = @ \o page]
               /\ UNCHANGED <<cloud, calls>>
      <3>1. walk \in [Callers -> Walks]
          BY DEF TypeOK
      <3>2. walk' = [walk EXCEPT ![c] = [w EXCEPT !.marker = Last(page).id, !.got = @ \o page]]
          BY <2>1, <2>3, <3>1 DEF Walks
      <3>3. Turns(c, Advanced(w))
          BY <1>1, <1>2, <2>1, <2>3, <3>2 DEF Turns, Advanced
      <3> QED
          BY <2>0, <2>1, <2>3, <3>3 DEF GoesOn
    <2> QED
        BY <1>3, <2>2, <2>3
  <1>6. CASE NextOffsetPage(c)
    <2>1. PICK w, page : w = walk[c] /\ page = PageAtOffset(w)
        OBVIOUS
    <2>2. \/ \E outcome : EndWalk(c, outcome)
          \/ /\ page # <<>>
             /\ walk' = [walk EXCEPT ![c].marker = @ + w.limit, ![c].got = @ \o page]
             /\ UNCHANGED <<cloud, calls>>
        BY <1>6, <2>1 DEF NextOffsetPage
    <2>3. ~ByMarker(w)
        BY <1>6, <2>1 DEF NextOffsetPage
    <2>4. CASE /\ page # <<>>
               /\ walk' = [walk EXCEPT ![c].marker = @ + w.limit, ![c].got = @ \o page]
               /\ UNCHANGED <<cloud, calls>>
      <3>1. walk \in [Callers -> Walks]
          BY DEF TypeOK
      <3>2. walk' = [walk EXCEPT ![c] = [w EXCEPT !.marker = @ + w.limit, !.got = @ \o page]]
          BY <2>1, <2>4, <3>1 DEF Walks
      <3>3. Turns(c, Moved(w))
          BY <1>1, <1>2, <2>1, <2>4, <3>2 DEF Turns, Moved
      <3> QED
          BY <2>1, <2>3, <2>4, <3>3 DEF GoesOn
    <2> QED
        BY <1>3, <2>2, <2>4
  <1> QED
      BY <1>4, <1>5, <1>6 DEF Paging
\* Every step, sorted.
LEMMA StepSorted ==
  ASSUME TypeOK, NEW c \in Callers, Step(c)
  PROVE  \/ Requested
         \/ ~Walking(c) /\ \E v : Begun(v) /\ Turns(c, v)
         \/ Paging(c) /\ Turns(c, NoWalk)
         \/ Walking(c) /\ \E v : GoesOn(walk[c], v) /\ Turns(c, v)
  <1>1. CASE LookUp(c)
    <2>1. calls < MaxCalls /\ ~Walking(c)
        BY <1>1 DEF LookUp, MayCall
    <2> QED
        BY <1>1, <2>1, LookUpSorted, LookUpTurns
  <1>2. CASE Change(c)
      BY <1>2, ChangeSorted
  <1>3. CASE RequestLost(c)
    <2>1. /\ calls < MaxCalls /\ calls' = calls + 1
          /\ faults < MaxFaults /\ faults' = faults + 1
          /\ UNCHANGED <<cloud, walk>>
        BY <1>3 DEF RequestLost, MayCall, Begin
    <2>2. faults' \in 0..MaxFaults /\ calls' \in 0..MaxCalls
        BY <2>1, Bounds
    <2> QED
        BY <2>1, <2>2 DEF Requested, TypeOK, Sound, cloud
  <1>4. CASE Paging(c)
    <2>1. Walking(c)
        BY <1>4 DEF Paging, NextPage, NextOffsetPage, PageFails
    <2> QED
        BY <1>4, <2>1, PageTurns
  <1> QED
      BY <1>1, <1>2, <1>3, <1>4 DEF Step, Paging

\* The types and the order of the cloud, for every step; a listing goes on to a
\* walk again because its pages are lists of objects.
LEMMA StepTypes ==
  ASSUME TypeOK, WalkInv, NEW c \in Callers, Step(c), Watch
  PROVE  TypeOK'
  <1>1. /\ Sound(objects) /\ quotas \subseteq QuotaServices /\ clients \subseteq Clients
        /\ topic \in Topics /\ walk \in [Callers -> Walks]
        /\ through \in [Callers -> SUBSET Objects] /\ ever \in [Callers -> SUBSET Objects]
      BY DEF TypeOK, Sound
  <1>2. /\ Sound(objects') /\ quotas' \subseteq QuotaServices /\ UNCHANGED <<clients, topic>>
        /\ faults' \in 0..MaxFaults /\ calls' \in 0..MaxCalls
        /\ walk' \in [Callers -> Walks]
    <2>1. CASE Requested
        BY <1>1, <2>1 DEF Requested
    <2>2. ASSUME NEW v \in Walks, Turns(c, v)
          PROVE  /\ Sound(objects') /\ quotas' \subseteq QuotaServices /\ UNCHANGED <<clients, topic>>
                 /\ faults' \in 0..MaxFaults /\ calls' \in 0..MaxCalls
                 /\ walk' \in [Callers -> Walks]
      <3>1. walk' \in [Callers -> Walks]
          BY <1>1, <2>2 DEF Turns
      <3> QED
          BY <1>1, <2>2, <3>1 DEF Turns, cloud
    <2>3. ASSUME Walking(c), NEW v, GoesOn(walk[c], v)
          PROVE  v \in Walks
      <3>1. /\ walk[c] \in Walks /\ ever[c] \subseteq Objects
            /\ Exact(walk[c], through[c], objects, ever[c])
          BY <1>1, <2>3 DEF WalkInv
      <3> QED
          BY <2>3, <3>1, GoesOnExact
    <2> QED
        BY <2>1, <2>2, <2>3, StepSorted, NoWalkIsAWalk DEF Begun
  <1>3. objects' \subseteq Objects
      BY <1>2 DEF Sound
  <1>4. through' \in [Callers -> SUBSET Objects] /\ ever' \in [Callers -> SUBSET Objects]
      BY <1>1, <1>3 DEF Watch
  <1> QED
      BY <1>1, <1>2, <1>4 DEF TypeOK, Sound

\* The histories of a walk that begins, and of one that goes on.
LEMMA Watched ==
  ASSUME NEW d \in Callers, Watch, walk'[d].want # "none"
  PROVE  /\ ~Walking(d) => through'[d] = objects' /\ ever'[d] = objects'
         /\ Walking(d) => /\ through'[d] = through[d] \intersect objects'
                          /\ ever'[d] = ever[d] \union objects'
  BY DEF Watch, Walking

\* Every step leaves every walk exact.
LEMMA StepExact ==
  ASSUME TypeOK, WalkInv, NEW c \in Callers, Step(c), Watch
  PROVE  WalkInv'
  <1>1. SUFFICES ASSUME NEW d \in Callers, walk'[d].want # "none"
                 PROVE  Exact(walk'[d], through'[d], objects', ever'[d])
      BY DEF WalkInv, Walking, Exact, UpToMarker, Wanted, Admits, Given
  <1>2. walk \in [Callers -> Walks] /\ ever[d] \subseteq Objects /\ objects \subseteq Objects
      BY DEF TypeOK
  <1>3. CASE walk'[d] = walk[d]
    <2>1. Walking(d)
        BY <1>1, <1>3 DEF Walking
    <2>2. Exact(walk[d], through[d], objects, ever[d])
        BY <2>1 DEF WalkInv
    <2>3. Exact(walk[d], through[d] \intersect objects', objects', ever[d] \union objects')
        BY <2>2, StaysExact
    <2> QED
        BY <1>1, <1>3, <2>1, <2>3, Watched
  <1>4. CASE Requested
      BY <1>3, <1>4 DEF Requested
  <1>5. ASSUME NEW v, Turns(c, v) PROVE /\ d # c => walk'[d] = walk[d]
                                        /\ d = c => walk'[d] = v
                                        /\ objects' = objects
      BY <1>2, <1>5 DEF Turns, cloud
  <1>6. ASSUME ~Walking(c), NEW v, Begun(v), Turns(c, v), d = c
        PROVE  Exact(walk'[d], through'[d], objects', ever'[d])
    <2>1. walk'[d] = v /\ objects' = objects /\ v.got = <<>> /\ v.marker = 0
        BY <1>5, <1>6 DEF Begun
    <2>2. Exact(v, objects, objects, objects)
        BY <1>2, <2>1, BeginsExact
    <2>3. through'[d] = objects' /\ ever'[d] = objects'
        BY <1>1, <1>6, Watched
    <2> QED
        BY <2>1, <2>2, <2>3
  <1>7. ASSUME Turns(c, NoWalk), d = c PROVE FALSE
    <2>1. walk'[d] = NoWalk
        BY <1>5, <1>7
    <2> QED
        BY <1>1, <2>1, NoWalkIsAWalk
  <1>8. ASSUME Walking(c), NEW v, GoesOn(walk[c], v), Turns(c, v), d = c
        PROVE  Exact(walk'[d], through'[d], objects', ever'[d])
    <2>1. walk'[d] = v /\ objects' = objects
        BY <1>5, <1>8
    <2>2. Exact(walk[d], through[d], objects, ever[d]) /\ walk[d] \in Walks
        BY <1>2, <1>8 DEF WalkInv
    <2>3. Exact(v, through[d], objects, ever[d])
        BY <1>2, <1>8, <2>2, GoesOnExact
    <2>4. through'[d] = through[d] /\ ever'[d] = ever[d]
      <3>1. /\ through'[d] = through[d] \intersect objects
            /\ ever'[d] = ever[d] \union objects
          BY <1>1, <1>8, <2>1, Watched
      <3>2. through[d] \subseteq objects /\ objects \subseteq ever[d]
          BY <2>2 DEF Exact
      <3> QED
          BY <3>1, <3>2
    <2> QED
        BY <2>1, <2>3, <2>4
  <1>9. CASE d # c
      BY <1>3, <1>4, <1>5, <1>9, StepSorted
  <1> QED
      BY <1>4, <1>6, <1>7, <1>8, <1>9, StepSorted

\* Every step keeps the types and every walk exact.
LEMMA CloudStep == TypeOK /\ WalkInv /\ [Next]_vars => (TypeOK /\ WalkInv)'
  <1> SUFFICES ASSUME TypeOK, WalkInv, [Next]_vars PROVE (TypeOK /\ WalkInv)'
      OBVIOUS
  <1>1. CASE Next
      BY <1>1, StepTypes, StepExact DEF Next
  <1>2. CASE UNCHANGED vars
    <2>1. TypeOK'
        BY <1>2 DEF vars, cloud, TypeOK
    <2>2. WalkInv'
        BY <1>2 DEF vars, cloud, WalkInv, Walking, Exact, UpToMarker, Wanted, Admits, Given
    <2> QED
        BY <2>1, <2>2
  <1> QED
      BY <1>1, <1>2

\* The services give every object of a kind an id of its own, and a listing that
\* is under way has, up to its marker, all that was there since it began and
\* nothing that was not there at some time.
THEOREM ListingsStayExact == Spec => [](TypeOK /\ WalkInv)
  <1>1. Init => TypeOK /\ WalkInv
    <2> SUFFICES ASSUME Init PROVE TypeOK /\ WalkInv
        OBVIOUS
    <2>1. objects \in SUBSET Stock /\ Stock \subseteq Objects /\ IsFiniteSet(Stock)
        BY CloudAssumption DEF Init
    <2>2. IsFiniteSet(objects)
        BY <2>1, FS_Subset
    <2>3. \A o, p \in objects : o.kind = p.kind /\ o.id = p.id => o = p
        BY <2>1, CloudAssumption
    <2>4. walk = [d \in Callers |-> NoWalk] /\ walk \in [Callers -> Walks]
        BY NoWalkIsAWalk DEF Init
    <2>5. /\ quotas \subseteq QuotaServices /\ clients \subseteq Clients /\ topic \in Topics
          /\ faults \in 0..MaxFaults /\ calls \in 0..MaxCalls
        BY CloudAssumption DEF Init
    <2>6. through \in [Callers -> SUBSET Objects] /\ ever \in [Callers -> SUBSET Objects]
        BY DEF Init
    <2>7. TypeOK
        BY <2>1, <2>2, <2>3, <2>4, <2>5, <2>6 DEF TypeOK
    <2>8. WalkInv
        BY <2>4, NoWalkIsAWalk DEF WalkInv, Walking
    <2> QED
        BY <2>7, <2>8
  <1> QED
      BY <1>1, CloudStep, PTL DEF Spec
-----------------------------------------------------------------------------
(* What a call answers. *)

\* The first of some places in a list.
LEMMA FirstHit ==
  ASSUME NEW hits \in SUBSET Nat, hits # {}
  PROVE  (CHOOSE i \in hits : \A j \in hits : i <= j) \in hits
  <1>1. PICK R : R = OpToRel(<, Nat)
      OBVIOUS
  <1>2. IsWellFoundedOn(R, Nat)
      BY <1>1, NatLessThanWellFounded
  <1>3. PICK i \in hits : \A j \in hits : <<j, i>> \notin R
      BY <1>2, WFMin
  <1>4. \A a, b \in Nat : a < b => <<a, b>> \in R
      BY <1>1 DEF OpToRel
  <1>5. ASSUME NEW j \in hits PROVE i <= j
    <2>1. i \in Nat /\ j \in Nat
        OBVIOUS
    <2>2. ~(j < i)
        BY <1>3, <1>4, <2>1
    <2> QED
        BY <2>1, <2>2
  <1> QED
      BY <1>5

\* What an outcome r tells of the list it is made of.
Tells(r, w, list) ==
    /\ r.out = "list" => r.got = list
    /\ r.out \in {"found", "true"} =>
           \E i \in 1..Len(list) : /\ Matches(w.match, list[i])
                                   /\ r.out = "found" => r.got = <<list[i]>>
    /\ r.out \in {"notFound", "false"} =>
           \A i \in 1..Len(list) : ~Matches(w.match, list[i])
    /\ r.out = "error" => w.want \in {"listSome", "whetherSome"} /\ list = <<>>

\* What the loop over a list returns, by what the list has.
LEMMA AnswerFacts ==
  ASSUME NEW c, NEW w, w.want \in Wants, NEW list \in Seq(Objects), NEW r, r = Answer(c, w, list)
  PROVE  Tells(r, w, list)
  <1>1. SUFFICES
            /\ r.out = "list" => r.got = list
            /\ r.out \in {"found", "true"} =>
                   \E i \in 1..Len(list) : /\ Matches(w.match, list[i])
                                           /\ r.out = "found" => r.got = <<list[i]>>
            /\ r.out \in {"notFound", "false"} =>
                   \A i \in 1..Len(list) : ~Matches(w.match, list[i])
            /\ r.out = "error" => w.want \in {"listSome", "whetherSome"} /\ list = <<>>
      BY DEF Tells
  <1>2. PICK hits : hits = {i \in DOMAIN list : Matches(w.match, list[i])}
      OBVIOUS
  <1>3. PICK first : first = CHOOSE i \in hits : \A j \in hits : i <= j
      OBVIOUS
  <1>4. hits \in SUBSET Nat /\ \A i \in hits : i \in 1..Len(list) /\ Matches(w.match, list[i])
      BY <1>2
  <1>5. hits = {} => \A i \in 1..Len(list) : ~Matches(w.match, list[i])
      BY <1>2
  <1>6. hits # {} => first \in 1..Len(list) /\ Matches(w.match, list[first])
      BY <1>3, <1>4, FirstHit
  <1>7. r = IF w.want \in {"listSome", "whetherSome"} /\ list = <<>> THEN Outcome(c, "error", <<>>)
            ELSE CASE w.want \in {"list", "listSome"} -> Outcome(c, "list", list)
                   [] w.want = "first" /\ hits # {} -> Outcome(c, "found", <<list[first]>>)
                   [] w.want \in {"exists", "whether", "whetherSome"} /\ hits # {} ->
                          Outcome(c, "true", <<>>)
                   [] w.want \in {"whether", "whetherSome"} /\ hits = {} ->
                          Outcome(c, "false", <<>>)
                   [] OTHER -> Outcome(c, "notFound", <<>>)
      BY <1>2, <1>3 DEF Answer
  <1>8. \A out, got : Outcome(c, out, got).out = out /\ Outcome(c, out, got).got = got
      BY DEF Outcome
  <1>9. CASE w.want \in {"listSome", "whetherSome"} /\ list = <<>>
    <2>1. r.out = "error"
        BY <1>7, <1>8, <1>9
    <2> QED
        BY <1>9, <2>1
  <1>10. CASE w.want \in {"list", "listSome"} /\ ~(w.want = "listSome" /\ list = <<>>)
    <2>1. r.out = "list" /\ r.got = list
        BY <1>7, <1>8, <1>10
    <2> QED
        BY <2>1
  <1>11. CASE w.want = "first" /\ hits # {}
    <2>1. r.out = "found" /\ r.got = <<list[first]>>
        BY <1>7, <1>8, <1>11
    <2> QED
        BY <1>6, <1>11, <2>1
  <1>12. CASE w.want \in {"exists", "whether", "whetherSome"} /\ hits # {}
    <2>1. list # <<>>
        BY <1>6, <1>12
    <2>2. r.out = "true"
        BY <1>7, <1>8, <1>12, <2>1
    <2> QED
        BY <1>6, <1>12, <2>2
  <1>13. CASE /\ w.want \in {"whether", "whetherSome"} /\ hits = {}
              /\ ~(w.want = "whetherSome" /\ list = <<>>)
    <2>1. r.out = "false"
        BY <1>7, <1>8, <1>13
    <2> QED
        BY <1>5, <1>13, <2>1
  <1>14. CASE w.want \in {"first", "exists"} /\ hits = {}
    <2>1. r.out = "notFound"
        BY <1>7, <1>8, <1>14
    <2> QED
        BY <1>5, <1>14, <2>1
  <1> QED
      BY <1>9, <1>10, <1>11, <1>12, <1>13, <1>14 DEF Wants
\* A call that ends, ends by a page of its own.
LEMMA EndsByPage ==
  ASSUME TypeOK, WalkInv, NEW d \in Callers, Step(d), NEW c \in Callers, Ends(c)
  PROVE  Paging(c) /\ walk'[c] = NoWalk
  <1>1. walk \in [Callers -> Walks] /\ ever[c] \subseteq Objects
      BY DEF TypeOK
  <1>2. walk[c].want # "none" /\ walk'[c].want = "none" /\ Walking(c)
      BY DEF Ends, Walking
  <1>3. walk'[c] # walk[c]
      BY <1>2
  <1>4. ~Requested
      BY <1>3 DEF Requested
  <1>5. ASSUME NEW v, Turns(d, v) PROVE d = c /\ walk'[c] = v
      BY <1>1, <1>3, <1>5 DEF Turns
  <1>6. ASSUME ~Walking(d), NEW v, Begun(v), Turns(d, v) PROVE FALSE
      BY <1>2, <1>5, <1>6
  <1>7. ASSUME Walking(d), NEW v, GoesOn(walk[d], v), Turns(d, v)
        PROVE  FALSE
    <2>1. d = c /\ walk'[c] = v
        BY <1>5, <1>7
    <2>2. walk[c] \in Walks /\ Exact(walk[c], through[c], objects, ever[c])
        BY <1>1, <1>2 DEF WalkInv
    <2>3. v.want = walk[c].want
        BY <1>1, <1>7, <2>1, <2>2, GoesOnExact
    <2> QED
        BY <1>2, <2>1, <2>3
  <1> QED
      BY <1>4, <1>5, <1>6, <1>7, StepSorted

\* The list that the walk w ends with.
EndsWith(w, list) ==
    \/ /\ ByMarker(w) /\ list = w.got \o PageBehindMarker(w)
       /\ Len(PageBehindMarker(w)) < PageSize
    \/ ~ByMarker(w) /\ list = w.got \o PageAtOffset(w)

\* A call ends by a fault, by a marker that is gone, or by its last page.
LEMMA LastPage ==
  ASSUME TypeOK, NEW c \in Callers, Paging(c), walk'[c] = NoWalk,
         NEW w, w = walk[c], Walking(c)
  PROVE  \/ ret'.out = "error" /\ faults' > faults
         \/ ret'.out = "error" /\ MarkerGone(w) /\ ByMarker(w)
         \/ \E list : EndsWith(w, list) /\ ret' = Answer(c, w, list)
  <1>1. walk \in [Callers -> Walks] /\ w \in Walks
      BY DEF TypeOK
  <1>2. Outcome(c, "error", <<>>).out = "error"
      BY DEF Outcome
  <1>3. CASE PageFails(c)
    <2>1. ret' = Outcome(c, "error", <<>>) /\ faults' = faults + 1
        BY <1>3 DEF PageFails, EndWalk
    <2> QED
        BY <1>2, <2>1, Bounds
  <1>4. CASE NextPage(c)
    <2>0. PICK page : page = PageBehindMarker(w)
        OBVIOUS
    <2>1. \/ MarkerGone(w) /\ ret' = Outcome(c, "error", <<>>)
          \/ walk' = [walk EXCEPT ![c].marker = Last(page).id, ![c].got = @ \o page]
          \/ Len(page) < PageSize /\ ret' = Answer(c, w, w.got \o page)
        BY <1>4, <2>0 DEF NextPage, EndWalk
    <2>2. walk' # [walk EXCEPT ![c].marker = Last(page).id, ![c].got = @ \o page]
      <3>1. SUFFICES ASSUME walk' = [walk EXCEPT ![c].marker = Last(page).id,
                                                 ![c].got = @ \o page]
                     PROVE  FALSE
          OBVIOUS
      <3>2. walk'[c].want = walk[c].want
          BY <1>1, <3>1 DEF Walks
      <3> QED
          BY <3>2, NoWalkIsAWalk DEF Walking
    <2>3. ByMarker(w)
        BY <1>4 DEF NextPage
    <2> QED
        BY <1>2, <2>0, <2>1, <2>2, <2>3 DEF EndsWith
  <1>5. CASE NextOffsetPage(c)
    <2>0. PICK page : page = PageAtOffset(w)
        OBVIOUS
    <2>1. \/ walk' = [walk EXCEPT ![c].marker = @ + w.limit, ![c].got = @ \o page]
          \/ ret' = Answer(c, w, w.got \o page)
        BY <1>5, <2>0 DEF NextOffsetPage, EndWalk
    <2>2. walk' # [walk EXCEPT ![c].marker = @ + w.limit, ![c].got = @ \o page]
      <3>1. SUFFICES ASSUME walk' = [walk EXCEPT ![c].marker = @ + w.limit,
                                                 ![c].got = @ \o page]
                     PROVE  FALSE
          OBVIOUS
      <3>2. walk'[c].want = walk[c].want
          BY <1>1, <3>1 DEF Walks
      <3> QED
          BY <3>2, NoWalkIsAWalk DEF Walking
    <2>3. ~ByMarker(w)
        BY <1>5 DEF NextOffsetPage
    <2> QED
        BY <2>0, <2>1, <2>2, <2>3 DEF EndsWith
  <1> QED
      BY <1>3, <1>4, <1>5 DEF Paging

\* The marker of a walk is gone only when an object is, that was there before.
LEMMA GoneIsChange ==
  ASSUME NEW w \in Walks, NEW T, NEW E, Exact(w, T, objects, E), ByMarker(w), MarkerGone(w)
  PROVE  T # E
  <1>1. PICK got, m : got = w.got /\ m = w.marker
      OBVIOUS
  <1>2. got \in Seq(Objects) /\ m = IF got = <<>> THEN 0 ELSE got[Len(got)].id
      BY <1>1, GotBelowMarker
  <1>3. m # 0 /\ ~Exists(w.kind, m)
      BY <1>1 DEF MarkerGone
  <1>4. Len(got) \in 1..Len(got) /\ m = got[Len(got)].id
      BY <1>2, <1>3
  <1>5. PICK o : o = got[Len(got)]
      OBVIOUS
  <1>6. o \in ToSet(got)
      BY <1>2, <1>4, <1>5, Members
  <1>7. o \in E /\ o.kind = w.kind
      BY <1>1, <1>6 DEF Exact, Wanted
  <1>8. o \notin objects
      BY <1>3, <1>4, <1>5, <1>7 DEF Exists, IdsOf, OfKind
  <1> QED
      BY <1>7, <1>8 DEF Exact

\* A walk that ends with nothing had nothing to list.
LEMMA NothingListed ==
  ASSUME TypeOK, NEW w \in Walks, NEW T, NEW E, Exact(w, T, objects, E), ByMarker(w),
         NEW page, page = PageBehindMarker(w), Len(page) < PageSize, w.got \o page = <<>>
  PROVE  Listed(w) = {}
  <1>1. PICK got, m : got = w.got /\ m = w.marker
      OBVIOUS
  <1>2. got \in Seq(Objects) /\ m = IF got = <<>> THEN 0 ELSE got[Len(got)].id
      BY <1>1, GotBelowMarker
  <1>3. PICK S : S = BehindMarker(w)
      OBVIOUS
  <1>4. Ordered(S) /\ S \subseteq Objects
    <2>1. S \in SUBSET Listed(w)
        BY <1>3 DEF BehindMarker
    <2> QED
        BY <2>1, KindIsOrdered
  <1>5. page \in Seq(Objects) /\ \A o \in S : \E i \in 1..Len(page) : page[i] = o
    <2>1. page = PageOf(S, PageSize) /\ PageSize \in Nat \ {0}
        BY <1>3, CloudAssumption DEF PageBehindMarker
    <2> QED
        BY <1>4, <2>1, PageFacts DEF Paged
  <1>6. Len(got) = 0 /\ Len(page) = 0
    <2>1. Len(got \o page) = Len(got) + Len(page) /\ Len(got) \in Nat /\ Len(page) \in Nat
        BY <1>2, <1>5
    <2>2. Len(got \o page) = 0
        BY <1>1
    <2> QED
        BY <2>1, <2>2
  <1>7. m = 0
      BY <1>2, <1>6
  <1>8. S = {}
      BY <1>5, <1>6
  <1>9. \A o \in Listed(w) : o.id > 0
    <2>1. Listed(w) \subseteq Objects
        BY DEF TypeOK, Listed, Wanted
    <2> QED
        BY <2>1 DEF Objects
  <1> QED
      BY <1>1, <1>3, <1>7, <1>8, <1>9 DEF BehindMarker

\* The same of a walk by offset.
LEMMA NothingAtOffset ==
  ASSUME TypeOK, NEW w \in Walks, NEW T, NEW E, E \subseteq Objects, Exact(w, T, objects, E),
         w.got \o PageAtOffset(w) = <<>>
  PROVE  Listed(w) = {}
  <1>1. PICK got, page, S : got = w.got /\ page = PageAtOffset(w) /\ S = BehindOffset(w)
      OBVIOUS
  <1>2. PICK most \in Nat \ {0} : page = PageOf(S, most)
      BY <1>1, CloudAssumption DEF PageAtOffset
  <1>3. S \in SUBSET Listed(w)
      BY <1>1 DEF BehindOffset
  <1>4. Ordered(S) /\ S \subseteq Objects /\ Ordered(Listed(w))
      BY <1>3, KindIsOrdered
  <1>5. /\ page \in Seq(Objects)
        /\ Len(page) < most => \A o \in S : \E i \in 1..Len(page) : page[i] = o
    <2>1. Paged(page, S, most)
        BY <1>2, <1>4, PageFacts
    <2> QED
        BY <2>1 DEF Paged
  <1>6. Len(got) = 0 /\ Len(page) = 0 /\ got \in Seq(Objects)
    <2>1. got \in Seq(Objects)
        BY <1>1, WalkFields
    <2>2. Len(got \o page) = Len(got) + Len(page) /\ Len(got) \in Nat /\ Len(page) \in Nat
        BY <1>5, <2>1
    <2>3. Len(got \o page) = 0
        BY <1>1
    <2> QED
        BY <2>1, <2>2, <2>3
  <1>7. S = {}
      BY <1>2, <1>5, <1>6
  <1>8. w.marker = 0
      BY <1>1, <1>6 DEF Exact
  <1>9. \A o \in Listed(w) : Cardinality(Before(o, Listed(w))) \in Nat
      BY <1>4, RankBound DEF Rank
  <1>10. \A o \in Listed(w) : Cardinality(Before(o, Listed(w))) >= 0
      BY <1>9
  <1> QED
      BY <1>1, <1>7, <1>8, <1>10 DEF BehindOffset

\* A list that is returned, for the walk w.
Complete(list, w, T, E) ==
    /\ list \in Seq(Objects)
    /\ ToSet(list) \subseteq Wanted(w, E)
    /\ ByMarker(w) => /\ Wanted(w, T) \subseteq ToSet(list)
                      /\ Rising(list)
    /\ list = <<>> => Listed(w) = {}

\* What a walk ends with is complete.
LEMMA EndsComplete ==
  ASSUME TypeOK, NEW w \in Walks, NEW T, NEW E, E \subseteq Objects, Exact(w, T, objects, E),
         NEW list, EndsWith(w, list)
  PROVE  Complete(list, w, T, E)
  <1>1. CASE ~ByMarker(w) /\ list = w.got \o PageAtOffset(w)
    <2>1. list = <<>> => Listed(w) = {}
        BY <1>1, NothingAtOffset
    <2> QED
        BY <1>1, <2>1, NextOffsetList DEF Complete
  <1>2. CASE /\ ByMarker(w) /\ list = w.got \o PageBehindMarker(w)
             /\ Len(PageBehindMarker(w)) < PageSize
    <2>1. PICK page : page = PageBehindMarker(w)
        OBVIOUS
    <2>2. Extended(list, page, w, T, E)
        BY <1>2, <2>1, NextList
    <2>3. /\ list \in Seq(Objects) /\ ToSet(list) \subseteq Wanted(w, E)
          /\ Wanted(w, T) \subseteq ToSet(list) /\ Rising(list)
        BY <1>2, <2>1, <2>2 DEF Extended
    <2>4. list = <<>> => Listed(w) = {}
        BY <1>2, <2>1, NothingListed
    <2> QED
        BY <2>3, <2>4 DEF Complete
  <1> QED
      BY <1>1, <1>2 DEF EndsWith

\* What is known when the call of c ends, by an error or by a list.
LEMMA EndFacts ==
  ASSUME TypeOK, WalkInv, NEW d \in Callers, Step(d), NEW c \in Callers, Ends(c),
         NEW w, w = walk[c], NEW T, T = through[c], NEW E, E = ever[c]
  PROVE  \/ ret'.out = "error" /\ (faults' > faults \/ T # E)
         \/ \E list : Complete(list, w, T, E) /\ Tells(ret', w, list)
  <1>1. Walking(c) /\ w.want # "none"
      BY DEF Ends, Walking
  <1>2. w \in Walks /\ E \subseteq Objects
      BY DEF TypeOK
  <1>3. Exact(w, T, objects, E)
      BY <1>1 DEF WalkInv
  <1>4. w.want \in Wants
      BY <1>1, <1>2, WalkFields
  <1>5. \/ ret'.out = "error" /\ faults' > faults
        \/ ret'.out = "error" /\ MarkerGone(w) /\ ByMarker(w)
        \/ \E list : EndsWith(w, list) /\ ret' = Answer(c, w, list)
      BY <1>1, EndsByPage, LastPage
  <1>6. MarkerGone(w) /\ ByMarker(w) => T # E
      BY <1>2, <1>3, GoneIsChange
  <1>7. ASSUME NEW list, EndsWith(w, list), ret' = Answer(c, w, list)
        PROVE  Complete(list, w, T, E) /\ Tells(ret', w, list)
    <2>1. Complete(list, w, T, E)
        BY <1>2, <1>3, <1>7, EndsComplete
    <2>2. PICK r : r = ret'
        OBVIOUS
    <2>3. Tells(r, w, list)
        BY <1>4, <1>7, <2>1, <2>2, AnswerFacts DEF Complete
    <2> QED
        BY <2>1, <2>2, <2>3
  <1> QED
      BY <1>5, <1>6, <1>7

\* Whatever step is taken, a call that ends answers rightly.
LEMMA StepAnswers ==
  ASSUME TypeOK, WalkInv, NEW d \in Callers, Step(d), NEW c \in Callers
  PROVE  AnswersRightly(c)
  <1>1. SUFFICES ASSUME Ends(c) PROVE AnswersRightly(c)
      BY DEF AnswersRightly
  <1>2. PICK w, T, E : w = walk[c] /\ T = through[c] /\ E = ever[c]
      OBVIOUS
  <1>3. PICK r : r = ret'
      OBVIOUS
  <1>4. SUFFICES
            /\ r.out \in {"found", "true"} =>
                   \E o \in E : /\ o.kind = w.kind
                                /\ Matches(w.match, o)
                                /\ r.out = "found" => r.got = <<o>>
            /\ r.out \in {"notFound", "false"} /\ ByMarker(w) => ~\E o \in Wanted(w, T) : Matches(w.match, o)
            /\ r.out = "error" => \/ faults' > faults
                                  \/ T # E
                                  \/ w.want \in {"listSome", "whetherSome"} /\ Listed(w) = {}
      BY <1>2, <1>3 DEF AnswersRightly
  <1>5. CASE r.out = "error" /\ (faults' > faults \/ T # E)
      BY <1>5
  <1>6. ASSUME NEW list, Complete(list, w, T, E), Tells(r, w, list)
        PROVE  /\ r.out \in {"found", "true"} =>
                      \E o \in E : /\ o.kind = w.kind
                                   /\ Matches(w.match, o)
                                   /\ r.out = "found" => r.got = <<o>>
               /\ r.out \in {"notFound", "false"} /\ ByMarker(w) => ~\E o \in Wanted(w, T) : Matches(w.match, o)
               /\ r.out = "error" => w.want \in {"listSome", "whetherSome"} /\ Listed(w) = {}
    <2>1. /\ r.out \in {"found", "true"} =>
                 \E i \in 1..Len(list) : /\ Matches(w.match, list[i])
                                         /\ r.out = "found" => r.got = <<list[i]>>
          /\ r.out \in {"notFound", "false"} =>
                 \A i \in 1..Len(list) : ~Matches(w.match, list[i])
          /\ r.out = "error" => w.want \in {"listSome", "whetherSome"} /\ list = <<>>
        BY <1>6 DEF Tells
    <2>2. /\ list \in Seq(Objects) /\ (list = <<>> => Listed(w) = {})
          /\ ToSet(list) \subseteq Wanted(w, E)
          /\ ByMarker(w) => Wanted(w, T) \subseteq ToSet(list)
        BY <1>6 DEF Complete
    <2>3. ASSUME NEW i \in 1..Len(list) PROVE list[i] \in E /\ list[i].kind = w.kind
      <3>1. list[i] \in ToSet(list)
          BY <2>2, Members
      <3> QED
          BY <2>2, <3>1 DEF Wanted
    <2>4. ASSUME ByMarker(w), NEW o \in Wanted(w, T) PROVE \E i \in 1..Len(list) : list[i] = o
        BY <2>2, <2>4, Members
    <2>5. ASSUME r.out \in {"found", "true"}
          PROVE  \E o \in E : /\ o.kind = w.kind
                              /\ Matches(w.match, o)
                              /\ r.out = "found" => r.got = <<o>>
      <3>1. PICK i \in 1..Len(list) : /\ Matches(w.match, list[i])
                                      /\ r.out = "found" => r.got = <<list[i]>>
          BY <2>1, <2>5
      <3>2. list[i] \in E /\ list[i].kind = w.kind
          BY <2>3
      <3> QED
          BY <3>1, <3>2
    <2>6. ASSUME r.out \in {"notFound", "false"}, ByMarker(w), NEW o \in Wanted(w, T), Matches(w.match, o)
          PROVE  FALSE
        BY <2>1, <2>4, <2>6
    <2> QED
        BY <2>2, <2>1, <2>5, <2>6
  <1>7. \/ r.out = "error" /\ (faults' > faults \/ T # E)
        \/ \E list : Complete(list, w, T, E) /\ Tells(r, w, list)
      BY <1>1, <1>2, <1>3, EndFacts
  <1>8. CASE \E list : Complete(list, w, T, E) /\ Tells(r, w, list)
      BY <1>6, <1>8
  <1> QED
      BY <1>5, <1>7, <1>8

\* Whatever step is taken, a list that is returned is right.
LEMMA StepLists ==
  ASSUME TypeOK, WalkInv, NEW d \in Callers, Step(d), NEW c \in Callers
  PROVE  ListsRightly(c)
  <1>1. SUFFICES ASSUME Ends(c), ret'.out = "list" PROVE ListsRightly(c)
      BY DEF ListsRightly
  <1>2. PICK w, T, E : w = walk[c] /\ T = through[c] /\ E = ever[c]
      OBVIOUS
  <1>3. PICK r : r = ret'
      OBVIOUS
  <1>4. \/ ret'.out = "error"
        \/ \E l : Complete(l, w, T, E) /\ Tells(ret', w, l)
      BY <1>1, <1>2, EndFacts
  <1>5. PICK list : Complete(list, w, T, E) /\ Tells(r, w, list)
      BY <1>4, <1>1, <1>3
  <1>6. /\ list \in Seq(Objects) /\ ToSet(list) \subseteq Wanted(w, E)
        /\ ByMarker(w) => Rising(list) /\ Wanted(w, T) \subseteq ToSet(list)
      BY <1>5 DEF Complete
  <1>7. r.got = list
      BY <1>1, <1>3, <1>5 DEF Tells
  <1>8. DOMAIN list = 1..Len(list) /\ Len(list) \in Nat
      BY <1>6
  <1>9. ASSUME ByMarker(w), NEW i \in 1..Len(list), NEW j \in 1..Len(list), list[i].id = list[j].id
        PROVE  i = j
    <2>1. list[i] \in Objects /\ list[j] \in Objects
        BY <1>6
    <2>2. list[i].id \in Nat /\ list[j].id \in Nat
        BY <2>1 DEF Objects
    <2>3. ~(i < j) /\ ~(j < i)
        BY <1>6, <1>9, <2>2 DEF Rising
    <2> QED
        BY <1>8, <2>3
  <1> QED
      BY <1>2, <1>3, <1>6, <1>7, <1>8, <1>9 DEF ListsRightly

\* Look-ups are exact, whatever the callers, the kinds and names of objects, the
\* page size and the faults: GetNetworkByName and its likes return an object that
\* matches exactly and was there while they looked, "not found" and false mean
\* that no such object was there all the time, and an error has one of its causes.
THEOREM LookupsAreExact == Spec => LookupIsExact
  <1>1. TypeOK /\ WalkInv /\ [Next]_vars => [\A c \in Callers : AnswersRightly(c)]_vars
      BY StepAnswers DEF Next
  <1> QED
      BY <1>1, ListingsStayExact, PTL DEF Spec, LookupIsExact

\* Lists are exact, likewise: a list that AllPages returns has everything that
\* was there all the time, only what was there at some time, and nothing twice.
THEOREM ListingsAreExact == Spec => ListingIsExact
  <1>1. TypeOK /\ WalkInv /\ [Next]_vars => [\A c \in Callers : ListsRightly(c)]_vars
      BY StepLists DEF Next
  <1> QED
      BY <1>1, ListingsStayExact, PTL DEF Spec, ListingIsExact
=============================================================================
