------------------------ MODULE KeycloakGroupsProofs ------------------------
(***************************************************************************)
(* The group tree of KeycloakGroups and the walks through it, for any      *)
(* clients, paths and page size, on legacy and on current servers, with    *)
(* any number of faults and deletions.                                     *)
(***************************************************************************)
EXTENDS KeycloakGroups, SequenceTheorems, TLAPS

-----------------------------------------------------------------------------
(* Paths. *)

\* P is the first n segments of s.
Upto(P, s, n) == Len(P) = n /\ \A i \in 1..n : P[i] = s[i]

\* One name more of a path.
LEMMA OneNameMore ==
  ASSUME NEW s \in Seq(Names), NEW n \in Nat, n < Len(s), NEW P \in Seq(Names), Upto(P, s, n)
  PROVE  Upto(Append(P, s[n + 1]), s, n + 1)
  <1>1. s[n + 1] \in Names /\ Len(P) = n /\ \A i \in 1..n : P[i] = s[i]
      BY DEF Upto
  <1>2. /\ Len(Append(P, s[n + 1])) = n + 1
        /\ \A i \in 1..n : Append(P, s[n + 1])[i] = P[i]
        /\ Append(P, s[n + 1])[n + 1] = s[n + 1]
      BY <1>1
  <1>3. \A i \in 1..n + 1 : i \in 1..n \/ i = n + 1
      OBVIOUS
  <1> QED
      BY <1>1, <1>2, <1>3 DEF Upto

\* The first segment alone is the path up to it.
LEMMA FirstName ==
  ASSUME NEW s, NEW n
  PROVE  n = s[1] => Upto(<<n>>, s, 1)
  BY DEF Upto

\* All of the segments are the path itself.
LEMMA WholePath ==
  ASSUME NEW s \in Seq(Names), NEW P \in Seq(Names), Upto(P, s, Len(s))
  PROVE  P = s
  BY SeqEqual DEF Upto

\* Prefixes, name by name.
LEMMA PrefixByName ==
  ASSUME NEW s \in Seq(Names), NEW P \in Seq(Names)
  PROVE  IsPrefix(P, s) <=> Len(P) <= Len(s) /\ \A i \in 1..Len(P) : P[i] = s[i]
  <1>1. Len(P) \in Nat /\ Len(s) \in Nat
      OBVIOUS
  <1>2. SubSeq(P, 1, Len(P)) = P
      BY SubSeqFull
  <1>3. ASSUME Len(P) <= Len(s)
        PROVE  /\ SubSeq(s, 1, Len(P)) \in Seq(Names)
               /\ Len(SubSeq(s, 1, Len(P))) = Len(P)
               /\ \A i \in 1..Len(P) : SubSeq(s, 1, Len(P))[i] = s[i]
    <2>1. \A i \in 1..Len(P) : s[i] \in Names
        BY <1>1, <1>3
    <2>2. /\ SubSeq(s, 1, Len(P)) \in Seq(Names)
          /\ Len(SubSeq(s, 1, Len(P))) = IF 1 <= Len(P) THEN Len(P) - 1 + 1 ELSE 0
          /\ \A i \in 1..Len(P) - 1 + 1 : SubSeq(s, 1, Len(P))[i] = s[1 + i - 1]
        BY <1>1, <2>1, SubSeqProperties
    <2> QED
        BY <1>1, <2>2
  <1>4. ASSUME IsPrefix(P, s) PROVE Len(P) <= Len(s) /\ \A i \in 1..Len(P) : P[i] = s[i]
      BY <1>2, <1>3, <1>4 DEF IsPrefix
  <1>5. ASSUME Len(P) <= Len(s), \A i \in 1..Len(P) : P[i] = s[i] PROVE IsPrefix(P, s)
    <2>1. P = SubSeq(s, 1, Len(P))
        BY <1>3, <1>5, SeqEqual
    <2> QED
        BY <1>2, <1>5, <2>1 DEF IsPrefix
  <1> QED
      BY <1>4, <1>5

\* What lies below a group of a deleted path lies below it, too.
LEMMA PrefixGrows ==
  ASSUME NEW Q \in Seq(Names), NEW P \in Seq(Names), NEW n \in Names, IsPrefix(Q, P)
  PROVE  IsPrefix(Q, Append(P, n))
  <1>1. Len(Q) <= Len(P) /\ \A i \in 1..Len(Q) : Q[i] = P[i]
      BY PrefixByName
  <1>2. /\ Append(P, n) \in Seq(Names) /\ Len(Append(P, n)) = Len(P) + 1
        /\ \A i \in 1..Len(P) : Append(P, n)[i] = P[i]
      OBVIOUS
  <1>3. Len(Q) <= Len(Append(P, n)) /\ \A i \in 1..Len(Q) : Q[i] = Append(P, n)[i]
      BY <1>1, <1>2
  <1> QED
      BY <1>2, <1>3, PrefixByName

\* The segments up to some level are a prefix.
LEMMA UptoIsPrefix ==
  ASSUME NEW s \in Seq(Names), NEW P \in Seq(Names), NEW n \in 0..Len(s), Upto(P, s, n)
  PROVE  IsPrefix(P, s)
  BY PrefixByName DEF Upto

\* The end of a path, and what was before it.
LEMMA AppendIsInjective ==
  ASSUME NEW P \in Seq(Names), NEW Q \in Seq(Names), NEW m \in Names, NEW n \in Names
  PROVE  /\ Append(P, m) = Append(Q, n) => P = Q /\ m = n
         /\ Append(P, m) = <<n>> => P = <<>> /\ m = n
         /\ Last(Append(P, m)) = m /\ Last(<<n>>) = n
         /\ Append(P, m) # <<>>
  <1>1. /\ Len(Append(P, m)) = Len(P) + 1 /\ Append(P, m)[Len(P) + 1] = m
        /\ \A i \in 1..Len(P) : Append(P, m)[i] = P[i]
        /\ Len(Append(Q, n)) = Len(Q) + 1 /\ Append(Q, n)[Len(Q) + 1] = n
        /\ \A i \in 1..Len(Q) : Append(Q, n)[i] = Q[i]
      OBVIOUS
  <1>2. ASSUME Append(P, m) = Append(Q, n) PROVE P = Q /\ m = n
    <2>1. Len(P) = Len(Q) /\ m = n
        BY <1>1, <1>2
    <2>2. \A i \in 1..Len(P) : P[i] = Q[i]
        BY <1>1, <1>2, <2>1
    <2> QED
        BY <2>1, <2>2, SeqEqual
  <1>3. ASSUME Append(P, m) = <<n>> PROVE P = <<>> /\ m = n
    <2>1. Len(P) + 1 = 1 /\ Append(P, m)[1] = n
        BY <1>1, <1>3
    <2>2. Len(P) = 0
        BY <2>1
    <2> QED
        BY <1>1, <2>1, <2>2, EmptySeq
  <1>4. Last(Append(P, m)) = m /\ Last(<<n>>) = n
      BY <1>1 DEF Last
  <1>5. Append(P, m) # <<>>
      BY <1>1
  <1> QED
      BY <1>2, <1>3, <1>4, <1>5
-----------------------------------------------------------------------------
(* The tree. *)

Group == [parent : Nat, path : Seq(Names)]

ServerTypes == groups \in Seq(Group) /\ alive \subseteq Created

\* The path of a group is its parent's and a name.
PathsExtendParents ==
    \A g \in Created :
        /\ groups[g].parent \in 0..g - 1
        /\ \E n \in Names : groups[g].path = PathOf(groups[g].parent, n)

PathsAreUnique == \A g, h \in alive : groups[g].path = groups[h].path => g = h

ParentsExist == \A g \in alive : groups[g].parent # NoGroup => groups[g].parent \in alive

\* P leads to, or towards, something that somebody asked for.
OnAsked(P) ==
    \/ \E s \in Paths : IsPrefix(P, s)
    \/ \E raw \in RawPaths : \E i, j \in DOMAIN raw :
          Segments(raw, i, j) /\ IsPrefix(P, SubSeq(raw, i, j))

ServerInv ==
    /\ ServerTypes /\ PathsExtendParents /\ PathsAreUnique /\ ParentsExist
    /\ \A g \in Created : OnAsked(groups[g].path)

Position == Created \union {NoGroup}

\* What is known of every group.
LEMMA GroupFacts ==
  ASSUME ServerTypes, PathsExtendParents, NEW g \in Created
  PROVE  /\ g \in Nat \ {0}
         /\ groups[g].parent \in Position /\ groups[g].parent # g
         /\ groups[g].path \in Seq(Names) /\ groups[g].path # <<>>
         /\ GroupName(g) \in Names /\ groups[g].path = PathOf(groups[g].parent, GroupName(g))
  <1>1. /\ Len(groups) \in Nat /\ g \in Nat \ {0} /\ g <= Len(groups)
        /\ \A h \in Created : groups[h].parent \in Nat /\ groups[h].path \in Seq(Names)
    <2>1. Len(groups) \in Nat /\ \A h \in Created : groups[h] \in Group
        BY DEF ServerTypes, Created
    <2>2. \A x \in Group : x.parent \in Nat /\ x.path \in Seq(Names)
        BY DEF Group
    <2> QED
        BY <2>1, <2>2 DEF Created
  <1>2. groups[g].parent \in Position /\ groups[g].parent # g
      BY <1>1 DEF PathsExtendParents, Position, Created, NoGroup
  <1>3. PICK n \in Names : groups[g].path = PathOf(groups[g].parent, n)
      BY DEF PathsExtendParents
  <1>4. CASE groups[g].parent = NoGroup
    <2>1. groups[g].path = <<n>>
        BY <1>3, <1>4 DEF PathOf
    <2>2. Last(<<n>>) = n /\ <<n>> # <<>>
        BY DEF Last
    <2> QED
        BY <1>1, <1>2, <1>3, <2>1, <2>2 DEF GroupName
  <1>5. CASE groups[g].parent # NoGroup
    <2>1. PICK P \in Seq(Names) : P = groups[groups[g].parent].path
        BY <1>1, <1>2, <1>5 DEF Position
    <2>2. groups[g].path = Append(P, n)
        BY <1>3, <1>5, <2>1 DEF PathOf
    <2>3. Last(Append(P, n)) = n /\ Append(P, n) # <<>>
        BY AppendIsInjective
    <2> QED
        BY <1>1, <1>2, <1>3, <2>2, <2>3 DEF GroupName
  <1> QED
      BY <1>4, <1>5

\* Two positions with children on the same path are the same, or on one path.
LEMMA PathOfIsInjective ==
  ASSUME ServerTypes, PathsExtendParents, NEW p \in Position, NEW q \in Position,
         NEW m \in Names, NEW n \in Names, PathOf(p, m) = PathOf(q, n)
  PROVE  /\ m = n
         /\ p = NoGroup <=> q = NoGroup
         /\ p # NoGroup => p \in Created /\ q \in Created /\ groups[p].path = groups[q].path
  <1>1. \A g \in Created : groups[g].path \in Seq(Names) /\ groups[g].path # <<>>
      BY GroupFacts
  <1>2. \A g \in Position : g # NoGroup => g \in Created
      BY DEF Position
  <1>3. CASE p = NoGroup /\ q = NoGroup
      BY <1>3 DEF PathOf
  <1>4. CASE p = NoGroup /\ q # NoGroup
    <2>1. PICK Q \in Seq(Names) : Q = groups[q].path /\ Q # <<>>
        BY <1>1, <1>2, <1>4
    <2>2. Append(Q, n) = <<m>>
        BY <1>4, <2>1 DEF PathOf
    <2>3. Append(Q, n) = <<m>> => Q = <<>>
        BY AppendIsInjective
    <2> QED
        BY <2>1, <2>2, <2>3
  <1>5. CASE p # NoGroup /\ q = NoGroup
    <2>1. PICK P \in Seq(Names) : P = groups[p].path /\ P # <<>>
        BY <1>1, <1>2, <1>5
    <2>2. Append(P, m) = <<n>>
        BY <1>5, <2>1 DEF PathOf
    <2>3. Append(P, m) = <<n>> => P = <<>>
        BY AppendIsInjective
    <2> QED
        BY <2>1, <2>2, <2>3
  <1>6. CASE p # NoGroup /\ q # NoGroup
    <2>1. PICK P \in Seq(Names) : P = groups[p].path
        BY <1>1, <1>2, <1>6
    <2>2. PICK Q \in Seq(Names) : Q = groups[q].path
        BY <1>1, <1>2, <1>6
    <2>3. Append(P, m) = Append(Q, n)
        BY <1>6, <2>1, <2>2 DEF PathOf
    <2>4. P = Q /\ m = n
        BY <2>3, AppendIsInjective
    <2> QED
        BY <1>2, <1>6, <2>1, <2>2, <2>4
  <1> QED
      BY <1>3, <1>4, <1>5, <1>6

\* There is a child of p named n.
HasChild(p, n) == \E g \in alive : groups[g].parent = p /\ GroupName(g) = n

\* A look-up of a child yields a group that exists, below the right parent and
\* of the right name, or nothing because there is none.
LEMMA ChildNamedFacts ==
  ASSUME ServerTypes, NEW p, NEW n
  PROVE  \/ /\ ChildNamed(p, n) \in alive
            /\ groups[ChildNamed(p, n)].parent = p
            /\ GroupName(ChildNamed(p, n)) = n
            /\ ChildNamed(p, n) # NoGroup
            /\ HasChild(p, n)
         \/ ChildNamed(p, n) = NoGroup /\ ~HasChild(p, n)
  <1>1. \A g \in alive : g # NoGroup
      BY DEF ServerTypes, Created, NoGroup
  <1>2. CASE \E g \in Children(p) : GroupName(g) = n
    <2>1. ChildNamed(p, n) \in Children(p) /\ GroupName(ChildNamed(p, n)) = n
        BY <1>2, Zenon DEF ChildNamed
    <2>2. ChildNamed(p, n) \in alive /\ groups[ChildNamed(p, n)].parent = p
        BY <2>1 DEF Children
    <2> QED
        BY <1>1, <2>1, <2>2, Zenon DEF HasChild
  <1>3. CASE ~\E g \in Children(p) : GroupName(g) = n
      BY <1>3, Zenon DEF ChildNamed, Children, HasChild
  <1> QED
      BY <1>2, <1>3

\* Groups are only ever added.
Grown ==
    /\ ServerTypes'
    /\ Created \subseteq Created'
    /\ \A g \in Created : groups'[g] = groups[g]

\* A creation that the server allows keeps the tree sound: a second group on the
\* path would be a sibling of the same name.
LEMMA CreationKeepsTree ==
  ASSUME ServerInv, NEW p \in Position, NEW n \in Names, CreateAllowed(p, n),
         CreateOnServer(p, n), OnAsked(PathOf(p, n))
  PROVE  /\ ServerInv' /\ Grown /\ alive \subseteq alive'
         /\ Len(groups) + 1 \in alive' /\ Len(groups) + 1 \in Nat \ {0}
         /\ groups'[Len(groups) + 1].path = PathOf(p, n)
         /\ alive = Created => (alive = Created)'
  <1>0. ServerTypes /\ PathsExtendParents
      BY DEF ServerInv
  <1>1. PICK k : k = Len(groups) + 1
      OBVIOUS
  <1>2. PICK P : P = PathOf(p, n)
      OBVIOUS
  <1>3. P \in Seq(Names)
    <2>1. CASE p = NoGroup
        BY <1>2, <2>1 DEF PathOf
    <2>2. CASE p # NoGroup
      <3>1. groups[p].path \in Seq(Names)
          BY <1>0, <2>2, GroupFacts DEF Position
      <3> QED
          BY <1>2, <2>2, <3>1 DEF PathOf
    <2> QED
        BY <2>1, <2>2
  <1>4. PICK r : r = [parent |-> p, path |-> P]
      OBVIOUS
  <1>5. p \in Nat /\ r \in Group /\ r.parent = p /\ r.path = P
    <2>1. p \in Nat
        BY <1>0 DEF Position, Created, NoGroup, ServerTypes
    <2> QED
        BY <1>3, <1>4, <2>1 DEF Group
  <1>6. groups' = Append(groups, r) /\ alive' = alive \union {k}
      BY <1>1, <1>2, <1>4 DEF CreateOnServer
  <1>7. /\ k \in Nat \ {0} /\ Created = 1..k - 1 /\ Created' = 1..k
        /\ groups' \in Seq(Group)
        /\ groups'[k] = r /\ \A g \in Created : groups'[g] = groups[g]
      BY <1>0, <1>1, <1>5, <1>6 DEF Created, ServerTypes
  <1>8. /\ Created' = Created \union {k} /\ k \notin Created /\ k \notin alive
        /\ Created \subseteq Created' /\ alive \subseteq Created
      BY <1>0, <1>7 DEF ServerTypes
  <1>9. Grown /\ ServerTypes'
      BY <1>6, <1>7, <1>8 DEF Grown, ServerTypes
  <1>10. ASSUME NEW q \in Position, NEW m PROVE PathOf(q, m)' = PathOf(q, m)
      BY <1>7, <1>10 DEF PathOf, Position
  <1>11. PathsExtendParents'
    <2> SUFFICES ASSUME NEW g \in Created'
                 PROVE  /\ groups'[g].parent \in 0..g - 1
                        /\ \E m \in Names : groups'[g].path = PathOf(groups[g].parent, m)'
        BY DEF PathsExtendParents
    <2>1. CASE g = k
      <3>1. groups'[g].parent = p /\ groups'[g].path = P
          BY <1>5, <1>7, <2>1
      <3>2. p \in 0..k - 1
          BY <1>7 DEF Position, NoGroup
      <3>3. PathOf(groups[g].parent, n)' = P
        <4>1. PathOf(groups[g].parent, n)' = IF p = NoGroup THEN <<n>> ELSE Append(groups'[p].path, n)
            BY <3>1 DEF PathOf
        <4>2. p # NoGroup => groups'[p] = groups[p]
            BY <1>7 DEF Position
        <4> QED
            BY <1>2, <4>1, <4>2 DEF PathOf
      <3> QED
          BY <2>1, <3>1, <3>2, <3>3
    <2>2. CASE g # k
      <3>1. g \in Created /\ groups'[g] = groups[g]
          BY <1>7, <1>8, <2>2
      <3>2. PICK q : q = groups[g].parent
          OBVIOUS
      <3>3. q \in Position /\ q \in 0..g - 1
          BY <1>0, <3>1, <3>2, GroupFacts DEF PathsExtendParents
      <3>4. PICK m \in Names : groups[g].path = PathOf(q, m)
          BY <1>0, <3>1, <3>2 DEF PathsExtendParents
      <3>5. PathOf(groups[g].parent, m)' = PathOf(q, m)
        <4>1. PathOf(groups[g].parent, m)' = IF q = NoGroup THEN <<m>> ELSE Append(groups'[q].path, m)
            BY <3>1, <3>2 DEF PathOf
        <4>2. q # NoGroup => groups'[q] = groups[q]
            BY <1>7, <3>3 DEF Position
        <4> QED
            BY <4>1, <4>2 DEF PathOf
      <3> QED
          BY <3>1, <3>2, <3>3, <3>4, <3>5
    <2> QED
        BY <2>1, <2>2
  <1>12. ASSUME NEW h \in alive, groups[h].path = P PROVE FALSE
    <2>1. /\ h \in Created /\ groups[h].parent \in Position /\ GroupName(h) \in Names
          /\ P = PathOf(groups[h].parent, GroupName(h))
        BY <1>0, <1>8, <1>12, GroupFacts
    <2>2. PICK q : q = groups[h].parent
        OBVIOUS
    <2>3. PICK m : m = GroupName(h)
        OBVIOUS
    <2>4. /\ m = n /\ (p = NoGroup <=> q = NoGroup)
          /\ p # NoGroup => p \in Created /\ q \in Created /\ groups[p].path = groups[q].path
      <3>1. q \in Position /\ m \in Names /\ PathOf(p, n) = PathOf(q, m)
          BY <1>2, <2>1, <2>2, <2>3
      <3>2. \A a, b \in Position : \A u, v \in Names : PathOf(a, u) = PathOf(b, v) =>
                /\ u = v /\ (a = NoGroup <=> b = NoGroup)
                /\ a # NoGroup => a \in Created /\ b \in Created /\ groups[a].path = groups[b].path
          BY <1>0, PathOfIsInjective
      <3> QED
          BY <3>1, <3>2
    <2>5. p = q
      <3>1. p # NoGroup => p \in alive /\ q \in alive
          BY <1>12, <2>2, <2>4 DEF CreateAllowed, ServerInv, ParentsExist
      <3> QED
          BY <2>4, <3>1 DEF ServerInv, PathsAreUnique
    <2>6. HasChild(p, n)
        BY <1>12, <2>2, <2>3, <2>4, <2>5 DEF HasChild
    <2> QED
        BY <1>0, <2>6, ChildNamedFacts DEF CreateAllowed
  <1>13. PathsAreUnique'
    <2> SUFFICES ASSUME NEW g \in alive', NEW h \in alive', groups'[g].path = groups'[h].path
                 PROVE  g = h
        BY DEF PathsAreUnique
    <2>1. \A f \in alive' : f = k \/ (f \in alive /\ f \in Created /\ groups'[f] = groups[f])
        BY <1>6, <1>7, <1>8
    <2>2. groups'[k].path = P
        BY <1>5, <1>7
    <2> QED
        BY <1>12, <2>1, <2>2 DEF ServerInv, PathsAreUnique
  <1>14. ParentsExist'
    <2> SUFFICES ASSUME NEW g \in alive', groups'[g].parent # NoGroup
                 PROVE  groups'[g].parent \in alive'
        BY DEF ParentsExist
    <2>1. CASE g = k
        BY <1>5, <1>6, <1>7, <2>1 DEF CreateAllowed
    <2>2. CASE g # k
        BY <1>6, <1>7, <1>8, <2>2 DEF ServerInv, ParentsExist
    <2> QED
        BY <2>1, <2>2
  <1>15. ASSUME NEW g \in Created' PROVE OnAsked(groups[g].path)'
    <2>1. PICK Q : Q = groups'[g].path
        OBVIOUS
    <2>2. OnAsked(Q)
      <3>1. CASE g = k
          BY <1>2, <1>5, <1>7, <2>1, <3>1
      <3>2. CASE g # k
          BY <1>7, <1>8, <2>1, <3>2 DEF ServerInv
      <3> QED
          BY <3>1, <3>2
    <2> QED
        BY <2>1, <2>2 DEF OnAsked
  <1>16. alive = Created => (alive = Created)'
      BY <1>6, <1>8
  <1> QED
      BY <1>1, <1>2, <1>5, <1>6, <1>7, <1>9, <1>11, <1>13, <1>14, <1>15, <1>16 DEF ServerInv
\* A deletion takes everything below with it.
LEMMA DeletionKeepsTree ==
  ASSUME ServerInv, NEW g \in alive, DeleteGroup(g)
  PROVE  ServerInv' /\ Grown
  <1>1. groups' = groups /\ alive' = {h \in alive : ~IsPrefix(groups[g].path, groups[h].path)}
      BY DEF DeleteGroup
  <1>2. ServerTypes /\ PathsExtendParents
      BY DEF ServerInv
  <1>3. /\ Created' = Created /\ ServerTypes' /\ Grown /\ PathsAreUnique' /\ alive' \subseteq alive
      BY <1>1, <1>2 DEF ServerInv, ServerTypes, Grown, PathsAreUnique, Created
  <1>4. PathsExtendParents'
      BY <1>1, <1>2, <1>3 DEF PathsExtendParents, PathOf
  <1>5. \A f \in Created' : OnAsked(groups[f].path)'
      BY <1>1, <1>3 DEF ServerInv, OnAsked
  <1>6. ParentsExist'
    <2> SUFFICES ASSUME NEW h \in alive', groups[h].parent # NoGroup
                 PROVE  groups[h].parent \in alive'
        BY <1>1 DEF ParentsExist
    <2>1. PICK p : p = groups[h].parent
        OBVIOUS
    <2>2. /\ h \in alive /\ ~IsPrefix(groups[g].path, groups[h].path)
          /\ p \in alive /\ p \in Created /\ h \in Created /\ g \in Created
        BY <1>1, <1>2, <2>1 DEF ServerInv, ParentsExist, ServerTypes
    <2>3. PICK Q \in Seq(Names) : Q = groups[g].path
        BY <1>2, <2>2, GroupFacts
    <2>4. PICK P \in Seq(Names) : P = groups[p].path
        BY <1>2, <2>2, GroupFacts
    <2>5. PICK n \in Names : n = GroupName(h)
        BY <1>2, <2>2, GroupFacts
    <2>6. groups[h].path = Append(P, n)
      <3>1. groups[h].path = PathOf(groups[h].parent, GroupName(h))
          BY <1>2, <2>2, GroupFacts
      <3> QED
          BY <2>1, <2>4, <2>5, <3>1 DEF PathOf
    <2>7. ~IsPrefix(Q, P)
        BY <2>2, <2>3, <2>6, PrefixGrows
    <2> QED
        BY <1>1, <2>1, <2>2, <2>3, <2>4, <2>7
  <1> QED
      BY <1>3, <1>4, <1>5, <1>6 DEF ServerInv

-----------------------------------------------------------------------------
(* The walks. *)

AskedFor(s) ==
    \/ s \in Paths
    \/ \E raw \in RawPaths : \E i, j \in DOMAIN raw : Segments(raw, i, j) /\ s = SubSeq(raw, i, j)

WalkTypes ==
    /\ pc \in [Clients -> {"idle", "find", "create", "done"}]
    /\ op \in [Clients -> {"none", "getOrCreate", "find"}]
    /\ segs \in [Clients -> Seq(Names)]
    /\ level \in [Clients -> Nat]
    /\ current \in [Clients -> Nat]
    /\ first \in [Clients -> Nat]
    /\ found \in [Clients -> Nat]
    /\ ret \in [Clients -> {"none", "ok", "notFound", "error"}]

Walking(c) == pc[c] \in {"find", "create"}

\* Where a walk stands is the group of the segments it has resolved, and the match
\* in the pages of top-level groups bears the first name.
Standing(c) ==
    /\ Walking(c) => ret[c] = "none" /\ level[c] < Len(segs[c])
    /\ Walking(c) \/ ret[c] = "ok" =>
        /\ level[c] = 0 <=> current[c] = NoGroup
        /\ level[c] # 0 =>
            current[c] \in Created /\ Upto(groups[current[c]].path, segs[c], level[c])
        /\ found[c] # NoGroup =>
            level[c] = 0 /\ found[c] \in Created /\ Upto(groups[found[c]].path, segs[c], 1)
    /\ ret[c] = "ok" => level[c] = Len(segs[c])

\* What a client was refused is there.
Refused(c) ==
    ret[c] = "error" /\ segs[c] # <<>> /\ deletes = 0 /\ faults = 0 =>
        HasChild(current[c], segs[c][level[c] + 1])

Asking(c) == segs[c] = <<>> \/ AskedFor(segs[c])

WalkInv == \A c \in Clients : Standing(c) /\ Refused(c) /\ Asking(c)

Intact == deletes = 0 => alive = Created

GroupInv ==
    /\ ServerInv /\ WalkTypes /\ deletes \in Nat /\ faults \in Nat /\ Intact
    /\ WalkInv

\* The budgets only grow, and until something is deleted so does the tree.
Spent ==
    /\ deletes' = 0 => deletes = 0 /\ alive \subseteq alive'
    /\ faults' = 0 => faults = 0

\* A child stays a child until something is deleted.
LEMMA ChildStays ==
  ASSUME ServerTypes, Grown, alive \subseteq alive', NEW p, NEW n, HasChild(p, n)
  PROVE  \E g \in alive' : groups'[g].parent = p /\ GroupName(g)' = n
  <1>1. PICK g \in alive : groups[g].parent = p /\ GroupName(g) = n
      BY DEF HasChild
  <1>2. g \in alive' /\ groups'[g] = groups[g]
      BY DEF ServerTypes, Grown
  <1> QED
      BY <1>1, <1>2 DEF GroupName

\* A client that does nothing stands where it stood.
LEMMA WalkStays ==
  ASSUME GroupInv, NEW d \in Clients, Grown, Spent,
         pc'[d] = pc[d], segs'[d] = segs[d], level'[d] = level[d], current'[d] = current[d],
         found'[d] = found[d], ret'[d] = ret[d]
  PROVE  Standing(d)' /\ Refused(d)' /\ Asking(d)'
  <1>1. Standing(d) /\ Refused(d) /\ Asking(d) /\ ServerTypes
      BY DEF GroupInv, WalkInv, ServerInv
  <1>2. Standing(d)'
    <2>1. ASSUME NEW g \in Created, NEW s, NEW n, Upto(groups[g].path, s, n)
          PROVE  g \in Created' /\ Upto(groups'[g].path, s, n)
        BY <2>1 DEF Grown
    <2> QED
        BY <1>1, <2>1 DEF Standing, Walking
  <1>3. Refused(d)'
    <2> SUFFICES ASSUME ret[d] = "error", segs[d] # <<>>, deletes' = 0, faults' = 0
                 PROVE  HasChild(current[d], segs[d][level[d] + 1])'
        BY DEF Refused
    <2>1. PICK p, n : p = current[d] /\ n = segs[d][level[d] + 1]
        OBVIOUS
    <2>2. HasChild(p, n) /\ alive \subseteq alive'
        BY <1>1, <2>1 DEF Refused, Spent
    <2>3. PICK g \in alive' : groups'[g].parent = p /\ GroupName(g)' = n
        BY <1>1, <2>2, ChildStays
    <2> QED
        BY <2>1, <2>3 DEF HasChild
  <1>4. Asking(d)'
      BY <1>1 DEF Asking, AskedFor, Segments
  <1> QED
      BY <1>2, <1>3, <1>4

\* The walk of c is one level further down.
LEMMA AdvanceStands ==
  ASSUME WalkTypes, NEW c \in Clients, Standing(c), Walking(c), Asking(c), NEW g \in Nat \ {0},
         g \in Created', Advance(c, g), Upto(groups'[g].path, segs[c], level[c] + 1)
  PROVE  /\ Standing(c)' /\ Refused(c)' /\ Asking(c)' /\ WalkTypes'
         /\ \A d \in Clients \ {c} :
                /\ pc'[d] = pc[d] /\ segs'[d] = segs[d] /\ level'[d] = level[d]
                /\ current'[d] = current[d] /\ found'[d] = found[d] /\ ret'[d] = ret[d]
  <1>1. PICK s, l : s = segs[c] /\ l = level[c]
      OBVIOUS
  <1>2. s \in Seq(Names) /\ l \in Nat /\ Len(s) \in Nat
      BY <1>1 DEF WalkTypes
  <1>3. l < Len(s) /\ ret[c] = "none"
      BY <1>1 DEF Standing
  <1>4. /\ level' = [level EXCEPT ![c] = l + 1]
        /\ current' = [current EXCEPT ![c] = g]
        /\ first' = [first EXCEPT ![c] = 0]
        /\ found' = [found EXCEPT ![c] = NoGroup]
        /\ UNCHANGED <<op, segs>>
        /\ IF l + 1 = Len(s)
           THEN pc' = [pc EXCEPT ![c] = "done"] /\ ret' = [ret EXCEPT ![c] = "ok"]
           ELSE pc' = [pc EXCEPT ![c] = "find"] /\ ret' = ret
      BY <1>1 DEF Advance
  <1>5. /\ level'[c] = l + 1 /\ current'[c] = g /\ found'[c] = NoGroup /\ segs'[c] = s
        /\ IF l + 1 = Len(s) THEN pc'[c] = "done" /\ ret'[c] = "ok"
                             ELSE pc'[c] = "find" /\ ret'[c] = "none"
      BY <1>1, <1>3, <1>4 DEF WalkTypes
  <1>6. WalkTypes'
    <2>1. /\ pc' \in [Clients -> {"idle", "find", "create", "done"}]
          /\ ret' \in [Clients -> {"none", "ok", "notFound", "error"}]
        BY <1>4 DEF WalkTypes
    <2>2. /\ level' \in [Clients -> Nat] /\ current' \in [Clients -> Nat]
          /\ first' \in [Clients -> Nat] /\ found' \in [Clients -> Nat]
        BY <1>2, <1>4 DEF WalkTypes, NoGroup
    <2> QED
        BY <1>4, <2>1, <2>2 DEF WalkTypes
  <1>7. Standing(c)'
    <2>1. /\ g # NoGroup /\ l + 1 # 0 /\ l + 1 <= Len(s)
          /\ l + 1 = Len(s) \/ l + 1 < Len(s)
        BY <1>2, <1>3 DEF NoGroup
    <2>2. Upto(groups'[g].path, s, l + 1)
        BY <1>1
    <2>3. CASE l + 1 = Len(s)
      <3>1. /\ pc'[c] = "done" /\ ret'[c] = "ok" /\ level'[c] = Len(segs'[c])
            /\ level'[c] # 0 /\ current'[c] # NoGroup
            /\ Upto(groups'[current'[c]].path, segs'[c], level'[c])
          BY <1>5, <2>1, <2>2, <2>3
      <3> QED
          BY <1>5, <3>1 DEF Standing, Walking
    <2>4. CASE l + 1 < Len(s)
      <3>1. /\ pc'[c] = "find" /\ ret'[c] = "none" /\ level'[c] < Len(segs'[c])
            /\ level'[c] # 0 /\ current'[c] # NoGroup
            /\ Upto(groups'[current'[c]].path, segs'[c], level'[c])
          BY <1>2, <1>5, <2>1, <2>2, <2>4
      <3> QED
          BY <1>5, <3>1 DEF Standing, Walking
    <2> QED
        BY <2>1, <2>3, <2>4
  <1>8. Refused(c)' /\ Asking(c)'
      BY <1>1, <1>5 DEF Refused, Asking, AskedFor, Segments
  <1>9. ASSUME NEW d \in Clients \ {c}
        PROVE  /\ pc'[d] = pc[d] /\ segs'[d] = segs[d] /\ level'[d] = level[d]
               /\ current'[d] = current[d] /\ found'[d] = found[d] /\ ret'[d] = ret[d]
      BY <1>4 DEF WalkTypes
  <1> QED
      BY <1>6, <1>7, <1>8, <1>9
\* Nothing else moves in a step of c.
OnlyMoves(c) ==
    \A d \in Clients \ {c} :
        /\ pc'[d] = pc[d] /\ segs'[d] = segs[d] /\ level'[d] = level[d]
        /\ current'[d] = current[d] /\ found'[d] = found[d] /\ ret'[d] = ret[d]

\* The server as a step leaves it.
ServerStep ==
    ServerInv' /\ Grown /\ Spent /\ Intact' /\ deletes' \in Nat /\ faults' \in Nat

\* Any step keeps the invariant.
LEMMA StepKeepsInv ==
  ASSUME GroupInv, NEW c \in Clients, ServerStep, OnlyMoves(c), WalkTypes',
         Standing(c)', Refused(c)', Asking(c)'
  PROVE  GroupInv'
  <1>1. ASSUME NEW d \in Clients \ {c} PROVE Standing(d)' /\ Refused(d)' /\ Asking(d)'
      BY WalkStays DEF OnlyMoves, ServerStep
  <1> QED
      BY <1>1 DEF GroupInv, WalkInv, ServerStep

\* A step that leaves the groups alone is one of a server at rest.
LEMMA ServerRests ==
  ASSUME GroupInv, UNCHANGED <<groups, alive>>, deletes' = deletes, faults' \in {faults, faults + 1}
  PROVE  ServerStep
  <1>1. Created' = Created
      BY DEF Created
  <1>2. ServerInv'
    <2>1. ServerTypes' /\ PathsAreUnique' /\ ParentsExist'
        BY <1>1 DEF GroupInv, ServerInv, ServerTypes, PathsAreUnique, ParentsExist
    <2>2. PathsExtendParents'
        BY <1>1 DEF GroupInv, ServerInv, PathsExtendParents, PathOf
    <2>3. \A g \in Created' : OnAsked(groups[g].path)'
        BY <1>1 DEF GroupInv, ServerInv, OnAsked
    <2> QED
        BY <2>1, <2>2, <2>3 DEF ServerInv
  <1>3. Grown
      BY <1>1, <1>2 DEF Grown, ServerInv
  <1>4. Spent /\ Intact' /\ deletes' \in Nat /\ faults' \in Nat
      BY <1>1 DEF GroupInv, Spent, Intact
  <1> QED
      BY <1>2, <1>3, <1>4 DEF ServerStep

\* An error leaves the walk where it is.
LEMMA FailStands ==
  ASSUME GroupInv, NEW c \in Clients, Fail(c), ServerStep,
         deletes' = 0 /\ faults' = 0 => HasChild(current[c], segs[c][level[c] + 1])'
  PROVE  GroupInv'
  <1>1. /\ pc' = [pc EXCEPT ![c] = "done"] /\ ret' = [ret EXCEPT ![c] = "error"]
        /\ UNCHANGED <<op, segs, level, current, first, found>>
      BY DEF Fail
  <1>2. WalkTypes' /\ OnlyMoves(c) /\ pc'[c] = "done" /\ ret'[c] = "error"
      BY <1>1 DEF GroupInv, WalkTypes, OnlyMoves
  <1>3. Standing(c)'
      BY <1>2 DEF Standing, Walking
  <1>4. Refused(c)'
      BY <1>1, <1>2 DEF Refused
  <1>5. Asking(c)'
      BY <1>1 DEF GroupInv, WalkInv, Asking, AskedFor, Segments
  <1> QED
      BY <1>2, <1>3, <1>4, <1>5, StepKeepsInv

\* The walk goes on from what findChildGroup has returned.
LEMMA ConcludeStands ==
  ASSUME GroupInv, NEW c \in Clients, Walking(c), NEW g \in Nat, Conclude(c, g),
         g # NoGroup => g \in Created /\ Upto(groups[g].path, segs[c], level[c] + 1),
         UNCHANGED <<server, budget>>
  PROVE  GroupInv'
  <1>1. ServerStep /\ UNCHANGED <<groups, alive>> /\ Created' = Created
      BY ServerRests DEF server, budget, Created
  <1>2. WalkTypes /\ Standing(c) /\ Asking(c)
      BY DEF GroupInv, WalkInv
  <1>3. CASE g = NoGroup
    <2>1. NotFound(c)
        BY <1>3 DEF Conclude
    <2>2. /\ UNCHANGED <<op, segs, level, current, first, found>>
          /\ \/ pc' = [pc EXCEPT ![c] = "create"] /\ ret' = ret
             \/ pc' = [pc EXCEPT ![c] = "done"] /\ ret' = [ret EXCEPT ![c] = "notFound"]
        BY <2>1 DEF NotFound
    <2>3. WalkTypes' /\ OnlyMoves(c)
        BY <1>2, <2>2 DEF WalkTypes, OnlyMoves
    <2>4. \/ pc'[c] = "create" /\ ret'[c] = ret[c]
          \/ pc'[c] = "done" /\ ret'[c] = "notFound"
        BY <1>2, <2>2 DEF WalkTypes
    <2>5. ret[c] = "none"
        BY <1>2 DEF Standing
    <2>6. Standing(c)'
        BY <1>1, <1>2, <2>2, <2>4, <2>5 DEF Standing, Walking
    <2>7. Refused(c)' /\ Asking(c)'
        BY <1>2, <2>2, <2>4, <2>5 DEF Refused, Asking, AskedFor, Segments
    <2> QED
        BY <1>1, <2>3, <2>6, <2>7, StepKeepsInv
  <1>4. CASE g # NoGroup
    <2>1. /\ Advance(c, g) /\ g \in Created' /\ g \in Nat \ {0}
          /\ Upto(groups'[g].path, segs[c], level[c] + 1)
        BY <1>1, <1>4 DEF Conclude, NoGroup
    <2>2. /\ Standing(c)' /\ Refused(c)' /\ Asking(c)' /\ WalkTypes' /\ OnlyMoves(c)
        BY <1>2, <2>1, AdvanceStands DEF OnlyMoves
    <2> QED
        BY <1>1, <2>2, StepKeepsInv
  <1> QED
      BY <1>3, <1>4

\* A top-level group of the right name is the first step.
LEMMA TopMatch ==
  ASSUME ServerInv, NEW s, NEW g \in alive, groups[g].parent = NoGroup, GroupName(g) = s[1]
  PROVE  g \in Created /\ g # NoGroup /\ g \in Nat /\ Upto(groups[g].path, s, 1)
  <1>1. g \in Created
      BY DEF ServerInv, ServerTypes
  <1>2. groups[g].path = PathOf(groups[g].parent, GroupName(g)) /\ g \in Nat \ {0}
      BY <1>1, GroupFacts DEF ServerInv
  <1>3. groups[g].path = <<GroupName(g)>>
      BY <1>2 DEF PathOf
  <1>4. Upto(<<GroupName(g)>>, s, 1)
      BY FirstName
  <1> QED
      BY <1>1, <1>2, <1>3, <1>4 DEF NoGroup

\* A subgroup of the right name is the next step.
LEMMA ChildMatch ==
  ASSUME ServerInv, NEW s \in Seq(Names), NEW n \in Nat, n < Len(s), NEW p \in Created,
         Upto(groups[p].path, s, n)
  PROVE  /\ Upto(Append(groups[p].path, s[n + 1]), s, n + 1)
         /\ \A g \in alive : groups[g].parent = p /\ GroupName(g) = s[n + 1] =>
                g \in Created /\ g \in Nat /\ Upto(groups[g].path, s, n + 1)
  <1>1. groups[p].path \in Seq(Names) /\ p \in Nat \ {0}
      BY GroupFacts DEF ServerInv
  <1>2. Upto(Append(groups[p].path, s[n + 1]), s, n + 1)
      BY <1>1, OneNameMore
  <1>3. ASSUME NEW g \in alive, groups[g].parent = p, GroupName(g) = s[n + 1]
        PROVE  g \in Created /\ g \in Nat /\ Upto(groups[g].path, s, n + 1)
    <2>1. g \in Created
        BY DEF ServerInv, ServerTypes
    <2>2. groups[g].path = PathOf(groups[g].parent, GroupName(g)) /\ g \in Nat
        BY <2>1, GroupFacts DEF ServerInv
    <2>3. groups[g].path = Append(groups[p].path, s[n + 1])
        BY <1>1, <1>3, <2>2 DEF PathOf, NoGroup
    <2> QED
        BY <1>2, <2>1, <2>2, <2>3
  <1> QED
      BY <1>2, <1>3

\* One page of top-level groups.
LEMMA TopStands ==
  ASSUME GroupInv, NEW c \in Clients, findTopGroup(c)
  PROVE  GroupInv'
  <1>1. /\ pc[c] = "find" /\ Walking(c) /\ current[c] = NoGroup /\ UNCHANGED <<server, budget>>
        /\ WalkTypes /\ Standing(c) /\ Asking(c) /\ ServerInv
      BY DEF findTopGroup, Walking, GroupInv, WalkInv
  <1>2. level[c] = 0
      BY <1>1 DEF Standing
  <1>3. PICK s : s = segs[c]
      OBVIOUS
  <1> DEFINE match == {g \in TopPage(first[c]) : GroupName(g) = segs[c][level[c] + 1]}
             best == IF found[c] = NoGroup /\ match # {} THEN CHOOSE g \in match : TRUE
                     ELSE found[c]
  <1>4. /\ best \in Nat
        /\ best # NoGroup => best \in Created /\ Upto(groups[best].path, s, 1)
    <2>1. CASE best = found[c]
        BY <1>1, <1>3, <2>1 DEF Standing, WalkTypes
    <2>2. CASE best # found[c]
      <3>1. best \in match
        <4>1. match # {} /\ best = CHOOSE g \in match : TRUE
            BY <2>2
        <4>2. ASSUME NEW S, S # {} PROVE (CHOOSE g \in S : TRUE) \in S
            BY <4>2
        <4> HIDE DEF match, best
        <4> QED
            BY <4>1, <4>2
      <3> HIDE DEF best
      <3>2. best \in alive /\ groups[best].parent = NoGroup /\ GroupName(best) = s[1]
        <4>1. level[c] + 1 = 1
            BY <1>2
        <4>2. best \in TopPage(first[c]) /\ GroupName(best) = segs[c][1]
            BY <3>1, <4>1
        <4> QED
            BY <1>3, <4>2 DEF TopPage, Children
      <3> QED
          BY <1>1, <3>2, TopMatch
    <2> QED
        BY <2>1, <2>2
  <1>5. \/ Conclude(c, best)
        \/ /\ first' = [first EXCEPT ![c] = @ + PageSize]
           /\ found' = [found EXCEPT ![c] = best]
           /\ UNCHANGED <<pc, op, segs, level, current, ret>>
      BY DEF findTopGroup
  <1> HIDE DEF best
  <1>6. CASE Conclude(c, best)
    <2>1. best # NoGroup => best \in Created /\ Upto(groups[best].path, segs[c], level[c] + 1)
        BY <1>2, <1>3, <1>4
    <2> QED
        BY <1>1, <1>4, <1>6, <2>1, ConcludeStands
  <1>7. CASE /\ first' = [first EXCEPT ![c] = @ + PageSize]
             /\ found' = [found EXCEPT ![c] = best]
             /\ UNCHANGED <<pc, op, segs, level, current, ret>>
    <2>1. ServerStep /\ UNCHANGED <<groups, alive>> /\ Created' = Created
        BY <1>1, ServerRests DEF server, budget, Created
    <2>2. WalkTypes' /\ OnlyMoves(c) /\ found'[c] = best
        BY <1>1, <1>4, <1>7, PageSizeAssumption DEF WalkTypes, OnlyMoves
    <2>3. Standing(c)'
        BY <1>1, <1>2, <1>3, <1>4, <1>7, <2>1, <2>2 DEF Standing, Walking
    <2>4. Refused(c)' /\ Asking(c)'
      <3>1. ret'[c] = "none"
          BY <1>1, <1>7 DEF Standing
      <3> QED
          BY <1>1, <1>7, <3>1 DEF Refused, Asking, AskedFor, Segments
    <2> QED
        BY <2>1, <2>2, <2>3, <2>4, StepKeepsInv
  <1> QED
      BY <1>5, <1>6, <1>7
\* The subgroups of the group reached.
LEMMA ChildStands ==
  ASSUME GroupInv, NEW c \in Clients, findChildGroup(c)
  PROVE  GroupInv'
  <1>1. /\ pc[c] = "find" /\ Walking(c) /\ current[c] # NoGroup /\ UNCHANGED <<server, budget>>
        /\ WalkTypes /\ Standing(c) /\ ServerInv /\ ServerTypes
      BY DEF findChildGroup, Walking, GroupInv, WalkInv, ServerInv
  <1>2. PICK s, l, p : s = segs[c] /\ l = level[c] /\ p = current[c]
      OBVIOUS
  <1>3. /\ s \in Seq(Names) /\ l \in Nat /\ l < Len(s)
        /\ p \in Created /\ Upto(groups[p].path, s, l)
      BY <1>1, <1>2 DEF Standing, WalkTypes
  <1>4. CASE p \in alive
    <2>1. PICK g : g = IF LegacySubGroups THEN ChildNamed(p, s[l + 1]) ELSE NoGroup
        OBVIOUS
    <2>2. Conclude(c, g)
        BY <1>2, <1>4, <2>1 DEF findChildGroup
    <2>3. g # NoGroup => g \in alive /\ groups[g].parent = p /\ GroupName(g) = s[l + 1]
      <3>1. g = ChildNamed(p, s[l + 1]) \/ g = NoGroup
          BY <2>1
      <3> QED
          BY <1>1, <3>1, ChildNamedFacts
    <2>4. g # NoGroup => g \in Created /\ g \in Nat /\ Upto(groups[g].path, s, l + 1)
        BY <1>1, <1>3, <2>3, ChildMatch
    <2>5. g \in Nat /\ (g # NoGroup => g \in Created /\ Upto(groups[g].path, segs[c], level[c] + 1))
        BY <1>2, <2>4 DEF NoGroup
    <2> QED
        BY <1>1, <2>2, <2>5, ConcludeStands
  <1>5. CASE p \notin alive
    <2>1. Fail(c)
        BY <1>2, <1>5 DEF findChildGroup
    <2>2. ServerStep /\ deletes' = deletes
        BY <1>1, ServerRests DEF server, budget
    <2>3. deletes # 0
        BY <1>3, <1>5 DEF GroupInv, Intact
    <2> QED
        BY <2>1, <2>2, <2>3, FailStands
  <1> QED
      BY <1>4, <1>5

\* What is asked for next leads towards something that was asked for.
LEMMA NextIsAsked ==
  ASSUME GroupInv, NEW c \in Clients, Walking(c)
  PROVE  /\ current[c] \in Position /\ segs[c][level[c] + 1] \in Names
         /\ PathOf(current[c], segs[c][level[c] + 1]) \in Seq(Names)
         /\ Upto(PathOf(current[c], segs[c][level[c] + 1]), segs[c], level[c] + 1)
         /\ OnAsked(PathOf(current[c], segs[c][level[c] + 1]))
  <1>1. WalkTypes /\ Standing(c) /\ Asking(c) /\ ServerInv /\ ServerTypes /\ PathsExtendParents
      BY DEF GroupInv, WalkInv, ServerInv
  <1>2. PICK s, l, p : s = segs[c] /\ l = level[c] /\ p = current[c]
      OBVIOUS
  <1>3. /\ s \in Seq(Names) /\ l \in Nat /\ l < Len(s) /\ (l = 0 <=> p = NoGroup)
        /\ l # 0 => p \in Created /\ Upto(groups[p].path, s, l)
      BY <1>1, <1>2 DEF Standing, WalkTypes
  <1>4. s[l + 1] \in Names /\ p \in Position /\ s # <<>> /\ l + 1 \in 0..Len(s)
      BY <1>3 DEF Position
  <1>5. PICK n : n = s[l + 1]
      OBVIOUS
  <1>6. PathOf(p, n) \in Seq(Names) /\ Upto(PathOf(p, n), s, l + 1)
    <2>1. CASE l = 0
      <3>1. PathOf(p, n) = <<n>> /\ n = s[1] /\ l + 1 = 1
          BY <1>3, <1>5, <2>1 DEF PathOf
      <3>2. Upto(<<n>>, s, 1)
          BY <3>1, FirstName
      <3> QED
          BY <1>4, <1>5, <3>1, <3>2
    <2>2. CASE l # 0
      <3>1. PathOf(p, n) = Append(groups[p].path, n) /\ p \in Created
          BY <1>3, <2>2 DEF PathOf
      <3>2. Upto(Append(groups[p].path, n), s, l + 1)
          BY <1>1, <1>3, <1>5, <2>2, ChildMatch
      <3>3. groups[p].path \in Seq(Names)
          BY <1>1, <3>1, GroupFacts
      <3> QED
          BY <1>4, <1>5, <3>1, <3>2, <3>3
    <2> QED
        BY <2>1, <2>2
  <1>7. PICK P \in Seq(Names) : P = PathOf(p, n)
      BY <1>6
  <1>8. IsPrefix(P, s)
      BY <1>3, <1>4, <1>6, <1>7, UptoIsPrefix
  <1>9. OnAsked(P)
    <2>1. AskedFor(s)
        BY <1>1, <1>2, <1>4 DEF Asking
    <2> HIDE DEF Upto
    <2> QED
        BY <1>8, <2>1, Zenon DEF AskedFor, OnAsked
  <1> QED
      BY <1>2, <1>4, <1>5, <1>6, <1>7, <1>9

\* A creation: done, or refused because the group is there or its parent gone.
LEMMA CreateStands ==
  ASSUME GroupInv, NEW c \in Clients, createChildGroup(c)
  PROVE  GroupInv'
  <1>1. /\ pc[c] = "create" /\ Walking(c) /\ UNCHANGED budget
        /\ WalkTypes /\ Standing(c) /\ Asking(c) /\ ServerInv /\ ServerTypes
      BY DEF createChildGroup, Walking, GroupInv, WalkInv, ServerInv
  <1>2. PICK p, n : p = current[c] /\ n = segs[c][level[c] + 1]
      OBVIOUS
  <1>3. /\ p \in Position /\ n \in Names /\ OnAsked(PathOf(p, n))
        /\ Upto(PathOf(p, n), segs[c], level[c] + 1)
      BY <1>1, <1>2, NextIsAsked
  <1>4. \/ CreateAllowed(p, n) /\ CreateOnServer(p, n) /\ Advance(c, Len(groups) + 1)
        \/ ~CreateAllowed(p, n) /\ Fail(c) /\ UNCHANGED server
      BY <1>2 DEF createChildGroup
  <1>5. CASE CreateAllowed(p, n) /\ CreateOnServer(p, n) /\ Advance(c, Len(groups) + 1)
    <2>1. PICK g : g = Len(groups) + 1
        OBVIOUS
    <2>2. /\ ServerInv' /\ Grown /\ alive \subseteq alive' /\ g \in alive' /\ g \in Nat \ {0}
          /\ groups'[g].path = PathOf(p, n)
          /\ alive = Created => (alive = Created)'
        BY <1>1, <1>3, <1>5, <2>1, CreationKeepsTree
    <2>3. ServerStep
        BY <1>1, <2>2 DEF ServerStep, Spent, Intact, GroupInv, budget
    <2>4. g \in Created' /\ Upto(groups'[g].path, segs[c], level[c] + 1) /\ Advance(c, g)
        BY <1>3, <1>5, <2>1, <2>2 DEF ServerInv, ServerTypes
    <2>5. Standing(c)' /\ Refused(c)' /\ Asking(c)' /\ WalkTypes' /\ OnlyMoves(c)
        BY <1>1, <2>2, <2>4, AdvanceStands DEF OnlyMoves
    <2> QED
        BY <2>3, <2>5, StepKeepsInv
  <1>6. CASE ~CreateAllowed(p, n) /\ Fail(c) /\ UNCHANGED server
    <2>1. ServerStep /\ deletes' = deletes /\ UNCHANGED <<groups, alive>>
        BY <1>1, <1>6, ServerRests DEF server, budget
    <2>2. ASSUME deletes = 0 PROVE HasChild(p, n)
      <3>1. p = NoGroup \/ p \in alive
          BY <1>3, <2>2 DEF GroupInv, Intact, Position
      <3>2. ChildNamed(p, n) # NoGroup
          BY <1>6, <3>1 DEF CreateAllowed
      <3> QED
          BY <1>1, <3>2, ChildNamedFacts
    <2>3. deletes' = 0 => HasChild(current[c], segs[c][level[c] + 1])'
      <3>1. current' = current /\ segs' = segs /\ level' = level
          BY <1>6 DEF Fail
      <3> QED
          BY <1>2, <2>1, <2>2, <3>1 DEF HasChild, GroupName
    <2> QED
        BY <1>6, <2>1, <2>3, FailStands
  <1> QED
      BY <1>4, <1>5, <1>6
\* A request that fails, before or after it took effect.
LEMMA FaultStands ==
  ASSUME GroupInv, NEW c \in Clients, RequestFails(c) \/ CreateAnswerLost(c)
  PROVE  GroupInv'
  <1>1. /\ Walking(c) /\ Fail(c) /\ deletes' = deletes /\ faults' = faults + 1
        /\ faults' # 0 /\ faults' \in Nat /\ faults \in Nat /\ deletes \in Nat
    <2>1. Walking(c) /\ Fail(c) /\ deletes' = deletes /\ faults' = faults + 1
        BY DEF RequestFails, CreateAnswerLost, Walking
    <2>2. faults \in Nat /\ deletes \in Nat
        BY DEF GroupInv
    <2> QED
        BY <2>1, <2>2
  <1>2. CASE RequestFails(c)
    <2>1. ServerStep
        BY <1>1, <1>2, ServerRests DEF RequestFails, server
    <2> QED
        BY <1>1, <2>1, FailStands
  <1>3. CASE CreateAnswerLost(c)
    <2>1. PICK p, n : p = current[c] /\ n = segs[c][level[c] + 1]
        OBVIOUS
    <2>2. p \in Position /\ n \in Names /\ OnAsked(PathOf(p, n))
        BY <1>1, <2>1, NextIsAsked
    <2>3. CreateAllowed(p, n) /\ CreateOnServer(p, n) /\ ServerInv
        BY <1>3, <2>1 DEF CreateAnswerLost, GroupInv
    <2>4. /\ ServerInv' /\ Grown /\ alive \subseteq alive'
          /\ alive = Created => (alive = Created)'
        BY <2>2, <2>3, CreationKeepsTree
    <2>5. ServerStep
        BY <1>1, <2>4 DEF ServerStep, Spent, Intact, GroupInv
    <2> QED
        BY <1>1, <2>5, FailStands
  <1> QED
      BY <1>2, <1>3

\* What is left of a raw path bears no empty name.
LEMMA TrimmedIsNamed ==
  ASSUME NEW raw \in RawPaths, NEW i \in DOMAIN raw, NEW j \in DOMAIN raw,
         Segments(raw, i, j)
  PROVE  SubSeq(raw, i, j) \in Seq(Names) /\ AskedFor(SubSeq(raw, i, j))
  <1>1. raw \in Seq(Names \union {Blank}) /\ i \in 1..Len(raw) /\ j \in 1..Len(raw)
      BY RawPathsAssumption
  <1>2. \A k \in i..j : raw[k] \in Names
      BY <1>1 DEF Segments
  <1>3. SubSeq(raw, i, j) \in Seq(Names)
      BY <1>1, <1>2, SubSeqProperties
  <1>4. AskedFor(SubSeq(raw, i, j))
      BY Zenon DEF AskedFor
  <1> QED
      BY <1>3, <1>4

\* A call begins above the first level, or is over at once.
LEMMA BeginStands ==
  ASSUME GroupInv, NEW c \in Clients, NEW o \in {"none", "getOrCreate", "find"},
         NEW s \in Seq(Names), s = <<>> \/ AskedFor(s), Begin(c, o, s)
  PROVE  GroupInv'
  <1>1. /\ op' = [op EXCEPT ![c] = o] /\ segs' = [segs EXCEPT ![c] = s]
        /\ level' = [level EXCEPT ![c] = 0] /\ current' = [current EXCEPT ![c] = NoGroup]
        /\ first' = [first EXCEPT ![c] = 0] /\ found' = [found EXCEPT ![c] = NoGroup]
        /\ pc' = [pc EXCEPT ![c] = IF s = <<>> THEN "done" ELSE "find"]
        /\ ret' = [ret EXCEPT ![c] = IF s = <<>> THEN "ok" ELSE "none"]
        /\ UNCHANGED <<server, budget>>
      BY DEF Begin
  <1>2. WalkTypes /\ ServerStep
      BY <1>1, ServerRests DEF GroupInv, server, budget
  <1>3. WalkTypes' /\ OnlyMoves(c)
    <2>1. /\ pc' \in [Clients -> {"idle", "find", "create", "done"}]
          /\ ret' \in [Clients -> {"none", "ok", "notFound", "error"}]
        BY <1>1, <1>2 DEF WalkTypes
    <2>2. /\ level' \in [Clients -> Nat] /\ current' \in [Clients -> Nat]
          /\ first' \in [Clients -> Nat] /\ found' \in [Clients -> Nat]
        BY <1>1, <1>2 DEF WalkTypes, NoGroup
    <2>3. OnlyMoves(c)
        BY <1>1, <1>2 DEF WalkTypes, OnlyMoves
    <2> QED
        BY <1>1, <1>2, <2>1, <2>2, <2>3 DEF WalkTypes
  <1>4. /\ segs'[c] = s /\ level'[c] = 0 /\ current'[c] = NoGroup /\ found'[c] = NoGroup
        /\ IF s = <<>> THEN pc'[c] = "done" /\ ret'[c] = "ok"
                       ELSE pc'[c] = "find" /\ ret'[c] = "none"
      BY <1>1, <1>2 DEF WalkTypes
  <1>5. IF s = <<>> THEN Len(s) = 0 ELSE 0 < Len(s)
      BY EmptySeq
  <1>6. Standing(c)'
      BY <1>4, <1>5 DEF Standing, Walking
  <1>7. Refused(c)' /\ Asking(c)'
      BY <1>4 DEF Refused, Asking, AskedFor, Segments
  <1> QED
      BY <1>2, <1>3, <1>6, <1>7, StepKeepsInv

\* A path with an empty segment is an error, and no request is made.
LEMMA RejectStands ==
  ASSUME GroupInv, NEW c \in Clients, RejectPath(c)
  PROVE  GroupInv'
  <1>1. /\ op' = [op EXCEPT ![c] = "getOrCreate"] /\ segs' = [segs EXCEPT ![c] = <<>>]
        /\ level' = [level EXCEPT ![c] = 0] /\ current' = [current EXCEPT ![c] = NoGroup]
        /\ first' = [first EXCEPT ![c] = 0] /\ found' = [found EXCEPT ![c] = NoGroup]
        /\ pc' = [pc EXCEPT ![c] = "done"] /\ ret' = [ret EXCEPT ![c] = "error"]
        /\ UNCHANGED <<server, budget>>
      BY DEF RejectPath
  <1>2. WalkTypes /\ ServerStep
      BY <1>1, ServerRests DEF GroupInv, server, budget
  <1>3. WalkTypes' /\ OnlyMoves(c)
    <2>1. <<>> \in Seq(Names)
        OBVIOUS
    <2>2. OnlyMoves(c)
        BY <1>1, <1>2 DEF WalkTypes, OnlyMoves
    <2> QED
        BY <1>1, <1>2, <2>1, <2>2 DEF WalkTypes, NoGroup
  <1>4. segs'[c] = <<>> /\ pc'[c] = "done" /\ ret'[c] = "error"
      BY <1>1, <1>2 DEF WalkTypes
  <1>5. Standing(c)' /\ Refused(c)' /\ Asking(c)'
      BY <1>4 DEF Standing, Walking, Refused, Asking
  <1> QED
      BY <1>2, <1>3, <1>5, StepKeepsInv

\* A deletion moves no walk.
LEMMA DeleteStands ==
  ASSUME GroupInv, NEW g \in alive, DeleteGroup(g)
  PROVE  GroupInv'
  <1>1. /\ deletes' = deletes + 1 /\ faults' = faults /\ deletes \in Nat /\ faults \in Nat
        /\ UNCHANGED <<pc, op, segs, level, current, first, found, ret>>
      BY DEF DeleteGroup, walk, GroupInv
  <1>2. ServerInv' /\ Grown
      BY DeletionKeepsTree DEF GroupInv
  <1>3. deletes' # 0 /\ deletes' \in Nat
      BY <1>1
  <1>4. Spent /\ Intact' /\ faults' \in Nat
      BY <1>1, <1>3 DEF Spent, Intact
  <1>5. ASSUME NEW d \in Clients PROVE Standing(d)' /\ Refused(d)' /\ Asking(d)'
      BY <1>1, <1>2, <1>4, WalkStays
  <1>6. WalkTypes'
      BY <1>1 DEF GroupInv, WalkTypes
  <1> QED
      BY <1>2, <1>3, <1>4, <1>5, <1>6 DEF GroupInv, WalkInv

\* A call that does not yet walk: new, or the same again after an error.
LEMMA CallsStand ==
  ASSUME GroupInv, NEW c \in Clients,
         \/ \E s \in Paths : GetOrCreateGroupPathSegments(c, s) \/ FindGroupPathSegments(c, s)
         \/ \E raw \in RawPaths : GetOrCreateGroupPath(c, raw)
         \/ Retry(c)
  PROVE  GroupInv'
  <1>1. ASSUME NEW s \in Paths, GetOrCreateGroupPathSegments(c, s) \/ FindGroupPathSegments(c, s)
        PROVE  GroupInv'
    <2>1. s \in Seq(Names) /\ AskedFor(s)
        BY PathsAssumption DEF AskedFor
    <2>2. \E o \in {"getOrCreate", "find"} : Begin(c, o, s)
        BY <1>1 DEF GetOrCreateGroupPathSegments, FindGroupPathSegments
    <2> QED
        BY <2>1, <2>2, BeginStands
  <1>2. ASSUME NEW raw \in RawPaths, GetOrCreateGroupPath(c, raw) PROVE GroupInv'
    <2>1. ASSUME NEW i \in DOMAIN raw, NEW j \in DOMAIN raw, Segments(raw, i, j),
                 GetOrCreateGroupPathSegments(c, SubSeq(raw, i, j))
          PROVE  GroupInv'
      <3>1. SubSeq(raw, i, j) \in Seq(Names) /\ AskedFor(SubSeq(raw, i, j))
          BY <2>1, TrimmedIsNamed
      <3>2. Begin(c, "getOrCreate", SubSeq(raw, i, j))
          BY <2>1 DEF GetOrCreateGroupPathSegments
      <3> QED
          BY <3>1, <3>2, BeginStands
    <2> QED
        BY <1>2, <2>1, RejectStands DEF GetOrCreateGroupPath
  <1>3. ASSUME Retry(c) PROVE GroupInv'
    <2>1. PICK o, s : o = op[c] /\ s = segs[c]
        OBVIOUS
    <2>2. o \in {"none", "getOrCreate", "find"} /\ s \in Seq(Names) /\ (s = <<>> \/ AskedFor(s))
        BY <2>1 DEF GroupInv, WalkTypes, WalkInv, Asking
    <2>3. Begin(c, o, s)
        BY <1>3, <2>1 DEF Retry
    <2> QED
        BY <2>2, <2>3, BeginStands
  <1> QED
      BY <1>1, <1>2, <1>3

\* Every behaviour keeps the tree and the walks in order.
LEMMA GroupsAlways ==
  Spec => []GroupInv
  <1>1. Init => GroupInv
    <2> SUFFICES ASSUME Init PROVE GroupInv
        OBVIOUS
    <2> USE DEF Init
    <2>1. Created = {}
        BY DEF Created
    <2>2. ServerInv
      <3>1. groups \in Seq(Group)
          OBVIOUS
      <3> QED
          BY <2>1, <3>1
             DEF ServerInv, ServerTypes, PathsExtendParents, PathsAreUnique, ParentsExist
    <2>3. WalkTypes
        BY DEF WalkTypes, NoGroup
    <2>4. WalkInv
        BY DEF WalkInv, Standing, Walking, Refused, Asking
    <2>5. Intact /\ deletes \in Nat /\ faults \in Nat
        BY <2>1 DEF Intact
    <2> QED
        BY <2>2, <2>3, <2>4, <2>5 DEF GroupInv
  <1>2. GroupInv /\ [Next]_vars => GroupInv'
    <2> SUFFICES ASSUME GroupInv, [Next]_vars PROVE GroupInv'
        OBVIOUS
    <2>1. CASE UNCHANGED vars
      <3>1. /\ UNCHANGED <<groups, alive, deletes, faults>>
            /\ UNCHANGED <<pc, op, segs, level, current, first, found, ret>>
          BY <2>1 DEF vars, server, walk, budget
      <3>2. ServerStep
          BY <3>1, ServerRests
      <3>3. ASSUME NEW d \in Clients PROVE Standing(d)' /\ Refused(d)' /\ Asking(d)'
          BY <3>1, <3>2, WalkStays DEF ServerStep
      <3>4. WalkTypes'
          BY <3>1 DEF GroupInv, WalkTypes
      <3> QED
          BY <3>2, <3>3, <3>4 DEF GroupInv, WalkInv, ServerStep
    <2>2. CASE \E c \in Clients : WalkStep(c)
        BY <2>2, TopStands, ChildStands, CreateStands DEF WalkStep
    <2>3. CASE \E c \in Clients :
                 \/ \E s \in Paths :
                       GetOrCreateGroupPathSegments(c, s) \/ FindGroupPathSegments(c, s)
                 \/ \E raw \in RawPaths : GetOrCreateGroupPath(c, raw)
                 \/ Retry(c)
        BY <2>3, CallsStand
    <2>4. CASE Disturb
        BY <2>4, FaultStands, DeleteStands DEF Disturb
    <2> QED
        BY <2>1, <2>2, <2>3, <2>4 DEF Next
  <1> QED
      BY <1>1, <1>2, PTL DEF Spec

\* Every value keeps its type; in particular no walk of GetOrCreateGroupPath
\* holds the empty name of a doubled or outer slash.
THEOREM TypesAreKept ==
  Spec => []TypeOK
  <1>1. GroupInv => TypeOK
      BY DEF GroupInv, ServerInv, ServerTypes, WalkTypes, TypeOK, Group
  <1> QED
      BY <1>1, GroupsAlways, PTL

\* The group that FindGroupPathSegments or GetOrCreateGroupPathSegments returns
\* lies exactly on the path asked for, whatever is created and deleted meanwhile,
\* for any number of pages and levels: each level is looked up, or created, below
\* the group of the levels above it.
THEOREM ResultsAreOnPath ==
  Spec => []ResultIsOnPath
  <1>1. GroupInv => ResultIsOnPath
    <2> SUFFICES ASSUME GroupInv, NEW c \in Clients, ret[c] = "ok", segs[c] # <<>>
                 PROVE  current[c] \in Created /\ groups[current[c]].path = segs[c]
        BY DEF ResultIsOnPath
    <2>1. WalkTypes /\ Standing(c) /\ ServerTypes /\ PathsExtendParents
        BY DEF GroupInv, WalkInv, ServerInv
    <2>2. PICK s, l, p : s = segs[c] /\ l = level[c] /\ p = current[c]
        OBVIOUS
    <2>3. s \in Seq(Names) /\ l = Len(s) /\ s # <<>>
        BY <2>1, <2>2 DEF WalkTypes, Standing
    <2>4. l # 0
        BY <2>3, EmptySeq
    <2>5. p \in Created /\ Upto(groups[p].path, s, l)
        BY <2>1, <2>2, <2>4 DEF Standing
    <2>6. groups[p].path \in Seq(Names)
        BY <2>1, <2>5, GroupFacts
    <2>7. groups[p].path = s
        BY <2>3, <2>5, <2>6, WholePath
    <2> QED
        BY <2>2, <2>5, <2>7
  <1> QED
      BY <1>1, GroupsAlways, PTL

\* Only a GetOrCreate gets as far as creating.
Creators == \A c \in Clients : pc[c] = "create" => op[c] = "getOrCreate"

LEMMA CreatorsStep ==
  ASSUME WalkTypes, Creators, [Next]_vars
  PROVE  Creators'
  <1> SUFFICES ASSUME NEW d \in Clients, pc'[d] = "create"
               PROVE  op'[d] = "getOrCreate"
      BY DEF Creators
  <1> USE DEF WalkTypes
  <1>1. ASSUME NEW c \in Clients, NEW o, NEW s, Begin(c, o, s)
        PROVE  op'[d] = "getOrCreate"
      BY <1>1 DEF Begin, Creators
  <1>2. ASSUME NEW c \in Clients, RejectPath(c) PROVE op'[d] = "getOrCreate"
      BY <1>2 DEF RejectPath, Creators
  <1>3. ASSUME NEW c \in Clients, Fail(c) PROVE op'[d] = "getOrCreate"
      BY <1>3 DEF Fail, Creators
  <1>4. ASSUME NEW c \in Clients, NEW g, Advance(c, g) PROVE op'[d] = "getOrCreate"
    <2>1. op' = op /\ \E l \in {"done", "find"} : pc' = [pc EXCEPT ![c] = l]
        BY <1>4 DEF Advance
    <2> QED
        BY <2>1 DEF Creators
  <1>5. ASSUME NEW c \in Clients, NEW g, Conclude(c, g) PROVE op'[d] = "getOrCreate"
    <2>1. CASE NotFound(c)
        BY <2>1 DEF NotFound, Creators
    <2> QED
        BY <1>4, <1>5, <2>1 DEF Conclude
  <1>6. ASSUME pc' = pc, op' = op PROVE op'[d] = "getOrCreate"
      BY <1>6 DEF Creators
  <1>7. ASSUME NEW c \in Clients, WalkStep(c) PROVE op'[d] = "getOrCreate"
      BY <1>3, <1>4, <1>5, <1>6, <1>7
         DEF WalkStep, findTopGroup, findChildGroup, createChildGroup
  <1>8. ASSUME Disturb PROVE op'[d] = "getOrCreate"
      BY <1>3, <1>6, <1>8 DEF Disturb, RequestFails, CreateAnswerLost, DeleteGroup, walk
  <1>9. CASE UNCHANGED vars
      BY <1>6, <1>9 DEF vars, walk
  <1>10. ASSUME NEW c \in Clients,
                \/ \E s \in Paths : GetOrCreateGroupPathSegments(c, s) \/ FindGroupPathSegments(c, s)
                \/ \E raw \in RawPaths : GetOrCreateGroupPath(c, raw)
                \/ Retry(c)
         PROVE  op'[d] = "getOrCreate"
      BY <1>1, <1>2, <1>10
         DEF GetOrCreateGroupPathSegments, FindGroupPathSegments, GetOrCreateGroupPath, Retry
  <1> QED
      BY <1>7, <1>8, <1>9, <1>10 DEF Next

\* The segments up to some level, as a sequence.
LEMMA UptoIsSubSeq ==
  ASSUME NEW s \in Seq(Names), NEW P \in Seq(Names), NEW n \in 1..Len(s), Upto(P, s, n)
  PROVE  P = SubSeq(s, 1, n)
  <1>1. /\ SubSeq(s, 1, n) \in Seq(Names) /\ Len(SubSeq(s, 1, n)) = n
        /\ \A i \in 1..n : SubSeq(s, 1, n)[i] = s[i]
      OBVIOUS
  <1> QED
      BY <1>1, SeqEqual DEF Upto

\* What a creation adds is the next level of the walk's path.
LEMMA CreationIsNext ==
  ASSUME GroupInv, Creators, NEW c \in Clients, pc[c] = "create",
         CreateAllowed(current[c], segs[c][level[c] + 1]),
         CreateOnServer(current[c], segs[c][level[c] + 1])
  PROVE  \E d \in Clients :
            /\ op[d] = "getOrCreate" /\ pc[d] = "create"
            /\ Len(groups') = Len(groups) + 1
            /\ groups'[Len(groups) + 1].path = SubSeq(segs[d], 1, level[d] + 1)
  <1>1. Walking(c) /\ op[c] = "getOrCreate" /\ ServerInv /\ ServerTypes /\ Standing(c) /\ WalkTypes
      BY DEF Walking, Creators, GroupInv, WalkInv, ServerInv
  <1>2. PICK p, n : p = current[c] /\ n = segs[c][level[c] + 1]
      OBVIOUS
  <1>3. PICK P : P = PathOf(p, n)
      OBVIOUS
  <1>4. /\ p \in Position /\ n \in Names /\ P \in Seq(Names)
        /\ Upto(P, segs[c], level[c] + 1) /\ OnAsked(PathOf(p, n))
      BY <1>1, <1>2, <1>3, NextIsAsked
  <1>5. segs[c] \in Seq(Names) /\ level[c] + 1 \in 1..Len(segs[c])
      BY <1>1 DEF Standing, WalkTypes
  <1>6. P = SubSeq(segs[c], 1, level[c] + 1)
      BY <1>4, <1>5, UptoIsSubSeq
  <1>7. groups'[Len(groups) + 1].path = P
      BY <1>1, <1>2, <1>3, <1>4, CreationKeepsTree
  <1>8. Len(groups') = Len(groups) + 1
    <2>1. groups' = Append(groups, [parent |-> p, path |-> P]) /\ groups \in Seq(Group)
        BY <1>1, <1>2, <1>3 DEF CreateOnServer, ServerTypes
    <2>2. Len(Append(groups, [parent |-> p, path |-> P])) = Len(groups) + 1
        BY <2>1
    <2> QED
        BY <2>1, <2>2
  <1> QED
      BY <1>1, <1>6, <1>7, <1>8

\* Whatever is created and deleted meanwhile, a group is only ever created as
\* the next level of the path of a GetOrCreate that is under way: createChildGroup
\* posts below the group that the levels before have led to.
THEOREM CreationsAreAskedFor ==
  Spec => OnlyAskedForIsCreated
  <1> DEFINE Asked ==
         groups' # groups =>
           \E c \in Clients :
              /\ op[c] = "getOrCreate" /\ pc[c] = "create"
              /\ Len(groups') = Len(groups) + 1
              /\ groups'[Len(groups) + 1].path = SubSeq(segs[c], 1, level[c] + 1)
  <1>1. Init => Creators
      BY DEF Init, Creators
  <1>2. GroupInv /\ Creators /\ [Next]_vars => Creators'
      BY CreatorsStep DEF GroupInv
  <1>3. GroupInv /\ Creators /\ [Next]_vars => [Asked]_vars
    <2> SUFFICES ASSUME GroupInv, Creators, Next, groups' # groups
                 PROVE  \E c \in Clients :
                          /\ op[c] = "getOrCreate" /\ pc[c] = "create"
                          /\ Len(groups') = Len(groups) + 1
                          /\ groups'[Len(groups) + 1].path = SubSeq(segs[c], 1, level[c] + 1)
        OBVIOUS
    <2>1. \E c \in Clients :
             /\ pc[c] = "create"
             /\ CreateAllowed(current[c], segs[c][level[c] + 1])
             /\ CreateOnServer(current[c], segs[c][level[c] + 1])
      <3>1. ASSUME NEW c \in Clients PROVE ~Begin(c, op[c], segs[c]) /\ ~RejectPath(c)
                                        /\ \A o, s : ~Begin(c, o, s)
          BY DEF Begin, RejectPath, server
      <3>2. ASSUME NEW c \in Clients PROVE ~findTopGroup(c) /\ ~findChildGroup(c) /\ ~RequestFails(c)
          BY DEF findTopGroup, findChildGroup, RequestFails, server
      <3>3. \A g : ~DeleteGroup(g)
          BY DEF DeleteGroup
      <3>4. \E c \in Clients : createChildGroup(c) \/ CreateAnswerLost(c)
          BY <3>1, <3>2, <3>3
             DEF Next, GetOrCreateGroupPathSegments, FindGroupPathSegments,
                 GetOrCreateGroupPath, Retry, WalkStep, Disturb
      <3> QED
          BY <3>4 DEF createChildGroup, CreateAnswerLost, server
    <2> QED
        BY <2>1, CreationIsNext
  <1> QED
      BY <1>1, <1>2, <1>3, GroupsAlways, PTL DEF Spec, OnlyAskedForIsCreated

\* While nothing fails and nothing is deleted, an error of GetOrCreate means that
\* the group it was about to create is there: somebody else was faster.
THEOREM RefusalsAreLostRaces ==
  Spec => []RefusedMeansThere
  <1>1. GroupInv => RefusedMeansThere
    <2> SUFFICES ASSUME GroupInv, NEW c \in Clients, ret[c] = "error", segs[c] # <<>>,
                        deletes = 0, faults = 0
                 PROVE  ChildNamed(current[c], segs[c][level[c] + 1]) # NoGroup
        BY DEF RefusedMeansThere
    <2>1. HasChild(current[c], segs[c][level[c] + 1]) /\ ServerTypes
        BY DEF GroupInv, WalkInv, Refused, ServerInv
    <2> QED
        BY <2>1, ChildNamedFacts
  <1> QED
      BY <1>1, GroupsAlways, PTL
=============================================================================
