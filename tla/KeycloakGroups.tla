--------------------------- MODULE KeycloakGroups ---------------------------
(***************************************************************************)
(* GetOrCreateGroupPath, GetOrCreateGroupPathSegments and                  *)
(* FindGroupPathSegments of pkg/keycloak: callers walk down the group tree *)
(* of one realm, one server request per step, and create the levels they   *)
(* do not find.  Nothing locks the tree between a look-up and the creation *)
(* that follows it; other callers create, and anyone may delete, in        *)
(* between.                                                                *)
(***************************************************************************)
EXTENDS Integers, Sequences, FiniteSets, SequencesExt

CONSTANTS
    Clients,        \* goroutines or processes that use the realm
    Persistent,     \* those that after an error ask again for the same path
    Names,          \* group names; their order is the server's sort order
    Paths,          \* segment lists that callers ask for
    RawPaths,       \* "/"-joined paths that callers ask for, split at "/"
    PageSize,       \* groupsPageSize
    LegacySubGroups,\* does GET /groups/{id} carry the subgroups? (not on 23+)
    MaxDeletes,     \* bound: groups deleted
    MaxFaults       \* bound: requests that fail although the server is sound

Blank == 0      \* an empty segment of a raw path
NoGroup == 0    \* the nil group; groups are numbered as they are created

ASSUME PersistentAssumption == Persistent \subseteq Clients
ASSUME NamesAssumption == Names \subseteq Nat \ {Blank}
ASSUME PathsAssumption == Paths \subseteq Seq(Names)
ASSUME RawPathsAssumption == RawPaths \subseteq Seq(Names \union {Blank})
ASSUME PageSizeAssumption == PageSize \in Nat \ {0}
ASSUME LegacySubGroupsAssumption == LegacySubGroups \in BOOLEAN
ASSUME BoundsAssumption == MaxDeletes \in Nat /\ MaxFaults \in Nat

VARIABLES
    groups,     \* the groups ever created: [parent, path], numbered from 1
    alive,      \* the groups that exist
    pc,         \* where each call is
    op,         \* which operation each client is in
    segs,       \* the segments it asks for
    level,      \* how many of them are resolved
    current,    \* the group reached, NoGroup above the first level
    first,      \* the offset of the next page of top-level groups
    found,      \* the match in the pages fetched so far
    ret,        \* the outcome of the latest call
    deletes,    \* groups deleted so far
    faults      \* faults so far

server == <<groups, alive>>
walk == <<pc, op, segs, level, current, first, found, ret>>
budget == <<deletes, faults>>
vars == <<server, walk, budget>>

Init ==
    /\ groups = <<>>
    /\ alive = {}
    /\ pc = [c \in Clients |-> "idle"]
    /\ op = [c \in Clients |-> "none"]
    /\ segs = [c \in Clients |-> <<>>]
    /\ level = [c \in Clients |-> 0]
    /\ current = [c \in Clients |-> NoGroup]
    /\ first = [c \in Clients |-> 0]
    /\ found = [c \in Clients |-> NoGroup]
    /\ ret = [c \in Clients |-> "none"]
    /\ deletes = 0
    /\ faults = 0

-----------------------------------------------------------------------------
(* The server (Keycloak), as the helper uses it. *)

GroupName(g) == Last(groups[g].path)

\* The children of p that exist; those of NoGroup are the top-level groups.
Children(p) == {g \in alive : groups[g].parent = p}

\* The child of p called n, NoGroup if there is none.
ChildNamed(p, n) ==
    IF \E g \in Children(p) : GroupName(g) = n
    THEN CHOOSE g \in Children(p) : GroupName(g) = n
    ELSE NoGroup

\* The page of top-level groups at offset f, in name order.
TopPage(f) ==
    {g \in Children(NoGroup) :
        Cardinality({h \in Children(NoGroup) : GroupName(h) < GroupName(g)})
            \in f..(f + PageSize - 1)}

PathOf(p, n) == IF p = NoGroup THEN <<n>> ELSE Append(groups[p].path, n)

\* POST .../groups or .../groups/{id}/children: 404 without the parent, 409
\* beside a sibling of that name.
CreateAllowed(p, n) ==
    /\ p = NoGroup \/ p \in alive
    /\ ChildNamed(p, n) = NoGroup

CreateOnServer(p, n) ==
    /\ groups' = Append(groups, [parent |-> p, path |-> PathOf(p, n)])
    /\ alive' = alive \union {Len(groups) + 1}

-----------------------------------------------------------------------------
(* A call begins. *)

Begin(c, o, s) ==
    /\ pc[c] \in {"idle", "done"}
    /\ op' = [op EXCEPT ![c] = o]
    /\ segs' = [segs EXCEPT ![c] = s]
    /\ level' = [level EXCEPT ![c] = 0]
    /\ current' = [current EXCEPT ![c] = NoGroup]
    /\ first' = [first EXCEPT ![c] = 0]
    /\ found' = [found EXCEPT ![c] = NoGroup]
    \* The range over no segments returns a nil group without error.
    /\ pc' = [pc EXCEPT ![c] = IF s = <<>> THEN "done" ELSE "find"]
    /\ ret' = [ret EXCEPT ![c] = IF s = <<>> THEN "ok" ELSE "none"]
    /\ UNCHANGED <<server, budget>>

GetOrCreateGroupPathSegments(c, s) == Begin(c, "getOrCreate", s)

FindGroupPathSegments(c, s) == Begin(c, "find", s)

RejectPath(c) ==
    /\ pc[c] \in {"idle", "done"}
    /\ op' = [op EXCEPT ![c] = "getOrCreate"]
    /\ segs' = [segs EXCEPT ![c] = <<>>]
    /\ level' = [level EXCEPT ![c] = 0]
    /\ current' = [current EXCEPT ![c] = NoGroup]
    /\ first' = [first EXCEPT ![c] = 0]
    /\ found' = [found EXCEPT ![c] = NoGroup]
    /\ pc' = [pc EXCEPT ![c] = "done"]
    /\ ret' = [ret EXCEPT ![c] = "error"]
    /\ UNCHANGED <<server, budget>>

\* strings.Trim drops the outer slashes, which leaves segments i to j; an empty
\* segment among them, or nothing at all, makes the path invalid.
Segments(raw, i, j) == \A k \in DOMAIN raw : raw[k] # Blank <=> k \in i..j

ValidPath(raw) == \E i, j \in DOMAIN raw : i <= j /\ Segments(raw, i, j)

GetOrCreateGroupPath(c, raw) ==
    \/ \E i, j \in DOMAIN raw :
        /\ i <= j
        /\ Segments(raw, i, j)
        /\ GetOrCreateGroupPathSegments(c, SubSeq(raw, i, j))
    \/ ~ValidPath(raw) /\ RejectPath(c)

-----------------------------------------------------------------------------
(* The walk. *)

\* An error ends the call at once; whatever it created stays.
Fail(c) ==
    /\ pc' = [pc EXCEPT ![c] = "done"]
    /\ ret' = [ret EXCEPT ![c] = "error"]
    /\ UNCHANGED <<op, segs, level, current, first, found>>

\* Faulty variant: the walk stays at the first level.
AdvanceSkippingLevel(c, g) ==
    /\ level' = [level EXCEPT ![c] = @ + 1]
    /\ first' = [first EXCEPT ![c] = 0]
    /\ found' = [found EXCEPT ![c] = NoGroup]
    /\ IF level[c] + 1 = Len(segs[c])
       THEN /\ pc' = [pc EXCEPT ![c] = "done"]
            /\ ret' = [ret EXCEPT ![c] = "ok"]
       ELSE /\ pc' = [pc EXCEPT ![c] = "find"]
            /\ UNCHANGED ret
    /\ current' = [current EXCEPT ![c] = IF @ = NoGroup THEN g ELSE @]
    /\ UNCHANGED <<op, segs>>

\* current = child: one level down, or the end of the walk.
Advance(c, g) ==
    /\ level' = [level EXCEPT ![c] = @ + 1]
    /\ current' = [current EXCEPT ![c] = g]
    /\ first' = [first EXCEPT ![c] = 0]
    /\ found' = [found EXCEPT ![c] = NoGroup]
    /\ IF level[c] + 1 = Len(segs[c])
       THEN /\ pc' = [pc EXCEPT ![c] = "done"]
            /\ ret' = [ret EXCEPT ![c] = "ok"]
       ELSE /\ pc' = [pc EXCEPT ![c] = "find"]
            /\ UNCHANGED ret
    /\ UNCHANGED <<op, segs>>

\* Faulty variant: a find creates what it does not find.
NotFoundCreates(c) ==
    /\ pc' = [pc EXCEPT ![c] = "create"]
    /\ UNCHANGED <<op, segs, level, current, first, found, ret>>

\* findChildGroup has returned no group: create it, or report nil.
NotFound(c) ==
    /\ IF op[c] = "getOrCreate"
       THEN /\ pc' = [pc EXCEPT ![c] = "create"]
            /\ UNCHANGED ret
       ELSE /\ pc' = [pc EXCEPT ![c] = "done"]
            /\ ret' = [ret EXCEPT ![c] = "notFound"]
    /\ UNCHANGED <<op, segs, level, current, first, found>>

Conclude(c, g) == IF g = NoGroup THEN NotFound(c) ELSE Advance(c, g)

\* Faulty variant: only the first page is searched.
findTopGroupFirstPage(c) ==
    LET name == segs[c][level[c] + 1]
        match == {g \in TopPage(0) : GroupName(g) = name}
    IN
    /\ pc[c] = "find"
    /\ current[c] = NoGroup
    /\ Conclude(c, IF match = {} THEN NoGroup ELSE CHOOSE g \in match : TRUE)
    /\ UNCHANGED <<server, budget>>

\* findChildGroup above the first level: one page of GetGroups.  All pages are
\* fetched before the names are compared.
findTopGroup(c) ==
    LET page == TopPage(first[c])
        name == segs[c][level[c] + 1]
        match == {g \in page : GroupName(g) = name}
        best == IF found[c] = NoGroup /\ match # {} THEN CHOOSE g \in match : TRUE
                ELSE found[c]
    IN
    /\ pc[c] = "find"
    /\ current[c] = NoGroup
    /\ IF Cardinality(page) < PageSize
       THEN Conclude(c, best)
       ELSE /\ first' = [first EXCEPT ![c] = @ + PageSize]
            /\ found' = [found EXCEPT ![c] = best]
            /\ UNCHANGED <<pc, op, segs, level, current, ret>>
    /\ UNCHANGED <<server, budget>>

\* Faulty variant: a missing child is an error.
findChildGroupErrs(c) ==
    LET child == ChildNamed(current[c], segs[c][level[c] + 1]) IN
    /\ pc[c] = "find"
    /\ current[c] # NoGroup
    /\ IF current[c] \in alive /\ child # NoGroup THEN Advance(c, child) ELSE Fail(c)
    /\ UNCHANGED <<server, budget>>

\* findChildGroup below a group: GET /groups/{id} and its SubGroups, which a
\* current server leaves empty.
findChildGroup(c) ==
    LET name == segs[c][level[c] + 1] IN
    /\ pc[c] = "find"
    /\ current[c] # NoGroup
    /\ IF current[c] \in alive
       THEN Conclude(c, IF LegacySubGroups THEN ChildNamed(current[c], name)
                        ELSE NoGroup)
       ELSE Fail(c)
    /\ UNCHANGED <<server, budget>>

\* createChildGroup: created, or refused by the server.
createChildGroup(c) ==
    LET p == current[c]
        name == segs[c][level[c] + 1]
    IN
    /\ pc[c] = "create"
    /\ \/ /\ CreateAllowed(p, name)
          /\ CreateOnServer(p, name)
          /\ Advance(c, Len(groups) + 1)
       \/ /\ ~CreateAllowed(p, name)
          /\ Fail(c)
          /\ UNCHANGED server
    /\ UNCHANGED budget

\* A request does not get through, or times out after ten seconds; a creation
\* may have taken effect by then.
RequestFails(c) ==
    /\ pc[c] \in {"find", "create"}
    /\ faults < MaxFaults
    /\ faults' = faults + 1
    /\ Fail(c)
    /\ UNCHANGED <<server, deletes>>

CreateAnswerLost(c) ==
    LET p == current[c]
        name == segs[c][level[c] + 1]
    IN
    /\ pc[c] = "create"
    /\ faults < MaxFaults
    /\ faults' = faults + 1
    /\ CreateAllowed(p, name)
    /\ CreateOnServer(p, name)
    /\ Fail(c)
    /\ UNCHANGED deletes

\* DeleteGroup: the server deletes the group with everything below it.
DeleteGroup(g) ==
    /\ g \in alive
    /\ deletes < MaxDeletes
    /\ deletes' = deletes + 1
    /\ alive' = {h \in alive : ~IsPrefix(groups[g].path, groups[h].path)}
    /\ UNCHANGED <<groups, walk, faults>>

-----------------------------------------------------------------------------

WalkStep(c) == findTopGroup(c) \/ findChildGroup(c) \/ createChildGroup(c)

Disturb ==
    \/ \E c \in Clients : RequestFails(c) \/ CreateAnswerLost(c)
    \/ \E g \in alive : DeleteGroup(g)

\* A persistent caller does nothing else until its path is there.
Resolved(c) == c \in Persistent /\ segs[c] # <<>> => ret[c] # "error"

\* After an error it calls the same operation with the same segments.
Retry(c) ==
    /\ ~Resolved(c)
    /\ Begin(c, op[c], segs[c])

Next ==
    \/ \E c \in Clients :
        \/ /\ Resolved(c)
           /\ \/ \E s \in Paths :
                   \/ GetOrCreateGroupPathSegments(c, s)
                   \/ FindGroupPathSegments(c, s)
              \/ \E raw \in RawPaths : GetOrCreateGroupPath(c, raw)
        \/ Retry(c)
        \/ WalkStep(c)
    \/ Disturb

Spec == Init /\ [][Next]_vars

\* Persistent callers keep running and keep asking; the others may stop at any
\* point of a walk.
FairSpec ==
    /\ Spec
    /\ \A c \in Persistent : WF_vars(WalkStep(c)) /\ WF_vars(Retry(c))

-----------------------------------------------------------------------------

Created == 1..Len(groups)

\* No walk ever holds, and no group ever bears, the empty name that a doubled or
\* outer slash of a raw path would give (GetOrCreateGroupPath rejects it).
TypeOK ==
    /\ groups \in Seq([parent : Nat, path : Seq(Names)])
    /\ alive \subseteq Created
    /\ pc \in [Clients -> {"idle", "find", "create", "done"}]
    /\ op \in [Clients -> {"none", "getOrCreate", "find"}]
    /\ segs \in [Clients -> Seq(Names)]
    /\ level \in [Clients -> Nat]
    /\ current \in [Clients -> Nat]
    /\ first \in [Clients -> Nat]
    /\ found \in [Clients -> Nat]
    /\ ret \in [Clients -> {"none", "ok", "notFound", "error"}]
    /\ deletes \in Nat
    /\ faults \in Nat

\* The group a successful walk returns lies exactly on the path asked for,
\* level by level, whatever was created and deleted while it walked: a walk
\* never continues below a group of another path.
ResultIsOnPath ==
    \A c \in Clients : pc[c] = "done" /\ ret[c] = "ok" /\ segs[c] # <<>> =>
        /\ current[c] \in Created
        /\ groups[current[c]].path = segs[c]

\* Every group that appears in the realm is the next level of the path of a
\* GetOrCreate under way: FindGroupPathSegments creates nothing, and a walk never
\* creates below a group of another path, also when groups it has passed were
\* deleted and made anew by others or its request fails after taking effect.
OnlyAskedForIsCreated ==
    [][groups' # groups =>
         \E c \in Clients :
            /\ op[c] = "getOrCreate" /\ pc[c] = "create"
            /\ Len(groups') = Len(groups) + 1
            /\ groups'[Len(groups) + 1].path = SubSeq(segs[c], 1, level[c] + 1)]_vars

\* While no request was lost and nothing deleted, GetOrCreate fails only because
\* the group it was about to create is there by then: the loser of a race (409)
\* has only to look again.
RefusedMeansThere ==
    \A c \in Clients :
        /\ ret[c] = "error"
        /\ segs[c] # <<>>
        /\ deletes = 0
        /\ faults = 0
        => ChildNamed(current[c], segs[c][level[c] + 1]) # NoGroup

\* A caller that asks again after an error gets its answer in the end, once
\* faults and deletions stop, whatever the others go on doing: the loser of a
\* race (409) finds the winner's group on its next attempt, on whichever page of
\* top-level groups it is.
PersistentCallerSucceeds ==
    \A c \in Persistent :
        pc[c] = "find" ~>
            \/ pc[c] = "done" /\ ret[c] = "ok"
            \/ pc[c] = "done" /\ ret[c] = "notFound" /\ op[c] = "find"
=============================================================================
