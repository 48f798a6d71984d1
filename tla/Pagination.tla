----------------------------- MODULE Pagination -----------------------------
(***************************************************************************)
(* The paginated listings of pkg/keycloak: GetGroups, GetUserGroups,       *)
(* GetGroupMembers and GetUsersByClientRoleName.  The helper asks for      *)
(* fixed-size pages by offset until a page comes back short; between two   *)
(* requests the server's list may change under it, because other clients   *)
(* create and delete groups and memberships.                               *)
(***************************************************************************)
EXTENDS Integers, Sequences, SequencesExt

CONSTANTS
    Items,          \* groups or users that may be listed
    InitialLists,   \* the lists the server may start with
    PageSize,       \* groupsPageSize
    MaxChanges,     \* bound: changes of the list by other clients
    MaxCalls        \* bound: listings made

ASSUME InitialListsAssumption ==
    \A s \in InitialLists : s \in Seq(Items) /\ IsInjective(s)
ASSUME PageSizeAssumption == PageSize \in Nat \ {0}
ASSUME BoundsAssumption == MaxChanges \in Nat /\ MaxCalls \in Nat

VARIABLES
    kind,       \* which listing this is
    list,       \* the server's list, in the server's order
    pc,         \* the helper's call: "idle", "fetch", "done", "failed"
    first,      \* the offset of the next page
    all,        \* the items collected; when "done", the result
    changes,    \* changes made so far
    calls,      \* listings made so far
    atStart,    \* history: the items on the list when the call began
    added,      \* history: the items added to the list since then
    dropped     \* history: the items removed from it since then

vars == <<kind, list, pc, first, all, changes, calls, atStart, added, dropped>>
call == <<pc, first, all, calls>>
history == <<atStart, added, dropped>>

Kinds == {"groups", "userGroups", "groupMembers", "clientRoleUsers"}

Init ==
    /\ kind \in Kinds
    /\ list \in InitialLists
    /\ pc = "idle"
    /\ first = 0
    /\ all = <<>>
    /\ changes = 0
    /\ calls = 0
    /\ atStart = {}
    /\ added = {}
    /\ dropped = {}

-----------------------------------------------------------------------------

\* The server's answer to a request for m items from offset f.
Page(f, m) == SubSeq(list, f + 1, IF f + m < Len(list) THEN f + m ELSE Len(list))

BeginHistory ==
    /\ atStart' = ToSet(list)
    /\ added' = {}
    /\ dropped' = {}

\* A listing begins with nothing collected and offset 0.
Begin(k) ==
    /\ kind = k
    /\ pc # "fetch"
    /\ calls < MaxCalls
    /\ calls' = calls + 1
    /\ pc' = "fetch"
    /\ first' = 0
    /\ all' = <<>>
    /\ BeginHistory
    /\ UNCHANGED <<kind, list, changes>>

GetGroups == Begin("groups")
GetUserGroups == Begin("userGroups")
GetGroupMembers == Begin("groupMembers")
GetUsersByClientRoleName == Begin("clientRoleUsers")

\* GetGroups of a caller that sets Max itself: one request, passed through.
GetGroupsWithMax(f, m) ==
    /\ kind = "groups"
    /\ pc # "fetch"
    /\ calls < MaxCalls
    /\ calls' = calls + 1
    /\ pc' = "single"
    /\ first' = f
    /\ all' = Page(f, m)
    /\ BeginHistory
    /\ UNCHANGED <<kind, list, changes>>

\* Faulty variant: a full page ends the walk.
FetchStopsOnFull ==
    LET got == Page(first, PageSize) IN
    /\ pc = "fetch"
    /\ all' = all \o got
    /\ \/ /\ Len(got) <= PageSize
          /\ pc' = "done"
          /\ UNCHANGED first
       \/ /\ Len(got) > PageSize
          /\ first' = first + PageSize
          /\ UNCHANGED pc
    /\ UNCHANGED <<kind, list, changes, calls, history>>

\* Faulty variant: consecutive pages overlap by one.
FetchOverlaps ==
    LET got == Page(first, PageSize) IN
    /\ pc = "fetch"
    /\ all' = all \o got
    /\ \/ /\ Len(got) < PageSize
          /\ pc' = "done"
          /\ UNCHANGED first
       \/ /\ Len(got) >= PageSize
          /\ first' = first + PageSize - 1
          /\ UNCHANGED pc
    /\ UNCHANGED <<kind, list, changes, calls, history>>

\* Faulty variant: one item is skipped between pages.
FetchSkips ==
    LET got == Page(first, PageSize) IN
    /\ pc = "fetch"
    /\ all' = all \o got
    /\ \/ /\ Len(got) < PageSize
          /\ pc' = "done"
          /\ UNCHANGED first
       \/ /\ Len(got) >= PageSize
          /\ first' = first + PageSize + 1
          /\ UNCHANGED pc
    /\ UNCHANGED <<kind, list, changes, calls, history>>

\* Faulty variant: the offset is never moved.
FetchSamePage ==
    LET got == Page(first, PageSize) IN
    /\ pc = "fetch"
    /\ all' = got
    /\ \/ /\ Len(got) < PageSize
          /\ pc' = "done"
       \/ /\ Len(got) >= PageSize
          /\ UNCHANGED pc
    /\ UNCHANGED <<kind, list, first, changes, calls, history>>

\* One turn of the loop: a page is appended; a short one ends the call.
Fetch ==
    LET got == Page(first, PageSize) IN
    /\ pc = "fetch"
    /\ all' = all \o got
    /\ \/ /\ Len(got) < PageSize
          /\ pc' = "done"
          /\ UNCHANGED first
       \/ /\ Len(got) >= PageSize
          /\ first' = first + PageSize
          /\ UNCHANGED pc
    /\ UNCHANGED <<kind, list, changes, calls, history>>

\* A request fails: the pages collected so far are dropped.
FetchError ==
    /\ pc = "fetch"
    /\ pc' = "failed"
    /\ all' = <<>>
    /\ UNCHANGED <<kind, list, first, changes, calls, history>>

paginateGroups == kind \in {"groups", "userGroups"} /\ (Fetch \/ FetchError)
paginateGroupMembers == kind = "groupMembers" /\ (Fetch \/ FetchError)
paginateClientRoleUsers == kind = "clientRoleUsers" /\ (Fetch \/ FetchError)

-----------------------------------------------------------------------------

\* Another client adds an item (createChildGroup, AddUserToGroup, a role
\* grant); the server's order puts it anywhere.
Insert(x, i) ==
    /\ changes < MaxChanges
    /\ x \notin ToSet(list)
    /\ list' = InsertAt(list, i, x)
    /\ changes' = changes + 1
    /\ added' = added \union {x}
    /\ UNCHANGED <<kind, call, atStart, dropped>>

\* Another client removes one (DeleteGroup, DeleteUserFromGroup).
Delete(i) ==
    /\ changes < MaxChanges
    /\ list' = RemoveAt(list, i)
    /\ changes' = changes + 1
    /\ dropped' = dropped \union {list[i]}
    /\ UNCHANGED <<kind, call, atStart, added>>

\* The helper's own wrappers make such changes, for the lists of their kind.
AddUserToGroup ==
    /\ kind \in {"userGroups", "groupMembers"}
    /\ \E x \in Items, i \in 1..Len(list) + 1 : Insert(x, i)

DeleteUserFromGroup ==
    /\ kind \in {"userGroups", "groupMembers"}
    /\ \E i \in 1..Len(list) : Delete(i)

createChildGroup ==
    /\ kind = "groups"
    /\ \E x \in Items, i \in 1..Len(list) + 1 : Insert(x, i)

DeleteGroup ==
    /\ kind \in {"groups", "userGroups"}
    /\ \E i \in 1..Len(list) : Delete(i)

\* Role grants and revocations are made outside this package.
ChangeRoleUsers ==
    /\ kind = "clientRoleUsers"
    /\ \/ \E x \in Items, i \in 1..Len(list) + 1 : Insert(x, i)
       \/ \E i \in 1..Len(list) : Delete(i)

Walk == paginateGroups \/ paginateGroupMembers \/ paginateClientRoleUsers

Next ==
    \/ GetGroups
    \/ GetUserGroups
    \/ GetGroupMembers
    \/ GetUsersByClientRoleName
    \/ \E f \in 0..Len(list), m \in 1..PageSize : GetGroupsWithMax(f, m)
    \/ Walk
    \/ AddUserToGroup
    \/ DeleteUserFromGroup
    \/ createChildGroup
    \/ DeleteGroup
    \/ ChangeRoleUsers

Spec == Init /\ [][Next]_vars

\* The loop does not stop by itself: every request is answered or times out.
FairSpec == Spec /\ WF_vars(Fetch)

-----------------------------------------------------------------------------

\* The offset never runs below zero and only items are ever collected.
TypeOK ==
    /\ kind \in Kinds
    /\ list \in Seq(Items)
    /\ pc \in {"idle", "fetch", "single", "done", "failed"}
    /\ first \in Nat
    /\ all \in Seq(Items)
    /\ changes \in Nat
    /\ calls \in Nat
    /\ atStart \subseteq Items
    /\ added \subseteq Items
    /\ dropped \subseteq Items

\* A listing during which the list did not change returns the whole list, in
\* order, however many pages it takes (also when the last page is full).
QuietListingIsExact ==
    pc = "done" /\ added = {} /\ dropped = {} => all = list

\* Additions alone never hide an item: whatever was on the list from the start
\* is in the result, possibly twice.  (A removal can: it moves the items behind
\* it into a page already fetched.)
AdditionsHideNothing ==
    pc = "done" /\ dropped = {} => atStart \subseteq ToSet(all)

\* Removals alone never make an item appear twice.  (An addition can.)
RemovalsRepeatNothing ==
    pc = "done" /\ added = {} => IsInjective(all)

\* The result holds no item that was not on the list at some time of the call.
NothingInvented == pc = "done" => ToSet(all) \subseteq atStart \union added

\* A listing comes to an end once the list stops growing.
ListingEnds == pc = "fetch" ~> pc # "fetch"

-----------------------------------------------------------------------------
\* The inductive invariant behind these properties: the offset divides the
\* list into what the walk has passed and what is ahead of it.

\* No change: the walk has collected exactly what is in front of the offset.
Collected ==
    pc \in {"fetch", "done"} /\ added = {} /\ dropped = {} =>
        /\ Len(all) <= Len(list)
        /\ Len(all) = (IF pc = "fetch" THEN first ELSE Len(list))
        /\ \A i \in 1..Len(all) : all[i] = list[i]

\* No removal: every item of the start that the walk has passed is collected.
Passed ==
    pc \in {"fetch", "done"} /\ dropped = {} =>
        /\ atStart \subseteq ToSet(list)
        /\ \A i \in 1..Len(list) :
               list[i] \in atStart /\ (i <= first \/ pc = "done")
                   => list[i] \in ToSet(all)

\* No addition: whatever is collected is behind the offset, or gone.
Behind ==
    pc \in {"fetch", "done"} /\ added = {} =>
        /\ IsInjective(all)
        /\ pc = "fetch" =>
               \A i \in 1..Len(list) : list[i] \in ToSet(all) => i <= first

\* Whatever is or was listed was there at the start or was added.
Accounted ==
    pc \in {"fetch", "done"} =>
        /\ ToSet(list) \subseteq atStart \union added
        /\ ToSet(all) \subseteq atStart \union added

\* Together: at every moment of a listing, through any mix of changes, what was
\* collected and what is still ahead of the offset account for the whole list.
WalkInv ==
    /\ IsInjective(list)
    /\ Collected
    /\ Passed
    /\ Behind
    /\ Accounted
=============================================================================
