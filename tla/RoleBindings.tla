---------------------------- MODULE RoleBindings ----------------------------
(***************************************************************************)
(* The role binding operations of pkg/kubernetes.  The helper has one      *)
(* RoleBindingClient, bound to one namespace at a time; DeleteRoleBindings *)
(* and DeleteRoleBindingsIfTheServiceAccountIsIncluded re-bind it in their *)
(* loops and leave it bound to the last namespace.  Goroutines that share  *)
(* the helper share that field, without a lock.                            *)
(***************************************************************************)
EXTENDS Naturals, Sequences, SequencesExt

CONSTANTS
    Workers,    \* goroutines that share the helper
    Spaces,     \* namespaces
    AllSpaces,  \* the namespace "": its client lists every namespace
    Users,      \* service accounts; a user's own binding bears its name
    Bindings,   \* the role bindings at first: [space, name, subjects]
    Requests,   \* lists of namespaces given to DeleteRoleBindings
    MaxFaults,  \* bound: requests that fail although the API server is sound
    MaxCalls    \* bound: calls of the operations

NoBinding == [space |-> AllSpaces, name |-> "none", subjects |-> {}]
Ops == {"none", "byName", "bySubject"}

VARIABLES
    bindings,   \* the role bindings there are
    client,     \* the namespace h.RoleBindingClient is bound to
    pc,         \* each goroutine: "idle", "rebind" (loop head), "delete"
    op,         \* its operation
    user,       \* its username argument
    request,    \* its namespaces argument
    spaces,     \* DeleteRoleBindings: the namespaces not handled yet
    listed,     \* the other operation: the matching bindings not handled yet
    current,    \* the binding the loop body is at
    scope,      \* history: the namespace its List was answered for
    gone,       \* history: the bindings its call has deleted
    alone,      \* history: "yes" while no other goroutine used the helper
    ret,        \* the outcome of its latest call
    faults,     \* faults so far
    calls       \* calls so far

locals == <<op, user, request, spaces, listed, current, scope, gone, ret>>
vars == <<bindings, client, pc, locals, alone, faults, calls>>

Init ==
    /\ bindings = Bindings
    /\ client = AllSpaces
    /\ pc = [w \in Workers |-> "idle"]
    /\ op = [w \in Workers |-> "none"]
    /\ user = [w \in Workers |-> "none"]
    /\ request = [w \in Workers |-> <<>>]
    /\ spaces = [w \in Workers |-> <<>>]
    /\ listed = [w \in Workers |-> {}]
    /\ current = [w \in Workers |-> NoBinding]
    /\ scope = [w \in Workers |-> AllSpaces]
    /\ gone = [w \in Workers |-> {}]
    /\ alone = [w \in Workers |-> "yes"]
    /\ ret = [w \in Workers |-> "none"]
    /\ faults = 0
    /\ calls = 0

-----------------------------------------------------------------------------

\* Worker w begins a call: the others are not alone any more, nor
\* is w if one of them is in a call.
Enter(w) ==
    alone' = [v \in Workers |->
        IF v = w /\ \A u \in Workers \ {w} : pc[u] = "idle" THEN "yes" ELSE "no"]

\* A caller binds the client itself.
SetRoleBindingClient(w, s) ==
    /\ pc[w] = "idle"
    /\ client' = s
    /\ alone' = [v \in Workers |-> IF v = w THEN alone[v] ELSE "no"]
    /\ UNCHANGED <<bindings, pc, locals, faults, calls>>

Return(w, r) ==
    /\ pc' = [pc EXCEPT ![w] = "idle"]
    /\ ret' = [ret EXCEPT ![w] = r]

\* ListRoleBindings: what a client bound to s lists.
Visible(s) == {b \in bindings : s \in {AllSpaces, b.space}}

\* CreateRoleBinding creates where the client happens to be bound; all
\* namespaces, and a binding that is there already, are errors.
CreateRoleBinding(w, b) ==
    /\ pc[w] = "idle"
    /\ calls < MaxCalls
    /\ calls' = calls + 1
    /\ Enter(w)
    /\ op' = [op EXCEPT ![w] = "none"]
    /\ gone' = [gone EXCEPT ![w] = {}]
    /\ \/ /\ client = b.space
          /\ b \notin bindings
          /\ bindings' = bindings \union {b}
          /\ ret' = [ret EXCEPT ![w] = "ok"]
       \/ /\ client = AllSpaces \/ b \in bindings
          /\ ret' = [ret EXCEPT ![w] = "error"]
          /\ UNCHANGED bindings
    /\ UNCHANGED <<client, pc, user, request, spaces, listed, current, scope, faults>>

DeleteRoleBindings(w, u, r) ==
    /\ pc[w] = "idle"
    /\ calls < MaxCalls
    /\ calls' = calls + 1
    /\ Enter(w)
    /\ pc' = [pc EXCEPT ![w] = "rebind"]
    /\ op' = [op EXCEPT ![w] = "byName"]
    /\ user' = [user EXCEPT ![w] = u]
    /\ request' = [request EXCEPT ![w] = r]
    /\ spaces' = [spaces EXCEPT ![w] = r]
    /\ listed' = [listed EXCEPT ![w] = {}]
    /\ gone' = [gone EXCEPT ![w] = {}]
    /\ ret' = [ret EXCEPT ![w] = "none"]
    /\ UNCHANGED <<bindings, client, current, scope, faults>>

\* A service account of that name and namespace is among the subjects.
IsBoundServiceAccount(b, u) == u \in b.subjects

\* The other operation lists first, with whatever client it finds; a binding
\* is handled once when one of its subjects is the service account.
DeleteRoleBindingsIfTheServiceAccountIsIncluded(w, u) ==
    /\ pc[w] = "idle"
    /\ calls < MaxCalls
    /\ calls' = calls + 1
    /\ Enter(w)
    /\ pc' = [pc EXCEPT ![w] = "rebind"]
    /\ op' = [op EXCEPT ![w] = "bySubject"]
    /\ user' = [user EXCEPT ![w] = u]
    /\ request' = [request EXCEPT ![w] = <<>>]
    /\ spaces' = [spaces EXCEPT ![w] = <<>>]
    /\ listed' = [listed EXCEPT ![w] = {b \in Visible(client) : IsBoundServiceAccount(b, u)}]
    /\ scope' = [scope EXCEPT ![w] = client]
    /\ gone' = [gone EXCEPT ![w] = {}]
    /\ ret' = [ret EXCEPT ![w] = "none"]
    /\ UNCHANGED <<bindings, client, current, faults>>

\* Faulty variant: the client is not re-bound.
RebindOmitted(w) ==
    /\ pc[w] = "rebind"
    /\ op[w] = "byName"
    /\ spaces[w] # <<>>
    /\ current' = [current EXCEPT ![w] =
           [space |-> Head(spaces[w]), name |-> user[w], subjects |-> {}]]
    /\ spaces' = [spaces EXCEPT ![w] = Tail(@)]
    /\ pc' = [pc EXCEPT ![w] = "delete"]
    /\ UNCHANGED <<bindings, client, op, user, request, listed, scope, gone, ret, faults, calls, alone>>

\* h.SetRoleBindingClient(namespace) in the loop of DeleteRoleBindings.
RebindToSpace(w) ==
    /\ pc[w] = "rebind"
    /\ op[w] = "byName"
    /\ spaces[w] # <<>>
    /\ client' = Head(spaces[w])
    /\ current' = [current EXCEPT ![w] =
           [space |-> Head(spaces[w]), name |-> user[w], subjects |-> {}]]
    /\ spaces' = [spaces EXCEPT ![w] = Tail(@)]
    /\ pc' = [pc EXCEPT ![w] = "delete"]
    /\ UNCHANGED <<bindings, op, user, request, listed, scope, gone, ret, faults, calls, alone>>

\* h.SetRoleBindingClient(roleBinding.Namespace) in the loop of the other.
RebindToBinding(w, b) ==
    /\ pc[w] = "rebind"
    /\ b \in listed[w]
    /\ client' = b.space
    /\ current' = [current EXCEPT ![w] = b]
    /\ listed' = [listed EXCEPT ![w] = @ \ {b}]
    /\ pc' = [pc EXCEPT ![w] = "delete"]
    /\ UNCHANGED <<bindings, op, user, request, spaces, scope, gone, ret, faults, calls, alone>>

\* The binding a Delete of that name hits: the client is read again, and may
\* have been re-bound by another goroutine.
Hit(w) == {b \in bindings : b.space = client /\ b.name = current[w].name}

\* Faulty variant: every namespace is hit.
DeleteAll(w) ==
    LET hit == {b \in bindings : b.name = current[w].name} IN
    /\ pc[w] = "delete"
    /\ \/ /\ hit # {}
          /\ bindings' = bindings \ hit
          /\ gone' = [gone EXCEPT ![w] = @ \union hit]
          /\ pc' = [pc EXCEPT ![w] = "rebind"]
          /\ UNCHANGED ret
       \/ hit = {} /\ Return(w, "error") /\ UNCHANGED <<bindings, gone>>
    /\ UNCHANGED <<client, op, user, request, spaces, listed, current, scope, faults, calls, alone>>

\* Faulty variant: a missing binding is not an error.
DeleteIgnoringNotFound(w) ==
    /\ pc[w] = "delete"
    /\ bindings' = bindings \ Hit(w)
    /\ gone' = [gone EXCEPT ![w] = @ \union Hit(w)]
    /\ pc' = [pc EXCEPT ![w] = "rebind"]
    /\ UNCHANGED <<client, op, user, request, spaces, listed, current, scope, ret, faults, calls, alone>>

\* h.RoleBindingClient.Delete: a binding that is not there is an error, and an
\* error ends the call.
Delete(w) ==
    /\ pc[w] = "delete"
    /\ \/ /\ Hit(w) # {}
          /\ bindings' = bindings \ Hit(w)
          /\ gone' = [gone EXCEPT ![w] = @ \union Hit(w)]
          /\ pc' = [pc EXCEPT ![w] = "rebind"]
          /\ UNCHANGED ret
       \/ Hit(w) = {} /\ Return(w, "error") /\ UNCHANGED <<bindings, gone>>
    /\ UNCHANGED <<client, op, user, request, spaces, listed, current, scope, faults, calls, alone>>

\* A List or Delete fails; a Delete may have taken effect.
RequestFails(w) ==
    /\ pc[w] = "delete"
    /\ faults < MaxFaults
    /\ faults' = faults + 1
    /\ bindings' \in {bindings, bindings \ Hit(w)}
    /\ Return(w, "error")
    /\ UNCHANGED <<client, op, user, request, spaces, listed, current, scope, gone, calls, alone>>

ListFails(w, u) ==
    /\ pc[w] = "idle"
    /\ calls < MaxCalls
    /\ calls' = calls + 1
    /\ Enter(w)
    /\ faults < MaxFaults
    /\ faults' = faults + 1
    /\ op' = [op EXCEPT ![w] = "bySubject"]
    /\ user' = [user EXCEPT ![w] = u]
    /\ gone' = [gone EXCEPT ![w] = {}]
    /\ Return(w, "error")
    /\ UNCHANGED <<bindings, client, request, spaces, listed, current, scope>>

LoopEnd(w) ==
    /\ pc[w] = "rebind"
    /\ spaces[w] = <<>>
    /\ listed[w] = {}
    /\ Return(w, "ok")
    /\ UNCHANGED <<bindings, client, op, user, request, spaces, listed, current, scope, gone, faults, calls, alone>>

Next == \E w \in Workers :
    \/ \E s \in Spaces \union {AllSpaces} : SetRoleBindingClient(w, s)
    \/ \E b \in Bindings : CreateRoleBinding(w, b)
    \/ \E u \in Users :
        \/ \E r \in Requests : DeleteRoleBindings(w, u, r)
        \/ DeleteRoleBindingsIfTheServiceAccountIsIncluded(w, u)
        \/ ListFails(w, u)
    \/ RebindToSpace(w)
    \/ \E b \in listed[w] : RebindToBinding(w, b)
    \/ Delete(w)
    \/ RequestFails(w)
    \/ LoopEnd(w)

Spec == Init /\ [][Next]_vars

-----------------------------------------------------------------------------

\* The client is always bound to a namespace or to all of them, and every
\* worker's loop is over bindings that were there and namespaces it was given.
TypeOK ==
    /\ bindings \subseteq Bindings
    /\ client \in Spaces \union {AllSpaces}
    /\ pc \in [Workers -> {"idle", "rebind", "delete"}]
    /\ op \in [Workers -> Ops]
    /\ user \in [Workers -> Users \union {"none"}]
    /\ request \in [Workers -> Requests \union {<<>>}]
    /\ spaces \in [Workers -> Seq(Spaces)]
    /\ listed \in [Workers -> SUBSET Bindings]
    /\ gone \in [Workers -> SUBSET Bindings]
    /\ current \in [Workers -> Bindings \union
           [space : Spaces \union {AllSpaces}, name : Users \union {"none"}, subjects : {{}}]]
    /\ scope \in [Workers -> Spaces \union {AllSpaces}]
    /\ ret \in [Workers -> {"none", "ok", "error"}]
    /\ alone \in [Workers -> {"yes", "no"}]
    /\ faults \in Nat
    /\ calls \in Nat

\* A binding that this call was to delete.
Meant(w, b) ==
    \/ op[w] = "byName" /\ b.name = user[w] /\ b.space \in ToSet(request[w])
    \/ op[w] = "bySubject" /\ user[w] \in b.subjects

\* A goroutine that has the helper to itself deletes only what it was asked to,
\* although the client points elsewhere before, between and after its calls.
\* Goroutines that share the helper re-bind its client under each other's feet:
\* a Delete can land in the other one's namespace; what it hits there still
\* bears a name the call was after.
DeletesOnlyMeant ==
    \A w \in Workers : \A b \in gone[w] :
        /\ alone[w] = "yes" => Meant(w, b)
        /\ op[w] = "byName" => b.name = user[w]
        /\ op[w] = "bySubject" =>
               \E a \in Bindings : user[w] \in a.subjects /\ a.name = b.name

\* A call without error leaves nothing behind of what it was to delete; by
\* subject, as far as the List reached: only the namespace a previous call left
\* the client bound to, unless the caller bound it anew.
OkMeansGone ==
    \A w \in Workers : alone[w] = "yes" /\ ret[w] = "ok" =>
        \A b \in bindings :
            ~(Meant(w, b) /\ (op[w] = "bySubject" => scope[w] \in {AllSpaces, b.space}))

\* DeleteRoleBindings works through its namespaces in order and stops at the
\* first one without the binding: what it has deleted is a prefix of the list.
\* A second attempt after a partial failure therefore stops where the first
\* one began and never reaches the rest.
DeletesAPrefix ==
    \A w \in Workers : alone[w] = "yes" /\ op[w] = "byName" =>
        \E n \in 0..Len(request[w]) :
            {b.space : b \in gone[w]} = ToSet(SubSeq(request[w], 1, n))
-----------------------------------------------------------------------------

\* How many namespaces of its list a DeleteRoleBindings has dealt with.
Done(w) == Len(request[w]) - Len(spaces[w]) - (IF pc[w] = "delete" THEN 1 ELSE 0)

Handled(w) == {request[w][i] : i \in 1..Done(w)}
=============================================================================
