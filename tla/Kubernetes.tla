----------------------------- MODULE Kubernetes -----------------------------
(***************************************************************************)
(* The operations of pkg/kubernetes that work on different objects of a    *)
(* cluster: the retrying look-ups, the role bindings, the default storage  *)
(* class, the object clients with ApplyDynamicResource, and the lease of   *)
(* RunLeaseCron.  A behaviour is about one of them, its topic; the others  *)
(* stand still.                                                            *)
(***************************************************************************)
EXTENDS Naturals, Sequences

CONSTANTS
    Topics,                                             \* bound: what behaviours are about
    Retry, PortTables, TargetPorts, MaxChanges,         \* KubeRetry
    Workers, Spaces, AllSpaces, Users, Bindings,        \* RoleBindings
    Requests, MaxCalls,
    Admins, Classes, Late, MaxSwitches,                 \* StorageClassDefault
    Callers, Places, Manifests, MaxWrites, MaxLapses,   \* KubeObjects
    MaxFaults,                                          \* RoleBindings, StorageClassDefault
    Replicas, Nobody, MaxLost, MaxStops                 \* LeaseCron

ASSUME TopicsAssumption == Topics \subseteq {"lookups", "roles", "storage", "objects", "lease"}

ASSUME PortsAssumption ==
    /\ TargetPorts \subseteq Nat
    /\ \A t \in PortTables : t \subseteq [target : Nat, node : Nat \ {0}]
ASSUME BindingsAssumption ==
    /\ AllSpaces \notin Spaces
    /\ \A b \in Bindings : b.space \in Spaces /\ b.subjects \subseteq Users
    /\ \A a, b \in Bindings : a.space = b.space /\ a.name = b.name => a = b
ASSUME RequestsAssumption == Requests \subseteq Seq(Spaces)
ASSUME LateAssumption == Late \subseteq Classes
ASSUME ManifestsAssumption ==
    Manifests \subseteq Seq({"first", "second", "custom", "clusterwide", "empty", "malformed"})
ASSUME BoundAssumption ==
    {Retry, MaxChanges, MaxCalls, MaxSwitches, MaxWrites, MaxLapses, MaxFaults} \subseteq Nat
ASSUME LeaseAssumption == Nobody \notin Replicas /\ MaxLost \in Nat /\ MaxStops \in Nat

VARIABLES
    topic,
    phase, object, ports, changes, lookup, asked, at, trial, value, seen, err, port,
    bindings, client, pc, op, user, request, spaces, listed, current, scope, gone, alone,
    ret, faults, calls,
    annotation, step, target, todo, failures, switches, disturbed,
    kind, bound, objects, revision, copy, answer, dead, owed, manifest, doc, applied, quiet,
    defined, mapped, lapses,
    holder, set, stage, unseen, age, sent, made, strays, delay, spawned, schedules, deposed, lost, stops

Lookups == INSTANCE KubeRetry WITH op <- lookup, target <- asked, pc <- at
Roles == INSTANCE RoleBindings
Storage == INSTANCE StorageClassDefault WITH pc <- step, faults <- failures
Objects == INSTANCE KubeObjects
Cron == INSTANCE LeaseCron

lookupVars == <<phase, object, ports, changes, lookup, asked, at, trial, value, seen, err, port>>
roleVars == <<bindings, client, pc, op, user, request, spaces, listed, current, scope, gone,
              alone, ret, faults, calls>>
storageVars == <<annotation, step, target, todo, failures, switches, disturbed>>
objectVars == <<kind, bound, objects, revision, copy, answer, dead, owed, manifest, doc,
                applied, quiet, defined, mapped, lapses>>
leaseVars == <<holder, set, stage, unseen, age, sent, made, strays, delay, spawned, schedules,
               deposed, lost, stops>>
vars == <<topic, lookupVars, roleVars, storageVars, objectVars, leaseVars>>

Init ==
    /\ topic \in Topics
    /\ Lookups!Init /\ Roles!Init /\ Storage!Init /\ Objects!Init /\ Cron!Init
    /\ topic # "lookups" => phase = "Active" /\ object = "present" /\ ports = {}
    /\ topic # "storage" => \A c \in Classes \ Late : annotation[c] = "none"
    /\ topic # "objects" => kind = "Pod"

LookupStep ==
    /\ topic = "lookups" /\ Lookups!Next
    /\ UNCHANGED <<topic, roleVars, storageVars, objectVars, leaseVars>>
RoleStep ==
    /\ topic = "roles" /\ Roles!Next
    /\ UNCHANGED <<topic, lookupVars, storageVars, objectVars, leaseVars>>
StorageStep ==
    /\ topic = "storage" /\ Storage!Next
    /\ UNCHANGED <<topic, lookupVars, roleVars, objectVars, leaseVars>>
ObjectStep ==
    /\ topic = "objects" /\ Objects!Next
    /\ UNCHANGED <<topic, lookupVars, roleVars, storageVars, leaseVars>>
CronStep ==
    /\ topic = "lease" /\ Cron!Next
    /\ UNCHANGED <<topic, lookupVars, roleVars, storageVars, objectVars>>

Next == LookupStep \/ RoleStep \/ StorageStep \/ ObjectStep \/ CronStep

Spec == Init /\ [][Next]_vars

\* Calls run on; an administrator whose switch failed tries again.
FairSpec ==
    /\ Spec
    /\ \A a \in Admins :
        /\ WF_storageVars(topic = "storage" /\ Storage!Step(a))
        /\ WF_storageVars(topic = "storage" /\ Storage!TryAgain(a))

\* Time passes; programs run on; a leader gives up when it is due.  A request is
\* sent and answered, or fails: a candidate's has no deadline, but the transport of
\* client-go closes a connection that no longer answers its pings.
LeaseSpec ==
    /\ Spec
    /\ WF_leaseVars(topic = "lease" /\ Cron!Tick)
    /\ \A r \in Replicas :
        /\ WF_leaseVars(topic = "lease" /\ Cron!Program(r))
        /\ WF_leaseVars(topic = "lease" /\ Cron!Observe(r))
        /\ WF_leaseVars(topic = "lease" /\ Cron!Request(r))
        /\ WF_leaseVars(topic = "lease" /\ (Cron!Land(r) \/ Cron!RequestFails(r)))
        /\ WF_leaseVars(topic = "lease" /\ (Cron!Answered(r) \/ Cron!RequestFails(r)))
        /\ WF_leaseVars(topic = "lease" /\ Cron!RenewFails(r))
        /\ WF_leaseVars(topic = "lease" /\ Cron!OnStartedLeading(r))

-----------------------------------------------------------------------------

\* A look-up yields nothing only if every trial failed: see KubeRetry.
NothingMeansAllTrialsFailed == Lookups!NothingMeansAllTrialsFailed

\* An undisturbed call deletes only what it was asked to: see RoleBindings.
DeletesOnlyMeant == Roles!DeletesOnlyMeant

\* A call without error leaves nothing it was to delete: see RoleBindings.
OkMeansGone == Roles!OkMeansGone

\* DeleteRoleBindings stops where it fails: see RoleBindings.
DeletesAPrefix == Roles!DeletesAPrefix

\* A switch of the default storage class leaves exactly one default if nobody
\* interferes, and concurrent switches leave some: see StorageClassDefault.
SwitchesLeaveADefault == Storage!SwitchesLeaveADefault

\* Switches that are tried again settle: see StorageClassDefault.
RetriesSettle == Storage!RetriesSettle

\* Updates of stale copies are refused: see KubeObjects.
NoLostUpdate == Objects!NoLostUpdate

\* ApplyDynamicResource applies a prefix of its documents: see KubeObjects.
ManifestIsAPrefix == Objects!ManifestIsAPrefix

\* Two replicas lead only where an answer was slow: see LeaseCron.
OneLeader == Cron!OneLeader

\* A schedule beside the leader's outlived its term: see LeaseCron.
SecondScheduleIsAnOldOne == Cron!SecondScheduleIsAnOldOne

\* However replicas crash, the schedule is run again: see LeaseCron.
ScheduleResumes == topic = "lease" => Cron!ScheduleResumes
=============================================================================
