---------------------------- MODULE KubeObjects -----------------------------
(***************************************************************************)
(* The object clients of pkg/kubernetes, and ApplyDynamicResource.  The    *)
(* helper has one client per kind, nil at first and bound to one namespace *)
(* at a time; every goroutine that uses the helper uses that client.  The  *)
(* clients of two kinds have nothing in common, so a behaviour is about    *)
(* one kind, and about one object name in each namespace.                  *)
(***************************************************************************)
EXTENDS Naturals, Sequences

CONSTANTS
    Callers,    \* goroutines that share the helper
    Places,     \* namespaces
    Manifests,  \* lists of documents given to ApplyDynamicResource
    MaxWrites,  \* bound: revisions of the cluster
    MaxLapses   \* bound: answers that are lost, requests that fail

\* Kinds whose objects the helper does not create: they are there already.
Found == {"Pod", "Deployment", "Node", "Role"}
Namespaced == {"Pod", "Deployment", "Role", "Event", "Job", "ConfigMap", "Svc",
               "ServiceAccount", "Secret", "ResourceQuota"}
ClusterWide == {"Node", "Namespace", "StorageClass", "ClusterRole",
                "ClusterRoleBinding", "CustomResourceDefinition"}

Absent == [rev |-> 0, changes |-> {}, ending |-> FALSE]
NoCopy == [place |-> "none", rev |-> 0, changes |-> {}]

VARIABLES
    kind,       \* the kind at hand, or "Manifest"
    bound,      \* where the client of that kind points, or "nil"
    objects,    \* the object in each place
    revision,   \* of the cluster: every write makes a new one
    copy,       \* the object each goroutine read last
    answer,     \* of its latest operation: "none", "nil", "error"
    dead,       \* has a goroutine panicked, and the process died?
    owed,       \* history: the acknowledged changes of each object
    manifest,   \* each goroutine: the documents given
    doc,        \* the document it is at, or where its call stopped
    applied,    \* what its latest call has applied, as long as nobody else did
    quiet,      \* history: goroutines since whose call only they have applied
    defined,    \* is the kind of the document "custom" defined in the cluster?
    mapped,     \* the discovery mapper: "empty", or its answer for that kind
    lapses

store == <<bound, objects, revision, copy, owed>>
apply == <<manifest, doc, applied, quiet, defined, mapped>>
vars == <<kind, store, answer, dead, apply, lapses>>

Where == IF kind \in ClusterWide THEN {"cluster"} ELSE Places

\* Documents: three that can be applied, "custom" if its kind is known; one of
\* a kind without namespaces; an empty one; one that is not YAML.
Appliable == {"first", "second", "custom"}

Init ==
    /\ kind \in Namespaced \union ClusterWide \union {"Manifest"}
    /\ bound = "nil"
    /\ objects = [p \in Where |->
           IF kind \in Found THEN [Absent EXCEPT !.rev = 1] ELSE Absent]
    /\ revision = 1
    /\ copy = [w \in Callers |-> NoCopy]
    /\ answer = [w \in Callers |-> "none"]
    /\ dead = FALSE
    /\ owed = [p \in Where |-> {}]
    /\ manifest = [w \in Callers |-> <<>>]
    /\ doc = [w \in Callers |-> 0]
    /\ applied = [w \in Callers |-> {}]
    /\ quiet = {}
    /\ defined = FALSE
    /\ mapped = "empty"
    /\ lapses = 0

-----------------------------------------------------------------------------

On(k) == kind = k /\ ~dead

\* Set...Client: whoever calls it binds the client for everybody.
SetClient(p) ==
    /\ bound' = p
    /\ UNCHANGED <<kind, objects, revision, copy, answer, dead, owed, apply, lapses>>

Answer(w, r) == answer' = [answer EXCEPT ![w] = r]

Lapse == lapses < MaxLapses /\ lapses' = lapses + 1

\* An operation through a nil client ends the process; any request may fail.
Refused(w, condition) ==
    /\ \/ bound = "nil" /\ dead' = TRUE /\ UNCHANGED <<answer, lapses>>
       \/ bound # "nil" /\ condition /\ Answer(w, "error") /\ UNCHANGED <<dead, lapses>>
       \/ bound # "nil" /\ Lapse /\ Answer(w, "error") /\ UNCHANGED dead
    /\ UNCHANGED <<kind, store, apply>>

\* The server makes object o of it, and owes the changes in due from then on;
\* if the answer is lost, only those it owed before.
Write(w, o, old, due) ==
    /\ revision < MaxWrites
    /\ revision' = revision + 1
    /\ objects' = [objects EXCEPT ![bound] = o]
    /\ \/ /\ owed' = [owed EXCEPT ![bound] = due]
          /\ Answer(w, "nil")
          /\ UNCHANGED lapses
       \/ /\ Lapse
          /\ owed' = [owed EXCEPT ![bound] = old]
          /\ Answer(w, "error")
    /\ UNCHANGED <<kind, bound, copy, dead, apply>>

This == revision + 1
Exists == objects[bound].rev > 0

Create(w) ==
    \/ /\ bound # "nil" /\ ~Exists
       /\ Write(w, [rev |-> This, changes |-> {This}, ending |-> FALSE], {}, {This})
    \/ Refused(w, bound # "nil" /\ Exists)

\* The caller keeps what it was given, its revision included.
Given(w) ==
    /\ bound # "nil"
    /\ copy' = [copy EXCEPT ![w] =
           IF Exists THEN [place |-> bound, rev |-> objects[bound].rev,
                           changes |-> objects[bound].changes]
           ELSE NoCopy]
    /\ Answer(w, "nil")
    /\ UNCHANGED <<kind, bound, objects, revision, dead, owed, apply, lapses>>

Get(w) == (bound # "nil" /\ Exists /\ Given(w)) \/ Refused(w, bound # "nil" /\ ~Exists)
List(w) == Given(w) \/ Refused(w, FALSE)

\* The server accepts a copy only for the object and the revision it is of.
Current(w) == copy[w].place = bound /\ copy[w].rev = objects[bound].rev

\* Faulty variant: the copy is sent without its revision and its namespace.
UpdateStripped(w) ==
    \/ /\ bound # "nil" /\ Exists /\ copy[w] # NoCopy
       /\ Write(w, [objects[bound] EXCEPT !.rev = This, !.changes = copy[w].changes \union {This}],
                owed[bound], owed[bound] \union {This})
    \/ Refused(w, bound # "nil" /\ (~Exists \/ ~Current(w)))

\* Update, with an object that was read before and changed.
Update(w) ==
    \/ /\ bound # "nil" /\ Exists /\ Current(w)
       /\ Write(w, [objects[bound] EXCEPT !.rev = This, !.changes = copy[w].changes \union {This}],
                owed[bound], owed[bound] \union {This})
    \/ Refused(w, bound # "nil" /\ (~Exists \/ ~Current(w)))

\* Patch: the server merges the change into the object as it is.
Patch(w) ==
    \/ /\ bound # "nil" /\ Exists
       /\ Write(w, [objects[bound] EXCEPT !.rev = This, !.changes = @ \union {This}],
                owed[bound], owed[bound] \union {This})
    \/ Refused(w, bound # "nil" /\ ~Exists)

Delete(w) ==
    \/ /\ bound # "nil" /\ Exists
       /\ Write(w, Absent, {}, {})
    \/ Refused(w, bound # "nil" /\ ~Exists)

-----------------------------------------------------------------------------

\* The client of events has the namespace of the options, which stays.
SetEventClient(p) == On("Event") /\ bound \in {"nil", p} /\ SetClient(p)
SetPodClient(p) == On("Pod") /\ SetClient(p)
SetJobClient(p) == On("Job") /\ SetClient(p)
SetConfigMapClient(p) == On("ConfigMap") /\ SetClient(p)
SetDeploymentClient(p) == On("Deployment") /\ SetClient(p)
SetSvcClient(p) == On("Svc") /\ SetClient(p)
SetServiceAccountClient(p) == On("ServiceAccount") /\ SetClient(p)
SetSecretClient(p) == On("Secret") /\ SetClient(p)
SetRoleClient(p) == On("Role") /\ SetClient(p)
SetResourceQuotaClient(p) == On("ResourceQuota") /\ SetClient(p)
SetNamespaceClient == On("Namespace") /\ SetClient("cluster")
SetNodeClient == On("Node") /\ SetClient("cluster")
SetStorageClassClient == On("StorageClass") /\ SetClient("cluster")
SetClusterRoleClient == On("ClusterRole") /\ SetClient("cluster")
SetClusterRoleBindingClient == On("ClusterRoleBinding") /\ SetClient("cluster")
SetCustomResourceDefinitionClient == On("CustomResourceDefinition") /\ SetClient("cluster")

ListPod(w) == On("Pod") /\ List(w)

CreateJob(w) == On("Job") /\ Create(w)
GetJob(w) == On("Job") /\ Get(w)
ListJobs(w) == On("Job") /\ List(w)
DeleteJob(w) == On("Job") /\ Delete(w)

CreateConfigMap(w) == On("ConfigMap") /\ Create(w)
GetConfigMap(w) == On("ConfigMap") /\ Get(w)
UpdateConfigMap(w) == On("ConfigMap") /\ Update(w)
DeleteConfigMap(w) == On("ConfigMap") /\ Delete(w)

\* Deployments and nodes are read by look-ups that retry: see KubeRetry.
GetDeployment(w) == On("Deployment") /\ Get(w)
UpdateDeployment(w) == On("Deployment") /\ Update(w)
PatchDeployment(w) == On("Deployment") /\ Patch(w)

GetNode(w) == On("Node") /\ Get(w)
ListNodes(w) == On("Node") /\ List(w)
UpdateNode(w) == On("Node") /\ Update(w)

CreateSvc(w) == On("Svc") /\ Create(w)

GetServiceAccount(w) == On("ServiceAccount") /\ Get(w)
ListServiceAccount(w) == On("ServiceAccount") /\ List(w)
CreateServiceAccount(w) == On("ServiceAccount") /\ Create(w)
DeleteServiceAccount(w) == On("ServiceAccount") /\ Delete(w)

GetTokenSecret(w) == On("Secret") /\ Get(w)
GetSecret(w) == On("Secret") /\ Get(w)
CreateTokenSecret(w) == On("Secret") /\ Create(w)
CreateSecret(w) == On("Secret") /\ Create(w)
DeleteSecret(w) == On("Secret") /\ Delete(w)

GetRole(w) == On("Role") /\ Get(w)

ListResourceQuota(w) == On("ResourceQuota") /\ List(w)
CreateResourceQuota(w) == On("ResourceQuota") /\ Create(w)
UpdateResourceQuota(w) == On("ResourceQuota") /\ Patch(w)

GetClusterRole(w) == On("ClusterRole") /\ Get(w)
CreateClusterRole(w) == On("ClusterRole") /\ Create(w)
PatchClusterRole(w) == On("ClusterRole") /\ Patch(w)

ListClusterRoleBinding(w) == On("ClusterRoleBinding") /\ List(w)
CreateClusterRoleBinding(w) == On("ClusterRoleBinding") /\ Create(w)

ListCustomResourceDefinition(w) == On("CustomResourceDefinition") /\ List(w)
\* "Apply" is a Create: a definition that is there is an error.
ApplyCustomResourceDefinitions(w) == On("CustomResourceDefinition") /\ Create(w)

GetStorageClass(w) == On("StorageClass") /\ Get(w)
CreateStorageClass(w) == On("StorageClass") /\ Create(w)

GetNamespace(w) == On("Namespace") /\ Get(w)
ListNamespace(w) == On("Namespace") /\ List(w)
CreateNamespace(w) == On("Namespace") /\ Create(w)
PatchNamespace(w) == On("Namespace") /\ Patch(w)

\* The server only marks the namespace; it is there until all in it is gone.
DeleteNamespace(w) ==
    /\ On("Namespace")
    /\ \/ /\ bound # "nil" /\ Exists
          /\ Write(w, [objects[bound] EXCEPT !.rev = This, !.ending = TRUE],
                   owed[bound], owed[bound])
       \/ Refused(w, bound # "nil" /\ ~Exists)

NamespaceController(p) ==
    /\ On("Namespace")
    /\ objects[p].ending
    /\ revision < MaxWrites
    /\ revision' = revision + 1
    /\ objects' = [objects EXCEPT ![p] = Absent]
    /\ owed' = [owed EXCEPT ![p] = {}]
    /\ UNCHANGED <<kind, bound, copy, answer, dead, apply, lapses>>
-----------------------------------------------------------------------------

Rest == UNCHANGED <<kind, store>>

\* A call of ApplyDynamicResource is under way.
Applying(w) == On("Manifest") /\ doc[w] > 0 /\ answer[w] = "none"

ApplyDynamicResource(w, m) ==
    /\ On("Manifest")
    /\ ~Applying(w)
    /\ manifest' = [manifest EXCEPT ![w] = m]
    /\ doc' = [doc EXCEPT ![w] = 1]
    /\ applied' = [applied EXCEPT ![w] = {}]
    /\ quiet' = quiet \union {w}
    /\ Answer(w, "none")
    /\ Rest /\ UNCHANGED <<defined, mapped, dead, lapses>>

At(w, d) == Applying(w) /\ doc[w] \in 1..Len(manifest[w]) /\ manifest[w][doc[w]] = d

\* The mapper asks the API server once, and goes by that answer ever after.
Mapping == IF mapped # "empty" THEN mapped ELSE IF defined THEN "known" ELSE "unknown"

\* The server has document d as w applied it.
Applied(w, d) ==
    /\ applied' = [v \in Callers |-> IF v = w THEN applied[w] \union {d} ELSE applied[v] \ {d}]
    /\ quiet' = quiet \intersect {w}
    /\ mapped' = Mapping

\* Faulty variant: a document that fails is passed over.
ApplyOnError(w, d) ==
    /\ At(w, d)
    /\ doc' = [doc EXCEPT ![w] = @ + 1]
    /\ \/ Applied(w, d) /\ UNCHANGED lapses
       \/ Lapse /\ mapped' = Mapping /\ UNCHANGED <<applied, quiet>>
    /\ Rest /\ UNCHANGED <<manifest, answer, defined, dead>>

\* One round of the loop; a request that fails, for the mapping or for the
\* object, may have been carried out.
ApplyDocument(w, d) ==
    /\ At(w, d)
    /\ d = "custom" => Mapping = "known"
    /\ \/ /\ doc' = [doc EXCEPT ![w] = @ + 1]
          /\ Applied(w, d)
          /\ UNCHANGED <<answer, lapses>>
       \/ /\ Lapse
          /\ \/ Applied(w, d)
             \/ mapped' \in {mapped, Mapping} /\ UNCHANGED <<applied, quiet>>
          /\ Answer(w, "error")
          /\ UNCHANGED doc
    /\ Rest /\ UNCHANGED <<manifest, defined, dead>>

\* RESTMapping knows no such kind, or, for a kind without namespaces, the
\* server no such path below "kube-system".  An empty document leaves the map
\* empty, not nil, and has no kind either.
RejectDocument(w) ==
    /\ \/ At(w, "custom") /\ Mapping = "unknown"
       \/ At(w, "clusterwide")
       \/ At(w, "empty")
    /\ mapped' = Mapping
    /\ Answer(w, "error")
    /\ Rest /\ UNCHANGED <<manifest, doc, applied, quiet, defined, dead, lapses>>

DecodePanics(w) ==
    /\ At(w, "malformed")
    /\ dead' = TRUE
    /\ Rest /\ UNCHANGED <<answer, apply, lapses>>

EndOfManifest(w) ==
    /\ Applying(w)
    /\ doc[w] > Len(manifest[w])
    /\ Answer(w, "nil")
    /\ Rest /\ UNCHANGED <<apply, dead, lapses>>

\* Somebody adds the definition of the custom kind.
DefineKind ==
    /\ On("Manifest")
    /\ ~defined
    /\ defined' = TRUE
    /\ Rest /\ UNCHANGED <<answer, dead, manifest, doc, applied, quiet, mapped, lapses>>

-----------------------------------------------------------------------------

SetClients ==
    \/ \E p \in Places :
        \/ SetEventClient(p) \/ SetPodClient(p) \/ SetJobClient(p)
        \/ SetConfigMapClient(p) \/ SetDeploymentClient(p) \/ SetSvcClient(p)
        \/ SetServiceAccountClient(p) \/ SetSecretClient(p) \/ SetRoleClient(p)
        \/ SetResourceQuotaClient(p)
    \/ SetNamespaceClient \/ SetNodeClient \/ SetStorageClassClient
    \/ SetClusterRoleClient \/ SetClusterRoleBindingClient
    \/ SetCustomResourceDefinitionClient

ObjectRequests == \E w \in Callers :
    \/ ListPod(w) \/ CreateSvc(w) \/ GetRole(w)
    \/ CreateJob(w) \/ GetJob(w) \/ ListJobs(w) \/ DeleteJob(w)
    \/ CreateConfigMap(w) \/ GetConfigMap(w) \/ UpdateConfigMap(w) \/ DeleteConfigMap(w)
    \/ GetDeployment(w) \/ UpdateDeployment(w) \/ PatchDeployment(w)
    \/ GetNode(w) \/ ListNodes(w) \/ UpdateNode(w)
    \/ GetServiceAccount(w) \/ ListServiceAccount(w)
    \/ CreateServiceAccount(w) \/ DeleteServiceAccount(w)
    \/ GetTokenSecret(w) \/ GetSecret(w) \/ CreateTokenSecret(w)
    \/ CreateSecret(w) \/ DeleteSecret(w)
    \/ ListResourceQuota(w) \/ CreateResourceQuota(w) \/ UpdateResourceQuota(w)
    \/ GetClusterRole(w) \/ CreateClusterRole(w) \/ PatchClusterRole(w)
    \/ ListClusterRoleBinding(w) \/ CreateClusterRoleBinding(w)
    \/ ListCustomResourceDefinition(w) \/ ApplyCustomResourceDefinitions(w)
    \/ GetStorageClass(w) \/ CreateStorageClass(w)
    \/ GetNamespace(w) \/ ListNamespace(w) \/ CreateNamespace(w)
    \/ PatchNamespace(w) \/ DeleteNamespace(w)

Applications ==
    \/ \E w \in Callers :
        \/ \E m \in Manifests : ApplyDynamicResource(w, m)
        \/ \E d \in Appliable : ApplyDocument(w, d)
        \/ RejectDocument(w) \/ DecodePanics(w) \/ EndOfManifest(w)
    \/ DefineKind

Next ==
    \/ SetClients
    \/ ObjectRequests
    \/ \E p \in Where : NamespaceController(p)
    \/ Applications

Spec == Init /\ [][Next]_vars

-----------------------------------------------------------------------------

\* Revisions grow only: no object, and no copy of one, is newer than the cluster.
TypeOK ==
    /\ kind \in Namespaced \union ClusterWide \union {"Manifest"}
    /\ bound \in Where \union {"nil"}
    /\ revision \in Nat \ {0}
    /\ objects \in [Where ->
           [rev : 0..revision, changes : SUBSET (1..revision), ending : BOOLEAN]]
    /\ copy \in [Callers -> [place : Where \union {"none"}, rev : 0..revision,
                             changes : SUBSET (1..revision)]]
    /\ owed \in [Where -> SUBSET (1..revision)]
    /\ answer \in [Callers -> {"none", "nil", "error"}]
    /\ manifest \in [Callers -> Manifests \union {<<>>}]
    /\ doc \in [Callers -> Nat]
    /\ applied \in [Callers -> SUBSET Appliable]
    /\ quiet \subseteq Callers
    /\ mapped \in {"empty", "known", "unknown"}

\* No acknowledged change is lost while its object exists, and none turns up in
\* another object: an Update of a copy that somebody else's Update, Patch or
\* Delete has overtaken is refused, and so is one whose client another goroutine
\* has bound to another namespace since it was read.
NoLostUpdate ==
    /\ \A p \in Where : owed[p] \subseteq objects[p].changes
    /\ \A p, q \in Where : p # q => objects[p].changes \intersect objects[q].changes = {}

\* The first n documents of manifest m.
Documents(m, n) == {m[i] : i \in 1..Len(m) \intersect 1..n}

\* Documents that the helper cannot apply.
Unfit(d) == d \notin Appliable \/ (d = "custom" /\ mapped = "unknown")

\* ApplyDynamicResource works from the front.  A call that has returned has applied
\* nothing behind the document at which it stopped, and everything before it unless
\* others have applied since; it returned nil exactly if it stopped behind the last.
\* Where it stopped with an error and no request failed, there is a document that
\* cannot be applied; none comes before, and a custom kind that was unknown when
\* the helper applied for the first time stays so: no later call gets past it.
ManifestIsAPrefix ==
    \A w \in Callers : doc[w] > 0 /\ answer[w] # "none" =>
        /\ applied[w] \subseteq Documents(manifest[w], doc[w])
        /\ w \in quiet => Documents(manifest[w], doc[w] - 1) \subseteq applied[w]
        /\ answer[w] = "nil" <=> doc[w] > Len(manifest[w])
        /\ \A d \in Documents(manifest[w], doc[w] - 1) : ~Unfit(d)
        /\ answer[w] = "error" /\ lapses = 0 => Unfit(manifest[w][doc[w]])
-----------------------------------------------------------------------------


\* A copy that is of the current revision of its object has the object's changes.
CopyInv ==
    \A w \in Callers : \A p \in Where :
        copy[w].place = p /\ copy[w].rev > 0 /\ copy[w].rev = objects[p].rev =>
            copy[w].changes = objects[p].changes

\* Where the call of w stands, or where it stopped.
Stands(w) ==
    /\ doc[w] \in 1..Len(manifest[w]) + 1
    /\ applied[w] \subseteq Documents(manifest[w], doc[w])
    /\ w \in quiet => Documents(manifest[w], doc[w] - 1) \subseteq applied[w]
    /\ answer[w] = "nil" => doc[w] > Len(manifest[w])
    /\ answer[w] = "error" => doc[w] <= Len(manifest[w])
    /\ \A d \in Documents(manifest[w], doc[w] - 1) : d \in Appliable /\ (d = "custom" => mapped = "known")
    /\ answer[w] = "error" /\ lapses = 0 => Unfit(manifest[w][doc[w]])

\* Every call of ApplyDynamicResource is accounted for.
ManifestInv ==
    /\ lapses \in Nat
    /\ kind # "Manifest" => doc = [w \in Callers |-> 0]
    /\ \A w \in Callers : doc[w] > 0 => Stands(w)
=============================================================================
