-------------------------- MODULE KubernetesProofs --------------------------
(***************************************************************************)
(* The operations of pkg/kubernetes, for every number of trials, callers,  *)
(* administrators, namespaces, bindings, classes and manifests, and with   *)
(* any number of faults.  One section per component: its own steps keep    *)
(* its invariant, and the steps of the others leave its variables alone.   *)
(***************************************************************************)
EXTENDS Kubernetes, TLAPS

-----------------------------------------------------------------------------
(* The retrying look-ups. *)

LookupInv ==
    Lookups!TypeOK /\ Lookups!RetryInv /\ NothingMeansAllTrialsFailed

\* A trial, and the end of the trials, of any of the look-ups.
LEMMA LookupTrial ==
  ASSUME LookupInv,
         Lookups!TrialFails \/ Lookups!TrialSucceeds \/ Lookups!GiveUp
  PROVE  LookupInv'
  <1> USE BoundAssumption DEF LookupInv, Lookups!TypeOK, Lookups!RetryInv,
          NothingMeansAllTrialsFailed, Lookups!NothingMeansAllTrialsFailed,
          Lookups!Getters, Lookups!Wrappers, Lookups!cluster
  <1>1. CASE Lookups!TrialFails
      BY <1>1 DEF Lookups!TrialFails
  <1>2. CASE Lookups!TrialSucceeds
      BY <1>2 DEF Lookups!TrialSucceeds, Lookups!After
  <1>3. CASE Lookups!GiveUp
      BY <1>3 DEF Lookups!GiveUp, Lookups!After
  <1> QED
      BY <1>1, <1>2, <1>3

\* Every step of a look-up, and every change of the cluster, keeps the account
\* of its trials.
LEMMA LookupNext == LookupInv /\ Lookups!Next => LookupInv'
  <1> SUFFICES ASSUME LookupInv, Lookups!Next PROVE LookupInv'
      OBVIOUS
  <1>1. CASE Lookups!ListEvent \/ Lookups!GetDeployment \/ Lookups!GetNode \/ Lookups!GetSvc
      BY <1>1, LookupTrial
         DEF Lookups!ListEvent, Lookups!GetDeployment, Lookups!GetNode, Lookups!GetSvc
  <1> USE BoundAssumption DEF LookupInv, Lookups!TypeOK, Lookups!RetryInv,
          NothingMeansAllTrialsFailed, Lookups!NothingMeansAllTrialsFailed,
          Lookups!Getters, Lookups!Wrappers, Lookups!cluster
  <1>2. ASSUME NEW o \in Lookups!Getters \union {"IsNamespaceExist", "GetNodeIP"},
               Lookups!Call(o, 0)
        PROVE  LookupInv'
      BY <1>2 DEF Lookups!Call
  <1>3. ASSUME NEW t \in TargetPorts, Lookups!Call("GetSvcNodePortByTargetPort", t)
        PROVE  LookupInv'
      BY <1>3 DEF Lookups!Call
  <1>4. CASE Lookups!IsNamespaceExist
    <2>1. CASE Lookups!TrialFails
        BY <2>1, LookupTrial
    <2>2. CASE Lookups!NamespaceAnswer
        BY <1>4, <2>2 DEF Lookups!IsNamespaceExist, Lookups!NamespaceAnswer
    <2>3. CASE Lookups!NamespaceGiveUp
        BY <1>4, <2>3 DEF Lookups!IsNamespaceExist, Lookups!NamespaceGiveUp
    <2> QED
        BY <1>4, <2>1, <2>2, <2>3 DEF Lookups!IsNamespaceExist
  <1>5. CASE Lookups!GetNodeIP
      BY <1>5 DEF Lookups!GetNodeIP
  <1>6. CASE Lookups!GetSvcNodePortByTargetPort
    <2>1. \A p \in seen : p.node \in Nat
        BY PortsAssumption
    <2> QED
        BY <1>6, <2>1 DEF Lookups!GetSvcNodePortByTargetPort
  <1>7. CASE Lookups!Change
      BY <1>7 DEF Lookups!Change
  <1> QED
      BY <1>1, <1>2, <1>3, <1>4, <1>5, <1>6, <1>7 DEF Lookups!Next, Lookups!Step

\* A look-up returns nil, and a wrapper panics, exactly when all Retry + 1 trials
\* have failed, and no error ever tells.
THEOREM NothingOnlyAfterAllTrials == Spec => []NothingMeansAllTrialsFailed
  <1>1. Init => LookupInv
      BY BoundAssumption
         DEF Init, LookupInv, Lookups!Init, Lookups!TypeOK, Lookups!RetryInv,
             NothingMeansAllTrialsFailed, Lookups!NothingMeansAllTrialsFailed
  <1>2. LookupInv /\ [Next]_vars => LookupInv'
    <2>1. LookupInv /\ UNCHANGED lookupVars => LookupInv'
        BY DEF LookupInv, lookupVars, Lookups!TypeOK, Lookups!RetryInv,
               NothingMeansAllTrialsFailed, Lookups!NothingMeansAllTrialsFailed
    <2> QED
        BY <2>1, LookupNext
           DEF Next, vars, LookupStep, RoleStep, StorageStep, ObjectStep, CronStep
  <1>3. LookupInv => NothingMeansAllTrialsFailed
      BY DEF LookupInv
  <1> QED
      BY <1>1, <1>2, <1>3, PTL DEF Spec

-----------------------------------------------------------------------------
(* The default storage class. *)

StorageInv ==
    Storage!TypeOK /\ Storage!SwitchInv /\ SwitchesLeaveADefault

\* Every step of an administrator keeps what it knows of the defaults.
LEMMA StorageNext == StorageInv /\ Storage!Next => StorageInv'
  <1> SUFFICES ASSUME StorageInv, Storage!Next PROVE StorageInv'
      OBVIOUS
  <1> USE BoundAssumption DEF StorageInv, Storage!TypeOK, Storage!SwitchInv, SwitchesLeaveADefault,
          Storage!SwitchesLeaveADefault, Storage!Defaults, Storage!Annotations
  <1>1. ASSUME NEW a \in Admins, NEW c \in Classes, Storage!BeginSwitch(a, c) PROVE StorageInv'
      BY <1>1 DEF Storage!BeginSwitch
  <1>2. ASSUME NEW a \in Admins, Storage!TryAgain(a) PROVE StorageInv'
      BY <1>2 DEF Storage!TryAgain
  <1>3. ASSUME NEW a \in Admins, Storage!ListStorageClasses(a) PROVE StorageInv'
      BY <1>3 DEF Storage!ListStorageClasses, Storage!getDefaultStorageClasses
  <1>4. ASSUME NEW a \in Admins, NEW c \in Classes, Storage!PatchStorageClass(a, c)
        PROVE  StorageInv'
      BY <1>4 DEF Storage!PatchStorageClass, Storage!Disturb
  <1>5. ASSUME NEW a \in Admins, Storage!DisableCurrentDefaultStorageClasses(a) PROVE StorageInv'
      BY <1>5 DEF Storage!DisableCurrentDefaultStorageClasses
  <1>6. ASSUME NEW a \in Admins, Storage!SetDefaultStorageClass(a) PROVE StorageInv'
      BY <1>6 DEF Storage!SetDefaultStorageClass, Storage!Disturb
  <1>7. ASSUME NEW a \in Admins, Storage!RequestFails(a) PROVE StorageInv'
    <2>1. target[a] \in Classes /\ annotation[target[a]] # "absent"
        BY <1>7 DEF Storage!RequestFails
    <2> QED
        BY <1>7, <2>1 DEF Storage!RequestFails, Storage!Disturb
  <1>8. ASSUME NEW c \in Classes, NEW v \in {"none", "true"}, Storage!CreateStorageClass(c, v)
        PROVE  StorageInv'
      BY <1>8 DEF Storage!CreateStorageClass
  <1> QED
      BY <1>1, <1>2, <1>3, <1>4, <1>5, <1>6, <1>7, <1>8 DEF Storage!Next, Storage!Step

\* A switch that nobody disturbed leaves its target as the only default, and
\* concurrent ones leave some default when all of them are through.
THEOREM SwitchesAreSafe == Spec => []SwitchesLeaveADefault
  <1>1. Init => StorageInv
      BY BoundAssumption
         DEF Init, StorageInv, Storage!Init, Storage!TypeOK, Storage!SwitchInv,
             SwitchesLeaveADefault, Storage!SwitchesLeaveADefault, Storage!Annotations
  <1>2. StorageInv /\ [Next]_vars => StorageInv'
    <2>1. StorageInv /\ UNCHANGED storageVars => StorageInv'
        BY DEF StorageInv, storageVars, Storage!TypeOK, Storage!SwitchInv, SwitchesLeaveADefault,
               Storage!SwitchesLeaveADefault, Storage!Defaults
    <2> QED
        BY <2>1, StorageNext
           DEF Next, vars, LookupStep, RoleStep, StorageStep, ObjectStep, CronStep
  <1>3. StorageInv => SwitchesLeaveADefault
      BY DEF StorageInv
  <1> QED
      BY <1>1, <1>2, <1>3, PTL DEF Spec

-----------------------------------------------------------------------------
(* The object clients. *)

StoreInv == Objects!TypeOK /\ Objects!CopyInv /\ NoLostUpdate

\* A write of an object that has no changes but those it had and the new one
\* loses nothing, if its new changes include what is owed.
LEMMA WriteKeeps ==
  ASSUME StoreInv, NEW w \in Callers, bound # "nil",
         NEW o \in [rev : {0, revision + 1}, changes : SUBSET (1..revision + 1),
                    ending : BOOLEAN],
         NEW old \in SUBSET o.changes, NEW due \in SUBSET o.changes,
         o.changes \subseteq objects[bound].changes \union {revision + 1},
         Objects!Write(w, o, old, due)
  PROVE  StoreInv'
  <1> USE DEF StoreInv
  <1>1. /\ revision' = revision + 1
        /\ objects' = [objects EXCEPT ![bound] = o]
        /\ owed' \in {[owed EXCEPT ![bound] = due], [owed EXCEPT ![bound] = old]}
        /\ answer' \in [Callers -> {"none", "nil", "error"}]
        /\ UNCHANGED <<kind, bound, copy, manifest, doc, applied, quiet, defined, mapped>>
      BY DEF Objects!TypeOK, Objects!Write, Objects!Answer, Objects!apply
  <1>2. Objects!Where' = Objects!Where /\ bound \in Objects!Where
      BY <1>1 DEF Objects!TypeOK, Objects!Where
  <1>3. /\ 1..revision \subseteq 1..revision + 1
        /\ 0..revision \subseteq 0..revision + 1
        /\ revision' \in Nat \ {0}
        /\ revision + 1 \notin 1..revision
        /\ revision + 1 \notin 0..revision
      BY <1>1 DEF Objects!TypeOK
  <1>4. o \in [rev : 0..revision + 1, changes : SUBSET (1..revision + 1), ending : BOOLEAN]
      BY <1>3 DEF Objects!TypeOK
  <1>5. /\ objects' \in [Objects!Where ->
               [rev : 0..revision + 1, changes : SUBSET (1..revision + 1), ending : BOOLEAN]]
        /\ copy \in [Callers -> [place : Objects!Where \union {"none"}, rev : 0..revision + 1,
                                 changes : SUBSET (1..revision + 1)]]
        /\ owed' \in [Objects!Where -> SUBSET (1..revision + 1)]
    <2>1. objects' \in [Objects!Where ->
               [rev : 0..revision + 1, changes : SUBSET (1..revision + 1), ending : BOOLEAN]]
        BY <1>1, <1>2, <1>3, <1>4 DEF Objects!TypeOK
    <2>2. copy \in [Callers -> [place : Objects!Where \union {"none"}, rev : 0..revision + 1,
                                 changes : SUBSET (1..revision + 1)]]
        BY <1>3 DEF Objects!TypeOK
    <2>3. owed' \in [Objects!Where -> SUBSET (1..revision + 1)]
      <3>1. owed \in [Objects!Where -> SUBSET (1..revision)]
          BY DEF Objects!TypeOK
      <3>2. owed \in [Objects!Where -> SUBSET (1..revision + 1)]
          BY <1>3, <3>1
      <3>3. old \in SUBSET (1..revision + 1) /\ due \in SUBSET (1..revision + 1)
          OBVIOUS
      <3> HIDE DEF StoreInv
      <3> QED
          BY <1>1, <3>2, <3>3
    <2> QED
        BY <2>1, <2>2, <2>3
  <1>6. Objects!TypeOK'
      BY <1>1, <1>2, <1>3, <1>5 DEF Objects!TypeOK
  <1>7. Objects!CopyInv'
    <2> SUFFICES ASSUME NEW v \in Callers, NEW p \in Objects!Where, copy[v].place = p,
                        copy[v].rev > 0, copy[v].rev = objects'[p].rev
                 PROVE  copy[v].changes = objects'[p].changes
        BY <1>1, <1>2 DEF Objects!CopyInv
    <2>1. copy[v].rev \in 0..revision /\ objects'[bound] = o
        BY <1>1, <1>2 DEF Objects!TypeOK
    <2>2. p # bound
        BY <1>3, <2>1
    <2>3. objects'[p] = objects[p]
        BY <1>1, <2>2 DEF Objects!TypeOK
    <2> QED
        BY <2>3 DEF Objects!CopyInv
  <1>8. NoLostUpdate'
    <2>1. /\ objects'[bound] = o
          /\ owed'[bound] \subseteq o.changes
          /\ \A p \in Objects!Where \ {bound} : objects'[p] = objects[p] /\ owed'[p] = owed[p]
        BY <1>1, <1>2 DEF Objects!TypeOK
    <2>2. \A p \in Objects!Where : owed'[p] \subseteq objects'[p].changes
        BY <2>1 DEF NoLostUpdate, Objects!NoLostUpdate
    <2>3. \A p \in Objects!Where \ {bound} : objects[p].changes \intersect o.changes = {}
      <3>1. \A p \in Objects!Where : objects[p].changes \subseteq 1..revision
          BY DEF Objects!TypeOK
      <3> QED
          BY <1>2, <1>3, <3>1 DEF NoLostUpdate, Objects!NoLostUpdate
    <2>4. \A p, q \in Objects!Where :
              p # q => objects'[p].changes \intersect objects'[q].changes = {}
        BY <2>1, <2>3 DEF NoLostUpdate, Objects!NoLostUpdate
    <2> QED
        BY <1>2, <2>2, <2>4 DEF NoLostUpdate, Objects!NoLostUpdate
  <1> QED
      BY <1>6, <1>7, <1>8
\* Requests that are refused, or that only read, lose nothing.
LEMMA ReadKeeps ==
  ASSUME StoreInv, NEW w \in Callers,
         Objects!Given(w) \/ \E c \in BOOLEAN : Objects!Refused(w, c)
  PROVE  StoreInv'
  <1>1. /\ UNCHANGED <<kind, bound, objects, revision, owed, manifest, doc, applied, quiet, mapped>>
        /\ Objects!Where' = Objects!Where
        /\ answer' \in [Callers -> {"none", "nil", "error"}]
      BY DEF StoreInv, Objects!TypeOK, Objects!Given, Objects!Refused, Objects!Answer, Objects!store,
             Objects!apply, Objects!Where
  <1>2. NoLostUpdate'
      BY <1>1 DEF StoreInv, NoLostUpdate, Objects!NoLostUpdate
  <1>3. CASE UNCHANGED copy
      BY <1>1, <1>2, <1>3 DEF StoreInv, Objects!TypeOK, Objects!CopyInv
  <1>4. CASE Objects!Given(w)
    <2> DEFINE c == copy'[w]
    <2>1. /\ bound \in Objects!Where
          /\ copy' = [copy EXCEPT ![w] = c]
          /\ \/ c = [place |-> bound, rev |-> objects[bound].rev, changes |-> objects[bound].changes]
             \/ c = Objects!NoCopy
        BY <1>4 DEF StoreInv, Objects!TypeOK, Objects!Given
    <2>2. c \in [place : Objects!Where \union {"none"}, rev : 0..revision,
                 changes : SUBSET (1..revision)]
        BY <2>1 DEF StoreInv, Objects!TypeOK, Objects!NoCopy
    <2>3. \A p \in Objects!Where : c.place = p /\ c.rev > 0 /\ c.rev = objects[p].rev =>
              c.changes = objects[p].changes
        BY <2>1 DEF Objects!NoCopy
    <2>4. Objects!TypeOK'
        BY <1>1, <2>1, <2>2 DEF StoreInv, Objects!TypeOK
    <2>5. Objects!CopyInv'
      <3> SUFFICES ASSUME NEW v \in Callers, NEW p \in Objects!Where, copy'[v].place = p,
                          copy'[v].rev > 0, copy'[v].rev = objects[p].rev
                   PROVE  copy'[v].changes = objects[p].changes
          BY <1>1 DEF Objects!CopyInv
      <3>1. CASE v = w
          BY <2>3, <3>1
      <3>2. CASE v # w
        <4>1. copy'[v] = copy[v]
            BY <2>1, <3>2 DEF StoreInv, Objects!TypeOK
        <4> QED
            BY <4>1 DEF StoreInv, Objects!CopyInv
      <3> QED
          BY <3>1, <3>2
    <2> QED
        BY <1>2, <2>4, <2>5 DEF StoreInv
  <1> QED
      BY <1>3, <1>4 DEF Objects!Refused, Objects!store

\* What the requests come down to: every operation on an object is one of these.
Request(w) ==
    \/ Objects!Create(w) \/ Objects!Get(w) \/ Objects!List(w) \/ Objects!Update(w)
    \/ Objects!Patch(w) \/ Objects!Delete(w) \/ Objects!DeleteNamespace(w)

\* No request loses a change that was acknowledged: an Update is of the current
\* revision, and a copy of that revision has all changes.
LEMMA RequestKeeps ==
  ASSUME StoreInv, NEW w \in Callers, Request(w)
  PROVE  StoreInv'
  <1>1. CASE Objects!Given(w) \/ \E c \in BOOLEAN : Objects!Refused(w, c)
      BY <1>1, ReadKeeps
  <1>2. ASSUME bound # "nil" PROVE
        /\ bound \in Objects!Where /\ revision \in Nat
        /\ objects[bound] \in
               [rev : 0..revision, changes : SUBSET (1..revision), ending : BOOLEAN]
        /\ owed[bound] \subseteq objects[bound].changes
        /\ 1..revision \subseteq 1..revision + 1
        /\ revision + 1 \in 1..revision + 1
      BY <1>2 DEF StoreInv, Objects!TypeOK, NoLostUpdate, Objects!NoLostUpdate
  <1> DEFINE Change(o, old, due) ==
          /\ bound # "nil"
          /\ o \in [rev : {0, revision + 1}, changes : SUBSET (1..revision + 1),
                    ending : BOOLEAN]
          /\ old \in SUBSET o.changes /\ due \in SUBSET o.changes
          /\ o.changes \subseteq objects[bound].changes \union {revision + 1}
          /\ Objects!Write(w, o, old, due)
  <1>3. ASSUME NEW o, NEW old, NEW due, Change(o, old, due) PROVE StoreInv'
      BY <1>3, WriteKeeps
  <1>4. CASE Objects!Create(w) /\ ~\E c \in BOOLEAN : Objects!Refused(w, c)
    <2> DEFINE o == [rev |-> revision + 1, changes |-> {revision + 1}, ending |-> FALSE]
    <2>1. Change(o, {}, {revision + 1})
        BY <1>2, <1>4 DEF Objects!Create, Objects!This
    <2> QED
        BY <1>3, <2>1
  <1>5. CASE Objects!Update(w) /\ ~\E c \in BOOLEAN : Objects!Refused(w, c)
    <2>1. PICK o : o = [objects[bound] EXCEPT !.rev = revision + 1,
                            !.changes = copy[w].changes \union {revision + 1}]
        OBVIOUS
    <2>2. /\ bound # "nil" /\ Objects!Exists /\ Objects!Current(w)
          /\ Objects!Write(w, o, owed[bound], owed[bound] \union {revision + 1})
        BY <1>5, <2>1 DEF Objects!Update, Objects!This
    <2>3. copy[w].changes = objects[bound].changes
        BY <1>2, <2>2 DEF StoreInv, Objects!TypeOK, Objects!CopyInv, Objects!Exists, Objects!Current
    <2>4. /\ o \in [rev : {0, revision + 1}, changes : SUBSET (1..revision + 1), ending : BOOLEAN]
          /\ o.changes = objects[bound].changes \union {revision + 1}
        BY <1>2, <2>1, <2>2, <2>3
    <2>5. Change(o, owed[bound], owed[bound] \union {revision + 1})
        BY <1>2, <2>2, <2>4
    <2> QED
        BY <1>3, <2>5
  <1>6. CASE Objects!Patch(w) /\ ~\E c \in BOOLEAN : Objects!Refused(w, c)
    <2>1. PICK o : o = [objects[bound] EXCEPT !.rev = revision + 1,
                            !.changes = objects[bound].changes \union {revision + 1}]
        OBVIOUS
    <2>2. /\ bound # "nil"
          /\ Objects!Write(w, o, owed[bound], owed[bound] \union {revision + 1})
        BY <1>6, <2>1 DEF Objects!Patch, Objects!This
    <2>3. /\ o \in [rev : {0, revision + 1}, changes : SUBSET (1..revision + 1), ending : BOOLEAN]
          /\ o.changes = objects[bound].changes \union {revision + 1}
        BY <1>2, <2>1, <2>2
    <2>4. Change(o, owed[bound], owed[bound] \union {revision + 1})
        BY <1>2, <2>2, <2>3
    <2> QED
        BY <1>3, <2>4
  <1>7. CASE Objects!Delete(w) /\ ~\E c \in BOOLEAN : Objects!Refused(w, c)
    <2>1. Change(Objects!Absent, {}, {})
        BY <1>2, <1>7 DEF Objects!Delete, Objects!Absent
    <2> QED
        BY <1>3, <2>1
  <1>8. CASE Objects!DeleteNamespace(w) /\ ~\E c \in BOOLEAN : Objects!Refused(w, c)
    <2>1. PICK o : o = [objects[bound] EXCEPT !.rev = revision + 1, !.ending = TRUE]
        OBVIOUS
    <2>2. bound # "nil" /\ Objects!Write(w, o, owed[bound], owed[bound])
        BY <1>8, <2>1 DEF Objects!DeleteNamespace, Objects!This
    <2>3. /\ o \in [rev : {0, revision + 1}, changes : SUBSET (1..revision + 1), ending : BOOLEAN]
          /\ o.changes = objects[bound].changes
        BY <1>2, <2>1, <2>2
    <2>4. Change(o, owed[bound], owed[bound])
        BY <1>2, <2>2, <2>3
    <2> QED
        BY <1>3, <2>4
  <1> QED
      BY <1>1, <1>4, <1>5, <1>6, <1>7, <1>8 DEF Request, Objects!Get, Objects!List
\* Binding the client of a kind.
LEMMA SetClientsKeep == StoreInv /\ Objects!SetClients => StoreInv'
  <1> SUFFICES ASSUME StoreInv, Objects!SetClients PROVE StoreInv'
      OBVIOUS
  <1>1. PICK p \in Objects!Where : Objects!SetClient(p)
    <2> USE DEF Objects!SetClients, Objects!Where, Objects!ClusterWide, Objects!On,
           Objects!SetEventClient, Objects!SetPodClient, Objects!SetJobClient,
           Objects!SetConfigMapClient, Objects!SetDeploymentClient, Objects!SetSvcClient,
           Objects!SetServiceAccountClient, Objects!SetSecretClient, Objects!SetRoleClient,
           Objects!SetResourceQuotaClient, Objects!SetNamespaceClient, Objects!SetNodeClient,
           Objects!SetStorageClassClient, Objects!SetClusterRoleClient,
           Objects!SetClusterRoleBindingClient, Objects!SetCustomResourceDefinitionClient
    <2>1. CASE kind \in Objects!ClusterWide
        BY <2>1
    <2>2. CASE kind \notin Objects!ClusterWide
        BY <2>2
    <2> QED
        BY <2>1, <2>2
  <1>2. Objects!Where' = Objects!Where
      BY <1>1 DEF Objects!SetClient, Objects!Where
  <1> QED
      BY <1>1, <1>2 DEF Objects!SetClient, StoreInv, Objects!TypeOK, Objects!CopyInv, NoLostUpdate,
         Objects!NoLostUpdate, Objects!apply

\* Each operation of the helper is a request, on an object of its kind.
LEMMA OperationsAreRequests ==
  Objects!ObjectRequests => kind # "Manifest" /\ \E w \in Callers : Request(w)
  BY DEF Objects!ObjectRequests, Request, Objects!On, Objects!ListPod, Objects!CreateSvc,
     Objects!GetRole, Objects!CreateJob, Objects!GetJob, Objects!ListJobs, Objects!DeleteJob,
     Objects!CreateConfigMap, Objects!GetConfigMap, Objects!UpdateConfigMap,
     Objects!DeleteConfigMap, Objects!GetDeployment, Objects!UpdateDeployment,
     Objects!PatchDeployment, Objects!GetNode, Objects!ListNodes, Objects!UpdateNode,
     Objects!GetServiceAccount, Objects!ListServiceAccount, Objects!CreateServiceAccount,
     Objects!DeleteServiceAccount, Objects!GetTokenSecret, Objects!GetSecret,
     Objects!CreateTokenSecret, Objects!CreateSecret, Objects!DeleteSecret,
     Objects!ListResourceQuota, Objects!CreateResourceQuota, Objects!UpdateResourceQuota,
     Objects!GetClusterRole, Objects!CreateClusterRole, Objects!PatchClusterRole,
     Objects!ListClusterRoleBinding, Objects!CreateClusterRoleBinding,
     Objects!ListCustomResourceDefinition, Objects!ApplyCustomResourceDefinitions,
     Objects!GetStorageClass, Objects!CreateStorageClass, Objects!GetNamespace,
     Objects!ListNamespace, Objects!CreateNamespace, Objects!PatchNamespace,
     Objects!DeleteNamespace

\* The controller that ends a namespace forgets what was owed to it.
LEMMA ControllerKeeps ==
  ASSUME StoreInv, NEW p \in Objects!Where, Objects!NamespaceController(p)
  PROVE  StoreInv'
  <1> DEFINE o == Objects!Absent
  <1>1. /\ revision' = revision + 1 /\ revision \in Nat
        /\ objects' = [objects EXCEPT ![p] = Objects!Absent]
        /\ owed' = [owed EXCEPT ![p] = {}]
        /\ UNCHANGED <<kind, bound, copy, answer, manifest, doc, applied, quiet, mapped>>
        /\ Objects!Where' = Objects!Where
      BY DEF StoreInv, Objects!TypeOK, Objects!NamespaceController, Objects!apply, Objects!Where
  <1>2. /\ 1..revision \subseteq 1..revision + 1
        /\ 0..revision \subseteq 0..revision + 1
        /\ o.rev = 0 /\ o.changes = {}
        /\ o \in [rev : 0..revision + 1, changes : SUBSET (1..revision + 1), ending : BOOLEAN]
      BY <1>1 DEF Objects!Absent
  <1> HIDE DEF o
  <1>3. /\ objects'[p].rev = 0 /\ objects'[p].changes = {} /\ owed'[p] = {}
        /\ \A q \in Objects!Where \ {p} : objects'[q] = objects[q] /\ owed'[q] = owed[q]
      BY <1>1, <1>2 DEF StoreInv, Objects!TypeOK, o
  <1>4. Objects!TypeOK'
    <2>1. objects' \in [Objects!Where ->
               [rev : 0..revision + 1, changes : SUBSET (1..revision + 1), ending : BOOLEAN]]
        BY <1>1, <1>2 DEF StoreInv, Objects!TypeOK, o
    <2>2. copy \in [Callers -> [place : Objects!Where \union {"none"}, rev : 0..revision + 1,
                                 changes : SUBSET (1..revision + 1)]]
        BY <1>2 DEF StoreInv, Objects!TypeOK
    <2>3. owed' \in [Objects!Where -> SUBSET (1..revision + 1)]
        BY <1>1, <1>2 DEF StoreInv, Objects!TypeOK
    <2> QED
        BY <1>1, <2>1, <2>2, <2>3 DEF StoreInv, Objects!TypeOK
  <1>5. Objects!CopyInv'
    <2> SUFFICES ASSUME NEW v \in Callers, NEW q \in Objects!Where, copy[v].place = q,
                        copy[v].rev > 0, copy[v].rev = objects'[q].rev
                 PROVE  copy[v].changes = objects'[q].changes
        BY <1>1 DEF Objects!CopyInv
    <2>1. q # p
        BY <1>3
    <2> QED
        BY <1>3, <2>1 DEF StoreInv, Objects!CopyInv
  <1>6. NoLostUpdate'
      BY <1>1, <1>3 DEF StoreInv, NoLostUpdate, Objects!NoLostUpdate
  <1> QED
      BY <1>4, <1>5, <1>6 DEF StoreInv
-----------------------------------------------------------------------------
(* Manifests. *)

ObjectInv == StoreInv /\ Objects!ManifestInv

\* The mapper's answer for the custom kind, once given, stays.
LEMMA MappingStays ==
  ASSUME Objects!TypeOK
  PROVE  /\ Objects!Mapping \in {"known", "unknown"}
         /\ mapped = "known" => Objects!Mapping = "known"
  BY DEF Objects!TypeOK, Objects!Mapping

\* A step of ApplyDynamicResource leaves the objects of the clients alone.
LEMMA ApplicationsKeepStore ==
  ASSUME StoreInv, Objects!Applications
  PROVE  StoreInv'
  <1>1. UNCHANGED <<kind, bound, objects, revision, copy, owed>>
      BY DEF Objects!Applications, Objects!ApplyDynamicResource, Objects!ApplyDocument,
         Objects!RejectDocument, Objects!DecodePanics, Objects!EndOfManifest, Objects!DefineKind,
         Objects!Rest, Objects!store
  <1>2. Objects!Where' = Objects!Where
      BY <1>1 DEF Objects!Where
  <1>3. Objects!CopyInv' /\ NoLostUpdate'
      BY <1>1, <1>2 DEF StoreInv, Objects!CopyInv, NoLostUpdate, Objects!NoLostUpdate
  <1> DEFINE Typed ==
          /\ answer' \in [Callers -> {"none", "nil", "error"}]
          /\ manifest' \in [Callers -> Manifests \union {<<>>}]
          /\ doc' \in [Callers -> Nat]
          /\ applied' \in [Callers -> SUBSET Objects!Appliable]
          /\ quiet' \subseteq Callers
          /\ mapped' \in {"empty", "known", "unknown"}
  <1>4. Typed
    <2>0. Objects!Mapping \in {"known", "unknown"}
        BY MappingStays DEF StoreInv
    <2> USE DEF StoreInv, Objects!TypeOK
    <2>1. ASSUME NEW w \in Callers, NEW m \in Manifests, Objects!ApplyDynamicResource(w, m)
          PROVE  Typed
        BY <2>1 DEF Objects!ApplyDynamicResource, Objects!Answer
    <2>2. ASSUME NEW w \in Callers, NEW d \in Objects!Appliable, Objects!ApplyDocument(w, d)
          PROVE  Typed
      <3>1. /\ applied' = applied \/ Objects!Applied(w, d)
            /\ quiet' \in {quiet, quiet \intersect {w}}
            /\ mapped' \in {mapped, Objects!Mapping}
            /\ manifest' = manifest
          BY <2>2 DEF Objects!ApplyDocument, Objects!Applied
      <3>2. /\ doc' \in {[doc EXCEPT ![w] = doc[w] + 1], doc}
            /\ answer' \in {answer, [answer EXCEPT ![w] = "error"]}
          BY <2>2 DEF Objects!ApplyDocument, Objects!Answer
      <3>3. applied' \in [Callers -> SUBSET Objects!Appliable]
        <4>1. CASE Objects!Applied(w, d)
          <5>1. applied' = [u \in Callers |->
                    IF u = w THEN applied[w] \union {d} ELSE applied[u] \ {d}]
              BY <4>1 DEF Objects!Applied
          <5>2. applied \in [Callers -> SUBSET Objects!Appliable]
              OBVIOUS
          <5> HIDE DEF StoreInv, Objects!TypeOK
          <5> QED
              BY <5>1, <5>2
        <4> QED
            BY <3>1, <4>1
      <3>4. doc' \in [Callers -> Nat]
        <4>1. doc \in [Callers -> Nat] /\ doc[w] + 1 \in Nat
            OBVIOUS
        <4> HIDE DEF StoreInv, Objects!TypeOK
        <4> QED
            BY <3>2, <4>1
      <3>5. answer' \in [Callers -> {"none", "nil", "error"}]
          BY <3>2
      <3> QED
          BY <2>0, <3>1, <3>3, <3>4, <3>5
    <2>3. ASSUME NEW w \in Callers,
                 Objects!RejectDocument(w) \/ Objects!DecodePanics(w) \/ Objects!EndOfManifest(w)
          PROVE  Typed
        BY <2>0, <2>3 DEF Objects!RejectDocument, Objects!DecodePanics, Objects!EndOfManifest,
           Objects!Answer, Objects!apply
    <2>4. CASE Objects!DefineKind
        BY <2>4 DEF Objects!DefineKind
    <2> QED
        BY <2>1, <2>2, <2>3, <2>4 DEF Objects!Applications
  <1> QED
      BY <1>1, <1>2, <1>3, <1>4 DEF StoreInv, Objects!TypeOK
\* What a manifest holds up to its k-th document, and behind.
LEMMA DocumentsGrow ==
  ASSUME NEW m, Len(m) \in Nat, NEW k \in 1..Len(m)
  PROVE  /\ Objects!Documents(m, k) = Objects!Documents(m, k - 1) \union {m[k]}
         /\ Objects!Documents(m, k + 1 - 1) = Objects!Documents(m, k)
         /\ Objects!Documents(m, k) \subseteq Objects!Documents(m, k + 1)
  <1> PICK L \in Nat : L = Len(m)
      OBVIOUS
  <1>1. /\ \A i \in 1..L \intersect 1..k : i \in 1..L \intersect 1..k - 1 \/ i = k
        /\ 1..L \intersect 1..k - 1 \subseteq 1..L \intersect 1..k
        /\ k \in 1..L \intersect 1..k
        /\ 1..L \intersect 1..k \subseteq 1..L \intersect 1..k + 1
        /\ k + 1 - 1 = k
      OBVIOUS
  <1> QED
      BY <1>1 DEF Objects!Documents

\* A call that a step leaves alone stands where it stood, whatever others apply.
LEMMA StandsStill ==
  ASSUME NEW v \in Callers, Objects!Stands(v), Objects!TypeOK,
         manifest'[v] = manifest[v], doc'[v] = doc[v], answer'[v] = answer[v],
         applied'[v] \subseteq applied[v],
         v \in quiet' => v \in quiet /\ applied'[v] = applied[v],
         mapped # "empty" => mapped' = mapped,
         lapses' = 0 => lapses = 0
  PROVE  Objects!Stands(v)'
  <1>1. /\ doc'[v] \in 1..Len(manifest'[v]) + 1
        /\ answer'[v] = "nil" => doc'[v] > Len(manifest'[v])
        /\ answer'[v] = "error" => doc'[v] <= Len(manifest'[v])
        /\ applied'[v] \subseteq Objects!Documents(manifest'[v], doc'[v])
      BY DEF Objects!Stands
  <1>2. v \in quiet' => Objects!Documents(manifest'[v], doc'[v] - 1) \subseteq applied'[v]
      BY DEF Objects!Stands
  <1>3. \A d \in Objects!Documents(manifest'[v], doc'[v] - 1) :
            d \in Objects!Appliable /\ (d = "custom" => mapped' = "known")
      BY DEF Objects!Stands
  <1>4. answer'[v] = "error" /\ lapses' = 0 => Objects!Unfit(manifest[v][doc[v]])'
    <2> PICK d : d = manifest[v][doc[v]]
        OBVIOUS
    <2>1. answer'[v] = "error" /\ lapses' = 0 => Objects!Unfit(d)
        BY DEF Objects!Stands
    <2>2. Objects!Unfit(d) => Objects!Unfit(d)'
        BY DEF Objects!Unfit
    <2> QED
        BY <2>1, <2>2 DEF Objects!Unfit
  <1> QED
      BY <1>1, <1>2, <1>3, <1>4 DEF Objects!Stands, Objects!Appliable

\* A call goes on to the next document when it has applied one.
LEMMA StandsFurther ==
  ASSUME NEW w \in Callers, Objects!Stands(w), Objects!TypeOK, Len(manifest[w]) \in Nat,
         NEW d \in Objects!Appliable, doc[w] \in 1..Len(manifest[w]), manifest[w][doc[w]] = d,
         manifest' = manifest, doc'[w] = doc[w] + 1, answer'[w] = "none",
         applied'[w] = applied[w] \union {d}, w \in quiet' => w \in quiet,
         mapped' \in {"known", "unknown"}, mapped # "empty" => mapped' = mapped,
         d = "custom" => mapped' = "known"
  PROVE  Objects!Stands(w)'
  <1> PICK m, k : m = manifest[w] /\ k = doc[w]
      OBVIOUS
  <1>1. /\ k \in 1..Len(m) /\ Len(m) \in Nat /\ m[k] = d
        /\ manifest'[w] = m /\ doc'[w] = k + 1
      OBVIOUS
  <1>2. /\ Objects!Documents(m, k) = Objects!Documents(m, k - 1) \union {d}
        /\ Objects!Documents(m, k + 1 - 1) = Objects!Documents(m, k)
        /\ Objects!Documents(m, k) \subseteq Objects!Documents(m, k + 1)
      BY <1>1, DocumentsGrow
  <1>3. /\ applied[w] \subseteq Objects!Documents(m, k)
        /\ w \in quiet => Objects!Documents(m, k - 1) \subseteq applied[w]
        /\ \A e \in Objects!Documents(m, k - 1) :
               e \in Objects!Appliable /\ (e = "custom" => mapped = "known")
      BY DEF Objects!Stands
  <1>4. k + 1 \in 1..Len(m) + 1
      BY <1>1
  <1>5. applied'[w] \subseteq Objects!Documents(m, k + 1)
      BY <1>2, <1>3
  <1>6. w \in quiet' => Objects!Documents(m, k + 1 - 1) \subseteq applied'[w]
      BY <1>2, <1>3
  <1>7. \A e \in Objects!Documents(m, k + 1 - 1) :
            e \in Objects!Appliable /\ (e = "custom" => mapped' = "known")
      BY <1>2, <1>3
  <1>8. ~(answer'[w] = "error") /\ ~(answer'[w] = "nil")
      OBVIOUS
  <1>9. k + 1 = doc'[w] /\ m = manifest'[w]
      BY <1>1
  <1>10. doc'[w] \in 1..Len(manifest'[w]) + 1
      BY <1>4, <1>9
  <1>11. applied'[w] \subseteq Objects!Documents(manifest'[w], doc'[w])
      BY <1>5, <1>9
  <1>12. w \in quiet' => Objects!Documents(manifest'[w], doc'[w] - 1) \subseteq applied'[w]
      BY <1>6, <1>9
  <1>13. \A e \in Objects!Documents(manifest'[w], doc'[w] - 1) :
            e \in Objects!Appliable /\ (e = "custom" => mapped' = "known")
      BY <1>7, <1>9
  <1> QED
      BY <1>8, <1>10, <1>11, <1>12, <1>13 DEF Objects!Stands, Objects!Appliable

\* A call stops at a document that cannot be applied, or whose request failed.
LEMMA StandsStopped ==
  ASSUME NEW w \in Callers, Objects!Stands(w), Objects!TypeOK, Len(manifest[w]) \in Nat,
         doc[w] \in 1..Len(manifest[w]),
         manifest' = manifest, doc' = doc, answer'[w] = "error",
         applied'[w] \in {applied[w], applied[w] \union {manifest[w][doc[w]]}},
         w \in quiet' => w \in quiet,
         mapped # "empty" => mapped' = mapped,
         lapses' = 0 => Objects!Unfit(manifest[w][doc[w]])'
  PROVE  Objects!Stands(w)'
  <1> PICK m, k : m = manifest[w] /\ k = doc[w]
      OBVIOUS
  <1>1. /\ k \in 1..Len(m) /\ Len(m) \in Nat
        /\ manifest'[w] = m /\ doc'[w] = k
      OBVIOUS
  <1>2. Objects!Documents(m, k) = Objects!Documents(m, k - 1) \union {m[k]}
      BY <1>1, DocumentsGrow
  <1>3. /\ applied[w] \subseteq Objects!Documents(m, k)
        /\ w \in quiet => Objects!Documents(m, k - 1) \subseteq applied[w]
        /\ \A e \in Objects!Documents(m, k - 1) :
               e \in Objects!Appliable /\ (e = "custom" => mapped = "known")
      BY DEF Objects!Stands
  <1>4. k \in 1..Len(m) + 1 /\ k <= Len(m) /\ ~(k > Len(m))
      BY <1>1
  <1>5. applied'[w] \subseteq Objects!Documents(m, k)
      BY <1>2, <1>3
  <1>6. w \in quiet' => Objects!Documents(m, k - 1) \subseteq applied'[w]
      BY <1>3
  <1>7. \A e \in Objects!Documents(m, k - 1) :
            e \in Objects!Appliable /\ (e = "custom" => mapped' = "known")
      BY <1>3
  <1>8. lapses' = 0 => Objects!Unfit(manifest[w][doc[w]])'
      OBVIOUS
  <1> QED
      BY <1>1, <1>4, <1>5, <1>6, <1>7, <1>8 DEF Objects!Stands, Objects!Appliable

\* Every step of ApplyDynamicResource keeps the account of every call.
LEMMA ApplicationsKeepManifest ==
  ASSUME ObjectInv, Objects!Applications
  PROVE  Objects!ManifestInv'
  <1>1. /\ Objects!TypeOK /\ lapses \in Nat
        /\ \A w \in Callers : doc[w] > 0 => Objects!Stands(w)
      BY DEF ObjectInv, StoreInv, Objects!ManifestInv
  <1>2. kind = "Manifest" /\ kind' = kind
      BY DEF Objects!Applications, Objects!ApplyDynamicResource, Objects!ApplyDocument, Objects!At,
         Objects!Applying, Objects!RejectDocument, Objects!DecodePanics, Objects!EndOfManifest,
         Objects!DefineKind, Objects!On, Objects!Rest
  <1>3. lapses' \in {lapses, lapses + 1}
      BY DEF Objects!Applications, Objects!ApplyDynamicResource, Objects!ApplyDocument,
         Objects!RejectDocument, Objects!DecodePanics, Objects!EndOfManifest, Objects!DefineKind,
         Objects!Lapse
  <1>4. lapses' \in Nat /\ (lapses' = 0 => lapses = 0)
      BY <1>1, <1>3
  <1>5. SUFFICES ASSUME NEW v \in Callers, doc'[v] > 0 PROVE Objects!Stands(v)'
      BY <1>2, <1>4 DEF Objects!ManifestInv
  <1>6. /\ doc \in [Callers -> Nat] /\ answer \in [Callers -> {"none", "nil", "error"}]
        /\ manifest \in [Callers -> Manifests \union {<<>>}]
        /\ applied \in [Callers -> SUBSET Objects!Appliable]
        /\ Objects!Mapping \in {"known", "unknown"}
        /\ mapped # "empty" => Objects!Mapping = mapped
      BY <1>1, MappingStays DEF Objects!TypeOK, Objects!Mapping
  <1>7. \A w \in Callers : Len(manifest[w]) \in Nat
    <2>1. \A m \in Manifests \union {<<>>} : Len(m) \in Nat
        BY ManifestsAssumption
    <2> QED
        BY <1>6, <2>1
  <1>8. ASSUME NEW w \in Callers, NEW m \in Manifests, Objects!ApplyDynamicResource(w, m)
        PROVE  Objects!Stands(v)'
    <2>1. CASE v # w
      <3>1. /\ manifest'[v] = manifest[v] /\ doc'[v] = doc[v] /\ answer'[v] = answer[v]
            /\ applied'[v] = applied[v]
            /\ v \in quiet' => v \in quiet
            /\ mapped' = mapped
          BY <1>6, <1>8, <2>1 DEF Objects!ApplyDynamicResource, Objects!Answer
      <3> QED
          BY <1>1, <1>4, <1>5, <3>1, StandsStill
    <2>2. CASE v = w
      <3>1. /\ doc'[w] = 1 /\ answer'[w] = "none" /\ manifest'[w] = m /\ Len(m) \in Nat
            /\ applied'[w] = {}
          BY <1>6, <1>8, ManifestsAssumption DEF Objects!ApplyDynamicResource, Objects!Answer
      <3>2. Objects!Documents(m, 1 - 1) = {}
        <4>1. 1..Len(m) \intersect 1..1 - 1 = {}
            BY <3>1
        <4> QED
            BY <4>1 DEF Objects!Documents
      <3> QED
          BY <2>2, <3>1, <3>2 DEF Objects!Stands
    <2> QED
        BY <2>1, <2>2
  <1>9. ASSUME NEW w \in Callers, NEW d \in Objects!Appliable, Objects!ApplyDocument(w, d)
        PROVE  Objects!Stands(v)'
    <2>1. /\ doc[w] \in 1..Len(manifest[w]) /\ manifest[w][doc[w]] = d /\ doc[w] > 0
          /\ answer[w] = "none"
          /\ d = "custom" => Objects!Mapping = "known"
          /\ manifest' = manifest
          /\ mapped' \in {mapped, Objects!Mapping}
        BY <1>9 DEF Objects!ApplyDocument, Objects!At, Objects!Applying, Objects!Applied
    <2>2. /\ \/ applied' = applied /\ quiet' = quiet
             \/ /\ applied' = [u \in Callers |->
                       IF u = w THEN applied[w] \union {d} ELSE applied[u] \ {d}]
                /\ quiet' = quiet \intersect {w}
          /\ \/ /\ doc' = [doc EXCEPT ![w] = doc[w] + 1] /\ answer' = answer
                /\ Objects!Applied(w, d)
             \/ doc' = doc /\ answer' = [answer EXCEPT ![w] = "error"] /\ lapses' = lapses + 1
        BY <1>9 DEF Objects!ApplyDocument, Objects!Applied, Objects!Answer, Objects!Lapse
    <2>3. CASE v # w
      <3>1. manifest'[v] = manifest[v] /\ doc'[v] = doc[v] /\ answer'[v] = answer[v]
          BY <1>6, <2>1, <2>2, <2>3
      <3>2. /\ applied'[v] \subseteq applied[v]
            /\ v \in quiet' => v \in quiet /\ applied'[v] = applied[v]
          BY <1>6, <2>2, <2>3
      <3> QED
          BY <1>1, <1>4, <1>5, <1>6, <2>1, <3>1, <3>2, StandsStill
    <2>4. CASE v = w
      <3>1. Objects!Stands(w) /\ (w \in quiet' => w \in quiet)
          BY <1>1, <2>1, <2>2
      <3>2. CASE doc' = doc /\ answer' = [answer EXCEPT ![w] = "error"] /\ lapses' = lapses + 1
        <4>1. applied'[w] \in {applied[w], applied[w] \union {manifest[w][doc[w]]}}
            BY <2>1, <2>2
        <4>2. answer'[w] = "error" /\ lapses' # 0
            BY <1>1, <1>6, <3>2
        <4> QED
            BY <1>1, <1>6, <1>7, <2>1, <2>4, <3>1, <3>2, <4>1, <4>2, StandsStopped
      <3>3. CASE doc' = [doc EXCEPT ![w] = doc[w] + 1] /\ answer' = answer /\ Objects!Applied(w, d)
        <4>1. /\ applied'[w] = applied[w] \union {d} /\ mapped' = Objects!Mapping
              /\ doc'[w] = doc[w] + 1 /\ answer'[w] = "none"
            BY <1>6, <2>1, <3>3 DEF Objects!Applied
        <4> QED
            BY <1>1, <1>6, <1>7, <2>1, <2>4, <3>1, <4>1, StandsFurther
      <3> QED
          BY <2>2, <3>2, <3>3
    <2> QED
        BY <2>3, <2>4
  <1>10. ASSUME NEW w \in Callers, Objects!RejectDocument(w)
         PROVE  Objects!Stands(v)'
    <2>1. /\ doc[w] \in 1..Len(manifest[w]) /\ doc[w] > 0
          /\ answer' = [answer EXCEPT ![w] = "error"]
          /\ mapped' = Objects!Mapping /\ UNCHANGED <<manifest, doc, applied, quiet>>
        BY <1>10 DEF Objects!RejectDocument, Objects!At, Objects!Applying, Objects!Answer
    <2>2. CASE v # w
        BY <1>1, <1>4, <1>5, <1>6, <2>1, <2>2, StandsStill
    <2>3. CASE v = w
      <3>1. Objects!Stands(w) /\ answer'[w] = "error"
          BY <1>1, <1>6, <2>1
      <3>2. Objects!Unfit(manifest[w][doc[w]])'
          BY <1>10, <2>1 DEF Objects!RejectDocument, Objects!At, Objects!Unfit, Objects!Appliable
      <3> QED
          BY <1>1, <1>6, <1>7, <2>1, <2>3, <3>1, <3>2, StandsStopped
    <2> QED
        BY <2>2, <2>3
  <1>11. ASSUME NEW w \in Callers, Objects!EndOfManifest(w)
         PROVE  Objects!Stands(v)'
    <2>1. /\ doc[w] > Len(manifest[w])
          /\ answer' = [answer EXCEPT ![w] = "nil"]
          /\ UNCHANGED <<manifest, doc, applied, quiet, mapped>>
        BY <1>11 DEF Objects!EndOfManifest, Objects!Answer, Objects!apply
    <2>2. CASE v # w
        BY <1>1, <1>4, <1>5, <1>6, <2>1, <2>2, StandsStill
    <2>3. CASE v = w
      <3>1. Objects!Stands(w) /\ answer'[w] = "nil"
          BY <1>1, <1>5, <1>6, <2>1, <2>3
      <3> QED
          BY <2>1, <2>3, <3>1 DEF Objects!Stands, Objects!Appliable
    <2> QED
        BY <2>2, <2>3
  <1>12. ASSUME UNCHANGED <<manifest, doc, answer, applied, quiet, mapped>>
         PROVE  Objects!Stands(v)'
      BY <1>1, <1>4, <1>5, <1>12, StandsStill
  <1>13. ASSUME NEW w \in Callers, Objects!DecodePanics(w)
         PROVE  Objects!Stands(v)'
      BY <1>12, <1>13 DEF Objects!DecodePanics, Objects!apply
  <1>14. CASE Objects!DefineKind
      BY <1>12, <1>14 DEF Objects!DefineKind
  <1> QED
      BY <1>8, <1>9, <1>10, <1>11, <1>13, <1>14 DEF Objects!Applications

\* Every step of the object clients and of ApplyDynamicResource.
LEMMA ObjectNext == ObjectInv /\ Objects!Next => ObjectInv'
  <1> SUFFICES ASSUME ObjectInv, Objects!Next PROVE ObjectInv'
      OBVIOUS
  <1>1. CASE Objects!Applications
      BY <1>1, ApplicationsKeepStore, ApplicationsKeepManifest DEF ObjectInv
  <1>2. CASE /\ StoreInv'
             /\ kind # "Manifest" /\ UNCHANGED <<kind, doc>>
             /\ lapses' \in {lapses, lapses + 1}
    <2>1. lapses' \in Nat
        BY <1>2 DEF ObjectInv, Objects!ManifestInv
    <2>2. doc' = [w \in Callers |-> 0]
        BY <1>2 DEF ObjectInv, Objects!ManifestInv
    <2>3. \A w \in Callers : ~(doc'[w] > 0)
        BY <2>2
    <2> QED
        BY <1>2, <2>1, <2>2, <2>3 DEF ObjectInv, Objects!ManifestInv
  <1>3. CASE Objects!SetClients
    <2>1. kind # "Manifest" /\ UNCHANGED <<kind, doc, lapses>>
        BY <1>3 DEF Objects!SetClients, Objects!SetClient, Objects!On, Objects!apply,
           Objects!SetEventClient, Objects!SetPodClient, Objects!SetJobClient,
           Objects!SetConfigMapClient, Objects!SetDeploymentClient, Objects!SetSvcClient,
           Objects!SetServiceAccountClient, Objects!SetSecretClient, Objects!SetRoleClient,
           Objects!SetResourceQuotaClient, Objects!SetNamespaceClient, Objects!SetNodeClient,
           Objects!SetStorageClassClient, Objects!SetClusterRoleClient,
           Objects!SetClusterRoleBindingClient, Objects!SetCustomResourceDefinitionClient
    <2> QED
        BY <1>2, <1>3, <2>1, SetClientsKeep DEF ObjectInv
  <1>4. CASE Objects!ObjectRequests
    <2>1. PICK w \in Callers : Request(w)
        BY <1>4, OperationsAreRequests
    <2>2. UNCHANGED <<kind, doc>> /\ lapses' \in {lapses, lapses + 1}
        BY <2>1 DEF Request, Objects!Create, Objects!Get, Objects!List, Objects!Update,
           Objects!Patch, Objects!Delete, Objects!DeleteNamespace, Objects!Given, Objects!Refused,
           Objects!Write, Objects!Lapse, Objects!apply
    <2> QED
        BY <1>2, <1>4, <2>1, <2>2, RequestKeeps, OperationsAreRequests DEF ObjectInv
  <1>5. ASSUME NEW p \in Objects!Where, Objects!NamespaceController(p) PROVE ObjectInv'
    <2>1. kind # "Manifest" /\ UNCHANGED <<kind, doc, lapses>>
        BY <1>5 DEF Objects!NamespaceController, Objects!On, Objects!apply
    <2> QED
        BY <1>2, <1>5, <2>1, ControllerKeeps DEF ObjectInv
  <1> QED
      BY <1>1, <1>3, <1>4, <1>5 DEF Objects!Next

\* The account of a call that has returned says what is applied.
LEMMA ManifestFollows == ObjectInv => ManifestIsAPrefix
  <1> SUFFICES ASSUME ObjectInv, NEW w \in Callers, doc[w] > 0, answer[w] # "none"
               PROVE  /\ applied[w] \subseteq Objects!Documents(manifest[w], doc[w])
                      /\ w \in quiet =>
                             Objects!Documents(manifest[w], doc[w] - 1) \subseteq applied[w]
                      /\ answer[w] = "nil" <=> doc[w] > Len(manifest[w])
                      /\ \A d \in Objects!Documents(manifest[w], doc[w] - 1) : ~Objects!Unfit(d)
                      /\ answer[w] = "error" /\ lapses = 0 => Objects!Unfit(manifest[w][doc[w]])
      BY DEF ManifestIsAPrefix, Objects!ManifestIsAPrefix
  <1>1. Objects!Stands(w) /\ answer[w] \in {"nil", "error"} /\ doc[w] \in Nat
      BY DEF ObjectInv, StoreInv, Objects!TypeOK, Objects!ManifestInv
  <1>2. Len(manifest[w]) \in Nat
    <2>1. \A m \in Manifests \union {<<>>} : Len(m) \in Nat
        BY ManifestsAssumption
    <2> QED
        BY <2>1 DEF ObjectInv, StoreInv, Objects!TypeOK
  <1>3. answer[w] = "nil" <=> doc[w] > Len(manifest[w])
      BY <1>1, <1>2 DEF Objects!Stands
  <1>4. \A d \in Objects!Documents(manifest[w], doc[w] - 1) : ~Objects!Unfit(d)
      BY <1>1 DEF Objects!Stands, Objects!Unfit
  <1> QED
      BY <1>1, <1>3, <1>4 DEF Objects!Stands

\* The clients and manifests of a cluster, from its first state on.
LEMMA ObjectsAlways == Spec => []ObjectInv
  <1>1. Init => ObjectInv
    <2> SUFFICES ASSUME Objects!Init PROVE ObjectInv
        BY DEF Init
    <2>1. Objects!TypeOK
      <3>1. /\ Objects!Absent \in [rev : 0..1, changes : SUBSET (1..1), ending : BOOLEAN]
            /\ Objects!NoCopy \in [place : Objects!Where \union {"none"}, rev : 0..1,
                                   changes : SUBSET (1..1)]
          BY DEF Objects!Absent, Objects!NoCopy
      <3>2. /\ objects \in [Objects!Where ->
                   [rev : 0..1, changes : SUBSET (1..1), ending : BOOLEAN]]
            /\ copy \in [Callers -> [place : Objects!Where \union {"none"}, rev : 0..1,
                                     changes : SUBSET (1..1)]]
          BY <3>1 DEF Objects!Init
      <3> QED
          BY <3>2 DEF Objects!Init, Objects!TypeOK
    <2>2. Objects!ManifestInv
      <3>1. \A w \in Callers : ~(doc[w] > 0)
          BY DEF Objects!Init
      <3> QED
          BY <3>1 DEF Objects!Init, Objects!ManifestInv
    <2>3. Objects!CopyInv /\ NoLostUpdate
        BY DEF Objects!Init, Objects!CopyInv, NoLostUpdate, Objects!NoLostUpdate,
           Objects!Absent, Objects!NoCopy
    <2> QED
        BY <2>1, <2>2, <2>3 DEF ObjectInv, StoreInv
  <1>2. ObjectInv /\ [Next]_vars => ObjectInv'
    <2>1. ASSUME ObjectInv, UNCHANGED objectVars PROVE ObjectInv'
      <3>1. Objects!Where' = Objects!Where
          BY <2>1 DEF objectVars, Objects!Where
      <3> QED
          BY <2>1, <3>1 DEF ObjectInv, StoreInv, objectVars, Objects!TypeOK, Objects!CopyInv,
             NoLostUpdate, Objects!NoLostUpdate, Objects!ManifestInv, Objects!Stands,
             Objects!Documents, Objects!Unfit
    <2> QED
        BY <2>1, ObjectNext
           DEF Next, vars, LookupStep, RoleStep, StorageStep, ObjectStep, CronStep
  <1> QED
      BY <1>1, <1>2, PTL DEF Spec

\* No acknowledged change of an object is lost while the object exists, and none
\* turns up in another one, whoever rebinds the clients meanwhile.
THEOREM UpdatesAreNotLost == Spec => []NoLostUpdate
  <1>1. ObjectInv => NoLostUpdate
      BY DEF ObjectInv, StoreInv
  <1> QED
      BY <1>1, ObjectsAlways, PTL

\* A call of ApplyDynamicResource applies its documents from the front: nothing
\* behind the one at which it stopped, everything before it as long as nobody else
\* applies; it returns nil exactly behind the last, and stops with an error only
\* where a request failed or a document cannot be applied.
THEOREM ManifestsAreAppliedInOrder == Spec => []ManifestIsAPrefix
  BY ManifestFollows, ObjectsAlways, PTL
-----------------------------------------------------------------------------
(* The role bindings. *)

\* All that is known of one goroutine w.
Deleted(w) ==
    \A b \in gone[w] :
        /\ alone[w] = "yes" => Roles!Meant(w, b)
        /\ op[w] = "byName" => b.name = user[w]
        /\ op[w] = "bySubject" => \E a \in Bindings : user[w] \in a.subjects /\ a.name = b.name

Loop(w) ==
    /\ pc[w] # "idle" => op[w] # "none"
    /\ pc[w] # "idle" /\ op[w] = "byName" =>
        /\ listed[w] = {}
        /\ Roles!Done(w) >= 0
        /\ \A i \in 1..Len(spaces[w]) :
               spaces[w][i] = request[w][Len(request[w]) - Len(spaces[w]) + i]
        /\ pc[w] = "delete" =>
            /\ current[w].name = user[w]
            /\ current[w].space = request[w][Roles!Done(w) + 1]
    /\ pc[w] # "idle" /\ op[w] = "bySubject" =>
        /\ spaces[w] = <<>>
        /\ \A b \in listed[w] : user[w] \in b.subjects
        /\ pc[w] = "delete" => current[w] \in Bindings /\ user[w] \in current[w].subjects

Alone(w) ==
    alone[w] = "yes" => \A v \in Workers \ {w} : pc[v] = "idle"

Achieved(w) ==
    alone[w] = "yes" /\ pc[w] # "idle" =>
        /\ pc[w] = "delete" => client = current[w].space
        /\ op[w] = "byName" =>
            /\ {b.space : b \in gone[w]} = Roles!Handled(w)
            /\ \A b \in bindings : b.name = user[w] => b.space \notin Roles!Handled(w)
        /\ op[w] = "bySubject" =>
            \A b \in bindings : user[w] \in b.subjects /\ scope[w] \in {AllSpaces, b.space} =>
                b \in listed[w] \/ (pc[w] = "delete" /\ b = current[w])

Through(w) ==
    alone[w] = "yes" /\ ret[w] = "ok" =>
        \A b \in bindings :
            ~(Roles!Meant(w, b) /\ (op[w] = "bySubject" => scope[w] \in {AllSpaces, b.space}))

Prefix(w) ==
    alone[w] = "yes" /\ op[w] = "byName" =>
        \E n \in 0..Len(request[w]) :
            {b.space : b \in gone[w]} = {request[w][i] : i \in 1..n}

Account(w) == Loop(w) /\ Alone(w) /\ Achieved(w) /\ Deleted(w) /\ Through(w) /\ Prefix(w)

RoleInv == Roles!TypeOK /\ \A w \in Workers : Account(w)

\* The elements of the first n places of a sequence.
LEMMA PrefixSet ==
  ASSUME NEW S, NEW s \in Seq(S), NEW n \in 0..Len(s)
  PROVE  Roles!ToSet(SubSeq(s, 1, n)) = {s[i] : i \in 1..n}
  <1>1. /\ Len(SubSeq(s, 1, n)) = n /\ DOMAIN SubSeq(s, 1, n) = 1..n
        /\ \A i \in 1..n : SubSeq(s, 1, n)[i] = s[i]
      OBVIOUS
  <1> QED
      BY <1>1 DEF Roles!ToSet

\* Types of the sequences of namespaces.
LEMMA RequestTypes ==
  ASSUME Roles!TypeOK, NEW w \in Workers
  PROVE  /\ request[w] \in Seq(Spaces) /\ spaces[w] \in Seq(Spaces)
         /\ Len(request[w]) \in Nat /\ Len(spaces[w]) \in Nat
  <1>1. request[w] \in Seq(Spaces)
    <2>1. request[w] \in Requests \/ request[w] = <<>>
        BY DEF Roles!TypeOK
    <2>2. request[w] \in Requests => request[w] \in Seq(Spaces)
        BY RequestsAssumption
    <2>3. request[w] = <<>> => request[w] \in Seq(Spaces)
        OBVIOUS
    <2> QED
        BY <2>1, <2>2, <2>3
  <1>2. spaces[w] \in Seq(Spaces)
      BY DEF Roles!TypeOK
  <1> QED
      BY <1>1, <1>2

\* The parts of the invariant are those of the role bindings.
LEMMA RoleInvFollows ==
  RoleInv => DeletesOnlyMeant /\ OkMeansGone /\ DeletesAPrefix
  <1> SUFFICES ASSUME RoleInv PROVE DeletesOnlyMeant /\ OkMeansGone /\ DeletesAPrefix
      OBVIOUS
  <1>1. DeletesOnlyMeant
      BY DEF RoleInv, Account, Deleted, DeletesOnlyMeant, Roles!DeletesOnlyMeant
  <1>2. OkMeansGone
      BY DEF RoleInv, Account, Through, OkMeansGone, Roles!OkMeansGone
  <1>3. DeletesAPrefix
    <2> SUFFICES ASSUME NEW w \in Workers, alone[w] = "yes", op[w] = "byName"
                 PROVE  \E n \in 0..Len(request[w]) :
                           {b.space : b \in gone[w]} = Roles!ToSet(SubSeq(request[w], 1, n))
        BY DEF DeletesAPrefix, Roles!DeletesAPrefix
    <2>1. PICK n \in 0..Len(request[w]) :
              {b.space : b \in gone[w]} = {request[w][i] : i \in 1..n}
        BY DEF RoleInv, Account, Prefix
    <2>2. Roles!ToSet(SubSeq(request[w], 1, n)) = {request[w][i] : i \in 1..n}
        BY RequestTypes, PrefixSet DEF RoleInv
    <2> QED
        BY <2>1, <2>2
  <1> QED
      BY <1>1, <1>2, <1>3

\* A step of one goroutine leaves the account of another, which is not alone, as
\* it was.
LEMMA OthersKeepAccount ==
  ASSUME NEW v \in Workers, Loop(v), Deleted(v), alone'[v] # "yes",
         pc'[v] = pc[v], op'[v] = op[v], user'[v] = user[v], request'[v] = request[v],
         spaces'[v] = spaces[v], listed'[v] = listed[v], current'[v] = current[v],
         gone'[v] = gone[v]
  PROVE  Account(v)'
  <1>1. Loop(v)'
      BY DEF Loop, Roles!Done
  <1>2. Deleted(v)'
      BY DEF Deleted
  <1> QED
      BY <1>1, <1>2 DEF Account, Alone, Achieved, Through, Prefix
RoleAction(w) ==
    \/ \E s \in Spaces \union {AllSpaces} : Roles!SetRoleBindingClient(w, s)
    \/ \E b \in Bindings : Roles!CreateRoleBinding(w, b)
    \/ \E u \in Users :
        \/ \E r \in Requests : Roles!DeleteRoleBindings(w, u, r)
        \/ Roles!DeleteRoleBindingsIfTheServiceAccountIsIncluded(w, u)
        \/ Roles!ListFails(w, u)
    \/ Roles!RebindToSpace(w)
    \/ \E b \in listed[w] : Roles!RebindToBinding(w, b)
    \/ Roles!Delete(w) \/ Roles!RequestFails(w) \/ Roles!LoopEnd(w)

\* Every step of a goroutine keeps the types.
LEMMA RoleTypes ==
  ASSUME Roles!TypeOK, NEW w \in Workers, RoleAction(w)
  PROVE  Roles!TypeOK'
  <1> USE BoundAssumption DEF Roles!TypeOK, Roles!Ops
  <1>1. ASSUME NEW s \in Spaces \union {AllSpaces}, Roles!SetRoleBindingClient(w, s)
        PROVE  Roles!TypeOK'
      BY <1>1 DEF Roles!SetRoleBindingClient, Roles!locals
  <1>2. ASSUME NEW b \in Bindings, Roles!CreateRoleBinding(w, b) PROVE Roles!TypeOK'
    <2>1. /\ bindings' \in {bindings, bindings \union {b}}
          /\ ret' \in {[ret EXCEPT ![w] = "ok"], [ret EXCEPT ![w] = "error"]}
        BY <1>2 DEF Roles!CreateRoleBinding
    <2>2. bindings' \subseteq Bindings /\ ret' \in [Workers -> {"none", "ok", "error"}]
        BY <2>1
    <2> QED
        BY <1>2, <2>2 DEF Roles!CreateRoleBinding, Roles!Enter
  <1>3. ASSUME NEW u \in Users, NEW r \in Requests, Roles!DeleteRoleBindings(w, u, r)
        PROVE  Roles!TypeOK'
    <2>1. r \in Seq(Spaces)
        BY RequestsAssumption
    <2> QED
        BY <1>3, <2>1 DEF Roles!DeleteRoleBindings, Roles!Enter
  <1>4. ASSUME NEW u \in Users, Roles!DeleteRoleBindingsIfTheServiceAccountIsIncluded(w, u)
        PROVE  Roles!TypeOK'
    <2>1. <<>> \in Seq(Spaces) /\ Roles!Visible(client) \subseteq Bindings
        BY DEF Roles!Visible
    <2> QED
        BY <1>4, <2>1 DEF Roles!DeleteRoleBindingsIfTheServiceAccountIsIncluded, Roles!Enter
  <1>5. ASSUME NEW u \in Users, Roles!ListFails(w, u) PROVE Roles!TypeOK'
      BY <1>5 DEF Roles!ListFails, Roles!Enter, Roles!Return
  <1>6. CASE Roles!RebindToSpace(w)
    <2>1. spaces[w] \in Seq(Spaces) /\ Head(spaces[w]) \in Spaces /\ Tail(spaces[w]) \in Seq(Spaces)
        BY <1>6, RequestTypes DEF Roles!RebindToSpace
    <2> DEFINE c == [space |-> Head(spaces[w]), name |-> user[w], subjects |-> {}]
    <2>2. c \in [space : Spaces \union {AllSpaces}, name : Users \union {"none"}, subjects : {{}}]
        BY <2>1
    <2>3. current' = [current EXCEPT ![w] = c]
        BY <1>6 DEF Roles!RebindToSpace
    <2> HIDE DEF c
    <2>4. current' \in [Workers -> Bindings \union
             [space : Spaces \union {AllSpaces}, name : Users \union {"none"}, subjects : {{}}]]
        BY <2>2, <2>3
    <2> QED
        BY <1>6, <2>1, <2>4 DEF Roles!RebindToSpace
  <1>7. ASSUME NEW b \in listed[w], Roles!RebindToBinding(w, b) PROVE Roles!TypeOK'
      BY <1>7, BindingsAssumption DEF Roles!RebindToBinding
  <1>8. CASE Roles!Delete(w)
    <2>1. Roles!Hit(w) \subseteq Bindings
        BY DEF Roles!Hit
    <2>2. CASE /\ bindings' = bindings \ Roles!Hit(w)
               /\ gone' = [gone EXCEPT ![w] = @ \union Roles!Hit(w)]
               /\ pc' = [pc EXCEPT ![w] = "rebind"] /\ ret' = ret
      <3>1. gone' \in [Workers -> SUBSET Bindings] /\ bindings' \subseteq Bindings
          BY <2>1, <2>2
      <3>2. pc' \in [Workers -> {"idle", "rebind", "delete"}]
          BY <2>2
      <3> QED
          BY <1>8, <2>2, <3>1, <3>2 DEF Roles!Delete
    <2>3. CASE Roles!Return(w, "error") /\ UNCHANGED <<bindings, gone>>
      <3>1. /\ pc' \in [Workers -> {"idle", "rebind", "delete"}]
            /\ ret' \in [Workers -> {"none", "ok", "error"}]
          BY <2>3 DEF Roles!Return
      <3> QED
          BY <1>8, <2>3, <3>1 DEF Roles!Delete
    <2> QED
        BY <1>8, <2>2, <2>3 DEF Roles!Delete
  <1>9. CASE Roles!RequestFails(w)
      BY <1>9 DEF Roles!RequestFails, Roles!Hit, Roles!Return
  <1>10. CASE Roles!LoopEnd(w)
      BY <1>10 DEF Roles!LoopEnd, Roles!Return
  <1> QED
      BY <1>1, <1>2, <1>3, <1>4, <1>5, <1>6, <1>7, <1>8, <1>9, <1>10 DEF RoleAction

\* A step of w leaves the others alone, and after it none of them is alone.
LEMMA RoleFrame ==
  ASSUME RoleInv, NEW w \in Workers, RoleAction(w), NEW v \in Workers \ {w}
  PROVE  /\ alone'[v] # "yes"
         /\ pc'[v] = pc[v] /\ op'[v] = op[v] /\ user'[v] = user[v] /\ request'[v] = request[v]
         /\ spaces'[v] = spaces[v] /\ listed'[v] = listed[v] /\ current'[v] = current[v]
         /\ gone'[v] = gone[v]
  <1>1. /\ pc'[v] = pc[v] /\ op'[v] = op[v] /\ user'[v] = user[v] /\ request'[v] = request[v]
        /\ spaces'[v] = spaces[v] /\ listed'[v] = listed[v] /\ current'[v] = current[v]
        /\ gone'[v] = gone[v]
      BY DEF RoleInv, Roles!TypeOK, RoleAction, Roles!SetRoleBindingClient, Roles!locals,
         Roles!CreateRoleBinding, Roles!DeleteRoleBindings, Roles!ListFails, Roles!Return,
         Roles!DeleteRoleBindingsIfTheServiceAccountIsIncluded, Roles!RebindToSpace,
         Roles!RebindToBinding, Roles!Delete, Roles!RequestFails, Roles!LoopEnd
  <1>2. \/ alone'[v] = "no"
        \/ alone' = alone /\ pc[w] # "idle"
      BY DEF RoleInv, Roles!TypeOK, RoleAction, Roles!SetRoleBindingClient, Roles!Enter,
         Roles!CreateRoleBinding, Roles!DeleteRoleBindings, Roles!ListFails,
         Roles!DeleteRoleBindingsIfTheServiceAccountIsIncluded, Roles!RebindToSpace,
         Roles!RebindToBinding, Roles!Delete, Roles!RequestFails, Roles!LoopEnd
  <1>3. alone[v] = "yes" => pc[w] = "idle"
      BY DEF RoleInv, Account, Alone
  <1> QED
      BY <1>1, <1>2, <1>3

\* The beginning of a call, and a call that is over at once.
LEMMA CallsBegin ==
  ASSUME RoleInv, NEW w \in Workers,
         \/ \E s \in Spaces \union {AllSpaces} : Roles!SetRoleBindingClient(w, s)
         \/ \E b \in Bindings : Roles!CreateRoleBinding(w, b)
         \/ \E u \in Users :
             \/ \E r \in Requests : Roles!DeleteRoleBindings(w, u, r)
             \/ Roles!DeleteRoleBindingsIfTheServiceAccountIsIncluded(w, u)
             \/ Roles!ListFails(w, u)
  PROVE  Account(w)'
  <1>1. Account(w) /\ Roles!TypeOK
      BY DEF RoleInv
  <1>2. ASSUME NEW s \in Spaces \union {AllSpaces}, Roles!SetRoleBindingClient(w, s)
        PROVE  Account(w)'
    <2>1. /\ pc[w] = "idle" /\ alone'[w] = alone[w]
          /\ UNCHANGED <<bindings, pc, op, user, request, spaces, listed, current, scope, gone, ret>>
        BY <1>1, <1>2 DEF Roles!SetRoleBindingClient, Roles!locals, Roles!TypeOK
    <2>2. Loop(w)'
        BY <1>1, <2>1 DEF Account, Loop
    <2>3. Alone(w)'
        BY <1>1, <2>1 DEF Account, Alone
    <2>4. Achieved(w)'
        BY <2>1 DEF Achieved
    <2>5. Deleted(w)'
        BY <1>1, <2>1 DEF Account, Deleted, Roles!Meant
    <2>6. Through(w)'
        BY <1>1, <2>1 DEF Account, Through, Roles!Meant
    <2>7. Prefix(w)'
        BY <1>1, <2>1 DEF Account, Prefix
    <2> QED
        BY <2>2, <2>3, <2>4, <2>5, <2>6, <2>7 DEF Account
  <1>3. ASSUME NEW b \in Bindings, Roles!CreateRoleBinding(w, b)
        PROVE  Account(w)'
    <2>1. /\ pc[w] = "idle" /\ op'[w] = "none" /\ gone'[w] = {} /\ pc' = pc
          /\ alone'[w] = "yes" => \A u \in Workers \ {w} : pc[u] = "idle"
        BY <1>1, <1>3 DEF Roles!CreateRoleBinding, Roles!Enter, Roles!TypeOK
    <2> QED
        BY <1>1, <2>1 DEF Account, Loop, Alone, Achieved, Deleted, Through, Prefix, Roles!Meant
  <1>4. ASSUME NEW u \in Users, Roles!ListFails(w, u)
        PROVE  Account(w)'
    <2>1. /\ pc'[w] = "idle" /\ op'[w] = "bySubject" /\ gone'[w] = {} /\ ret'[w] = "error"
          /\ \A v \in Workers \ {w} : pc'[v] = pc[v]
          /\ alone'[w] = "yes" => \A v \in Workers \ {w} : pc[v] = "idle"
        BY <1>1, <1>4 DEF Roles!ListFails, Roles!Enter, Roles!Return, Roles!TypeOK
    <2> QED
        BY <1>1, <2>1 DEF Account, Loop, Alone, Achieved, Deleted, Through, Prefix, Roles!Meant
  <1>5. ASSUME NEW u \in Users, NEW r \in Requests, Roles!DeleteRoleBindings(w, u, r)
        PROVE  Account(w)'
    <2>1. /\ pc'[w] = "rebind" /\ op'[w] = "byName" /\ gone'[w] = {} /\ ret'[w] = "none"
          /\ request'[w] = r /\ spaces'[w] = r /\ listed'[w] = {}
          /\ \A v \in Workers \ {w} : pc'[v] = pc[v]
          /\ alone'[w] = "yes" => \A v \in Workers \ {w} : pc[v] = "idle"
        BY <1>1, <1>5 DEF Roles!DeleteRoleBindings, Roles!Enter, Roles!TypeOK
    <2>2. Len(r) \in Nat
        BY RequestsAssumption
    <2>3. Roles!Done(w)' = 0
        BY <2>1, <2>2 DEF Roles!Done
    <2>4. Roles!Handled(w)' = {}
        BY <2>3 DEF Roles!Handled
    <2>5. Prefix(w)'
        BY <2>1, <2>2 DEF Prefix
    <2> QED
        BY <1>1, <2>1, <2>2, <2>3, <2>4, <2>5 DEF Account, Loop, Alone, Achieved, Deleted, Through
  <1>6. ASSUME NEW u \in Users, Roles!DeleteRoleBindingsIfTheServiceAccountIsIncluded(w, u)
        PROVE  Account(w)'
    <2>1. /\ pc'[w] = "rebind" /\ op'[w] = "bySubject" /\ gone'[w] = {} /\ ret'[w] = "none"
          /\ spaces'[w] = <<>> /\ bindings' = bindings /\ scope'[w] = client /\ user'[w] = u
          /\ listed'[w] = {b \in bindings : client \in {AllSpaces, b.space} /\ u \in b.subjects}
          /\ \A v \in Workers \ {w} : pc'[v] = pc[v]
          /\ alone'[w] = "yes" => \A v \in Workers \ {w} : pc[v] = "idle"
        BY <1>1, <1>6 DEF Roles!DeleteRoleBindingsIfTheServiceAccountIsIncluded, Roles!Enter,
           Roles!TypeOK, Roles!Visible, Roles!IsBoundServiceAccount
    <2> QED
        BY <1>1, <2>1 DEF Account, Loop, Alone, Achieved, Deleted, Through, Prefix
  <1> QED
      BY <1>2, <1>3, <1>4, <1>5, <1>6
\* The prefix that is deleted stays while the call deletes nothing.
LEMMA PrefixStays ==
  ASSUME NEW w \in Workers, Prefix(w), alone'[w] = alone[w], op'[w] = op[w],
         request'[w] = request[w], gone'[w] = gone[w]
  PROVE  Prefix(w)'
  <1> SUFFICES ASSUME alone[w] = "yes", op[w] = "byName"
               PROVE  \E n \in 0..Len(request'[w]) :
                         {b.space : b \in gone'[w]} = {request'[w][i] : i \in 1..n}
      BY DEF Prefix
  <1>1. PICK n \in 0..Len(request[w]) :
            {b.space : b \in gone[w]} = {request[w][i] : i \in 1..n}
      BY DEF Prefix
  <1>2. n \in 0..Len(request'[w])
      BY <1>1, Zenon
  <1>3. {b.space : b \in gone'[w]} = {request'[w][i] : i \in 1..n}
      BY <1>1
  <1> QED
      BY <1>2, <1>3

\* The steps of a loop that delete nothing: the client is bound, the loop ends,
\* or a request fails.
LEMMA LoopsGoOn ==
  ASSUME RoleInv, NEW w \in Workers,
         \/ Roles!RebindToSpace(w) \/ \E b \in listed[w] : Roles!RebindToBinding(w, b)
         \/ Roles!RequestFails(w) \/ Roles!LoopEnd(w)
         \/ Roles!Delete(w) /\ Roles!Hit(w) = {}
  PROVE  Account(w)'
  <1>1. Account(w) /\ Roles!TypeOK
      BY DEF RoleInv
  <1>2. /\ request[w] \in Seq(Spaces) /\ spaces[w] \in Seq(Spaces)
        /\ Len(request[w]) \in Nat /\ Len(spaces[w]) \in Nat
      BY <1>1, RequestTypes
  <1>3. CASE Roles!RebindToSpace(w)
    <2>1. /\ pc[w] = "rebind" /\ pc'[w] = "delete" /\ op[w] = "byName"
          /\ client' = Head(spaces[w]) /\ current'[w].space = Head(spaces[w])
          /\ current'[w].name = user[w]
          /\ spaces[w] # <<>> /\ spaces'[w] = Tail(spaces[w])
          /\ UNCHANGED <<bindings, op, user, request, listed, scope, gone, ret, alone>>
          /\ \A v \in Workers \ {w} : pc'[v] = pc[v]
        BY <1>1, <1>3 DEF Roles!RebindToSpace, Roles!TypeOK
    <2>2. PICK r, s, t :
              /\ r \in Seq(Spaces) /\ s \in Seq(Spaces)
              /\ r = request[w] /\ s = spaces[w] /\ t = spaces'[w]
        BY <1>2
    <2>3. /\ Roles!Done(w)' = Roles!Done(w)
          /\ Roles!Done(w) = Len(r) - Len(s)
          /\ t = Tail(s) /\ Head(s) = s[1] /\ s # <<>>
      <3>1. Roles!Done(w) = Len(r) - Len(s) - 0
          BY <2>1, <2>2, Zenon DEF Roles!Done
      <3>2. Roles!Done(w)' = Len(r) - Len(t) - 1
          BY <2>1, <2>2, Zenon DEF Roles!Done
      <3>3. t = Tail(s) /\ s # <<>>
          BY <2>1, <2>2
      <3>4. Len(t) = Len(s) - 1 /\ Len(r) \in Nat /\ Len(s) \in Nat /\ Head(s) = s[1]
          BY <3>3
      <3>5. Len(r) - Len(t) - 1 = Len(r) - Len(s) - 0 /\ Len(r) - Len(s) - 0 = Len(r) - Len(s)
          BY <3>4
      <3> QED
          BY <3>1, <3>2, <3>3, <3>4, <3>5, Zenon
    <2>4. Loop(w)'
      <3>1. /\ listed[w] = {} /\ Roles!Done(w) >= 0
            /\ \A i \in 1..Len(s) : s[i] = r[Len(r) - Len(s) + i]
          BY <1>1, <2>1, <2>2, Zenon DEF Account, Loop
      <3>2. /\ Head(s) = r[Len(r) - Len(s) + 1]
            /\ \A i \in 1..Len(t) : t[i] = r[Len(r) - Len(t) + i]
        <4>1. /\ Len(r) \in Nat /\ Len(s) \in Nat /\ Len(t) = Len(s) - 1 /\ 1 \in 1..Len(s)
              /\ \A i \in 1..Len(t) : t[i] = s[i + 1]
            BY <2>3
        <4>2. Head(s) = r[Len(r) - Len(s) + 1]
            BY <2>3, <3>1, <4>1
        <4>3. ASSUME NEW i \in 1..Len(t) PROVE t[i] = r[Len(r) - Len(t) + i]
          <5>1. i + 1 \in 1..Len(s) /\ Len(r) - Len(s) + (i + 1) = Len(r) - Len(t) + i
              BY <4>1
          <5> QED
              BY <3>1, <4>1, <5>1
        <4> QED
            BY <4>2, <4>3
      <3>3. current'[w].space = request[w][Roles!Done(w) + 1]
          BY <2>1, <2>2, <2>3, <3>2, Zenon
      <3>4. /\ listed'[w] = {} /\ Roles!Done(w)' >= 0
            /\ \A i \in 1..Len(spaces'[w]) :
                   spaces'[w][i] = request'[w][Len(request'[w]) - Len(spaces'[w]) + i]
            /\ current'[w].name = user'[w] /\ current'[w].space = request'[w][Roles!Done(w)' + 1]
          BY <2>1, <2>2, <2>3, <3>1, <3>2, <3>3, Zenon
      <3> QED
          BY <2>1, <3>4, Zenon DEF Loop
    <2>5. Roles!Handled(w)' = Roles!Handled(w)
        BY <2>1, <2>3 DEF Roles!Handled
    <2>6. Achieved(w)'
        BY <1>1, <2>1, <2>5 DEF Account, Achieved
    <2>7. Prefix(w)'
        BY <1>1, <2>1, PrefixStays DEF Account
    <2>8. Alone(w)' /\ Deleted(w)' /\ Through(w)'
        BY <1>1, <2>1 DEF Account, Alone, Deleted, Through, Roles!Meant
    <2> QED
        BY <2>4, <2>6, <2>7, <2>8 DEF Account
  <1>4. ASSUME NEW b \in listed[w], Roles!RebindToBinding(w, b) PROVE Account(w)'
    <2>1. /\ pc[w] = "rebind" /\ pc'[w] = "delete" /\ client' = b.space
          /\ current'[w] = b /\ listed'[w] = listed[w] \ {b} /\ b \in Bindings
          /\ UNCHANGED <<bindings, op, user, request, spaces, scope, gone, ret, alone>>
          /\ \A v \in Workers \ {w} : pc'[v] = pc[v]
        BY <1>1, <1>4 DEF Roles!RebindToBinding, Roles!TypeOK
    <2>2. op[w] = "bySubject"
        BY <1>1, <1>4, <2>1 DEF Account, Loop, Roles!TypeOK, Roles!Ops
    <2>3. Loop(w)'
        BY <1>1, <1>4, <2>1, <2>2 DEF Account, Loop
    <2>4. Achieved(w)'
        BY <1>1, <2>1, <2>2 DEF Account, Achieved
    <2> QED
        BY <1>1, <2>1, <2>2, <2>3, <2>4 DEF Account, Alone, Deleted, Through, Prefix, Roles!Meant
  <1>5. CASE Roles!RequestFails(w) \/ (Roles!Delete(w) /\ Roles!Hit(w) = {})
    <2>1. /\ pc'[w] = "idle" /\ ret'[w] = "error"
          /\ UNCHANGED <<op, user, request, spaces, listed, current, scope, gone, alone>>
          /\ \A v \in Workers \ {w} : pc'[v] = pc[v]
        BY <1>1, <1>5 DEF Roles!RequestFails, Roles!Delete, Roles!Return, Roles!TypeOK
    <2>2. Prefix(w)'
        BY <1>1, <2>1, PrefixStays DEF Account
    <2> QED
        BY <1>1, <2>1, <2>2 DEF Account, Loop, Alone, Achieved, Deleted, Through, Roles!Meant
  <1>6. CASE Roles!LoopEnd(w)
    <2>1. /\ pc[w] = "rebind" /\ spaces[w] = <<>> /\ listed[w] = {}
          /\ pc'[w] = "idle" /\ ret'[w] = "ok"
          /\ UNCHANGED <<bindings, client, op, user, request, spaces, listed, current, scope, gone, alone>>
          /\ \A v \in Workers \ {w} : pc'[v] = pc[v]
        BY <1>1, <1>6 DEF Roles!LoopEnd, Roles!Return, Roles!TypeOK
    <2>2. Through(w)'
      <3> SUFFICES ASSUME alone[w] = "yes", NEW b \in bindings, Roles!Meant(w, b),
                          op[w] = "bySubject" => scope[w] \in {AllSpaces, b.space}
                   PROVE  FALSE
          BY <2>1 DEF Through, Roles!Meant
      <3>1. CASE op[w] = "byName"
        <4>1. Roles!Done(w) = Len(request[w])
            BY <1>2, <2>1 DEF Roles!Done
        <4>2. b.space \in Roles!Handled(w)
            BY <1>2, <3>1, <4>1 DEF Roles!Meant, Roles!Handled, Roles!ToSet
        <4> QED
            BY <1>1, <2>1, <3>1, <4>2 DEF Account, Achieved, Roles!Meant
      <3>2. CASE op[w] = "bySubject"
          BY <1>1, <2>1, <3>2 DEF Account, Achieved, Roles!Meant
      <3> QED
          BY <3>1, <3>2 DEF Roles!Meant
    <2>3. Prefix(w)'
        BY <1>1, <2>1, PrefixStays DEF Account
    <2> QED
        BY <1>1, <2>1, <2>2, <2>3 DEF Account, Loop, Alone, Achieved, Deleted, Roles!Meant
  <1> QED
      BY <1>3, <1>4, <1>5, <1>6

\* A Delete that finds a binding.  A goroutine that is alone finds the one it
\* bound the client for.
LEMMA DeletesKeepAccount ==
  ASSUME RoleInv, NEW w \in Workers, Roles!Delete(w), Roles!Hit(w) # {}
  PROVE  Account(w)'
  <1> DEFINE H == Roles!Hit(w)
  <1>1. Account(w) /\ Roles!TypeOK
      BY DEF RoleInv
  <1>2. /\ request[w] \in Seq(Spaces) /\ spaces[w] \in Seq(Spaces)
        /\ Len(request[w]) \in Nat /\ Len(spaces[w]) \in Nat
      BY <1>1, RequestTypes
  <1>3. /\ pc[w] = "delete" /\ pc'[w] = "rebind"
        /\ bindings' = bindings \ H /\ gone'[w] = gone[w] \union H
        /\ UNCHANGED <<client, op, user, request, spaces, listed, current, scope, ret, alone>>
        /\ \A v \in Workers \ {w} : pc'[v] = pc[v]
      BY <1>1 DEF Roles!Delete, Roles!TypeOK, Roles!Return
  <1>4. /\ H \subseteq Bindings
        /\ \A b \in H : b.space = client /\ b.name = current[w].name
        /\ \A b \in bindings : b.space = client /\ b.name = current[w].name => b \in H
      BY <1>1 DEF Roles!Hit, Roles!TypeOK
  <1> HIDE DEF H
  <1>5. Alone(w)'
      BY <1>1, <1>3 DEF Account, Alone
  <1>6. CASE op[w] = "byName"
    <2>1. /\ listed[w] = {} /\ Roles!Done(w) >= 0
          /\ \A i \in 1..Len(spaces[w]) :
                 spaces[w][i] = request[w][Len(request[w]) - Len(spaces[w]) + i]
          /\ current[w].name = user[w] /\ current[w].space = request[w][Roles!Done(w) + 1]
        BY <1>1, <1>3, <1>6 DEF Account, Loop
    <2>2. PICK r \in Seq(Spaces), s \in Seq(Spaces) : r = request[w] /\ s = spaces[w]
        BY <1>2
    <2>3. PICK d \in Nat : /\ Roles!Done(w) = d /\ Roles!Done(w)' = d + 1
                          /\ d + 1 \in 1..Len(r)
      <3>1. Roles!Done(w) = Len(r) - Len(s) - 1
          BY <1>3, <2>2, Zenon DEF Roles!Done
      <3>2. Roles!Done(w)' = Len(r) - Len(s) - 0
          BY <1>3, <2>2, Zenon DEF Roles!Done
      <3>3. Len(r) - Len(s) - 1 >= 0
          BY <2>1, <3>1, Zenon
      <3>4. PICK a \in Nat, b \in Nat : a = Len(r) /\ b = Len(s)
          OBVIOUS
      <3>5. a - b - 1 \in Nat /\ a - b - 0 = (a - b - 1) + 1 /\ (a - b - 1) + 1 \in 1..a
        <4>1. a - b - 1 >= 0
            BY <3>3, <3>4, Zenon
        <4> QED
            BY <4>1
      <3> QED
          BY <3>1, <3>2, <3>4, <3>5, Zenon
    <2>4. Loop(w)'
      <3>1. Roles!Done(w)' >= 0
          BY <2>3
      <3> QED
          BY <1>3, <1>6, <2>1, <3>1, Zenon DEF Loop
    <2>5. Roles!Handled(w)' = Roles!Handled(w) \union {current[w].space}
      <3>1. Roles!Handled(w) = {r[i] : i \in 1..d} /\ current[w].space = r[d + 1]
          BY <2>1, <2>2, <2>3, Zenon DEF Roles!Handled
      <3>2. Roles!Handled(w)' = {r[i] : i \in 1..d + 1}
          BY <1>3, <2>2, <2>3, Zenon DEF Roles!Handled
      <3>3. \A i : i \in 1..d + 1 <=> i \in 1..d \/ i = d + 1
          OBVIOUS
      <3> QED
          BY <3>1, <3>2, <3>3
    <2>6. ASSUME alone[w] = "yes" PROVE
          /\ client = current[w].space
          /\ {b.space : b \in gone[w]} = Roles!Handled(w)
          /\ \A b \in bindings : b.name = user[w] => b.space \notin Roles!Handled(w)
        BY <1>1, <1>3, <1>6, <2>6 DEF Account, Achieved
    <2>7. alone[w] = "yes" => {b.space : b \in gone'[w]} = Roles!Handled(w)'
        BY <1>3, <1>4, <2>5, <2>6 DEF H
    <2>8. Achieved(w)'
        BY <1>3, <1>4, <1>6, <2>1, <2>5, <2>6, <2>7 DEF Achieved
    <2>9. Deleted(w)'
      <3>1. \A b \in H : b.name = user[w] /\ (alone[w] = "yes" => Roles!Meant(w, b))
        <4>1. request[w][d + 1] \in Roles!ToSet(request[w])
            BY <2>2, <2>3 DEF Roles!ToSet
        <4>2. current[w].space = request[w][d + 1]
            BY <2>1, <2>3, Zenon
        <4> QED
            BY <1>4, <1>6, <2>1, <2>6, <4>1, <4>2, Zenon DEF Roles!Meant
      <3> QED
          BY <1>1, <1>3, <1>6, <3>1 DEF Account, Deleted, Roles!Meant
    <2>10. Prefix(w)'
      <3>1. Roles!Handled(w)' = {request'[w][i] : i \in 1..d + 1}
          BY <2>3, Zenon DEF Roles!Handled
      <3>2. d + 1 \in 0..Len(r)
          BY <2>3
      <3>3. r = request'[w]
          BY <1>3, <2>2
      <3> QED
          BY <1>3, <2>7, <3>1, <3>2, <3>3, Zenon DEF Prefix
    <2>11. Through(w)'
        BY <1>1, <1>3 DEF Account, Through, Roles!Meant
    <2> QED
        BY <1>5, <2>4, <2>8, <2>9, <2>10, <2>11 DEF Account
  <1>7. CASE op[w] = "bySubject"
    <2>1. /\ spaces[w] = <<>> /\ \A b \in listed[w] : user[w] \in b.subjects
          /\ current[w] \in Bindings /\ user[w] \in current[w].subjects
        BY <1>1, <1>3, <1>7 DEF Account, Loop
    <2>2. Loop(w)'
        BY <1>3, <1>7, <2>1 DEF Loop
    <2>3. Achieved(w)'
        BY <1>1, <1>3, <1>4, <1>7 DEF Account, Achieved
    <2>4. alone[w] = "yes" => client = current[w].space
        BY <1>1, <1>3 DEF Account, Achieved
    <2>5. alone[w] = "yes" => \A b \in H : b = current[w]
        BY <1>4, <2>1, <2>4, BindingsAssumption
    <2>6. Deleted(w)'
        BY <1>1, <1>3, <1>4, <1>7, <2>1, <2>5 DEF Account, Deleted, Roles!Meant
    <2>7. Through(w)' /\ Prefix(w)'
        BY <1>1, <1>3, <1>7 DEF Account, Through, Prefix, Roles!Meant
    <2> QED
        BY <1>5, <2>2, <2>3, <2>6, <2>7 DEF Account
  <1> QED
      BY <1>1, <1>3, <1>6, <1>7 DEF Account, Loop, Roles!TypeOK, Roles!Ops

\* Every step of a goroutine keeps the account of all of them.
LEMMA RoleNext == RoleInv /\ Roles!Next => RoleInv'
  <1> SUFFICES ASSUME RoleInv, Roles!Next PROVE RoleInv'
      OBVIOUS
  <1>1. PICK w \in Workers : RoleAction(w)
      BY DEF Roles!Next, RoleAction
  <1>2. Roles!TypeOK'
      BY <1>1, RoleTypes DEF RoleInv
  <1>3. Account(w)'
      BY <1>1, CallsBegin, LoopsGoOn, DeletesKeepAccount DEF RoleAction
  <1>4. ASSUME NEW v \in Workers \ {w} PROVE Account(v)'
    <2>1. Loop(v) /\ Deleted(v)
        BY DEF RoleInv, Account
    <2> QED
        BY <1>1, <2>1, RoleFrame, OthersKeepAccount
  <1> QED
      BY <1>2, <1>3, <1>4 DEF RoleInv

\* The calls on role bindings, from the first state on.
LEMMA RolesAlways == Spec => []RoleInv
  <1>1. Init => RoleInv
    <2> SUFFICES ASSUME Roles!Init PROVE RoleInv
        BY DEF Init
    <2>1. Roles!TypeOK
      <3>1. /\ <<>> \in Seq(Spaces)
            /\ Roles!NoBinding \in
                 [space : Spaces \union {AllSpaces}, name : Users \union {"none"}, subjects : {{}}]
          BY DEF Roles!NoBinding
      <3> QED
          BY <3>1 DEF Roles!Init, Roles!TypeOK, Roles!Ops
    <2>2. \A w \in Workers : Account(w)
        BY DEF Roles!Init, Account, Loop, Alone, Achieved, Deleted, Through, Prefix
    <2> QED
        BY <2>1, <2>2 DEF RoleInv
  <1>2. RoleInv /\ [Next]_vars => RoleInv'
    <2>1. ASSUME RoleInv, UNCHANGED roleVars PROVE RoleInv'
      <3>1. Roles!TypeOK'
          BY <2>1 DEF RoleInv, roleVars, Roles!TypeOK
      <3>2. ASSUME NEW w \in Workers PROVE Account(w)'
        <4>1. Account(w)
            BY <2>1 DEF RoleInv
        <4>2. /\ bindings' = bindings /\ client' = client /\ pc' = pc /\ op' = op /\ user' = user
              /\ request' = request /\ spaces' = spaces /\ listed' = listed /\ current' = current
              /\ scope' = scope /\ gone' = gone /\ alone' = alone /\ ret' = ret
            BY <2>1 DEF roleVars
        <4>3. Roles!Done(w)' = Roles!Done(w)
            BY <4>2, Zenon DEF Roles!Done
        <4>4. Loop(w)' /\ Alone(w)' /\ Deleted(w)' /\ Through(w)'
            BY <4>1, <4>2, <4>3, Zenon DEF Account, Loop, Alone, Deleted, Through, Roles!Meant
        <4>5. Roles!Handled(w)' = Roles!Handled(w)
            BY <4>2, <4>3, Zenon DEF Roles!Handled
        <4>6. Achieved(w)' /\ Prefix(w)'
            BY <4>1, <4>2, <4>5, PrefixStays DEF Account, Achieved
        <4> QED
            BY <4>4, <4>6 DEF Account
      <3> QED
          BY <3>1, <3>2 DEF RoleInv
    <2> QED
        BY <2>1, RoleNext
           DEF Next, vars, LookupStep, RoleStep, StorageStep, ObjectStep, CronStep
  <1> QED
      BY <1>1, <1>2, PTL DEF Spec

\* A goroutine that has the helper to itself deletes only the bindings it was
\* asked to; one that shares it, only bindings that bear a name it was after.
THEOREM OnlyMeantIsDeleted == Spec => []DeletesOnlyMeant
  BY RoleInvFollows, RolesAlways, PTL

\* A call that returned nil, and had the helper to itself, has left none of the
\* bindings it was to delete; by subject, none that its List could show.
THEOREM OkLeavesNothing == Spec => []OkMeansGone
  BY RoleInvFollows, RolesAlways, PTL

\* What DeleteRoleBindings has deleted is, at any time, a prefix of its list.
THEOREM DeletionsAreAPrefix == Spec => []DeletesAPrefix
  BY RoleInvFollows, RolesAlways, PTL

-----------------------------------------------------------------------------
(* The lease of RunLeaseCron, for any number of replicas, lost answers,     *)
(* crashes and cancellations: with prompt answers there is one leader at    *)
(* most, and a schedule that runs without leading outlived its term.        *)

\* The steps of the lease, as those of LeaseCron.
LEMMA CronSteps == [Next]_vars => [Cron!Next]_(Cron!vars)
  <1>1. UNCHANGED leaseVars => UNCHANGED Cron!vars
      BY DEF leaseVars, Cron!vars, Cron!local, Cron!updates
  <1> QED
      BY <1>1 DEF Next, vars, LookupStep, RoleStep, StorageStep, ObjectStep, CronStep

\* Every action keeps the types: ages stop at the lease duration, and there is
\* no difference between two schedules of a replica and more.
LEMMA CronTypeStep == Cron!TypeOK /\ [Cron!Next]_(Cron!vars) => Cron!TypeOK'
  <1> SUFFICES ASSUME Cron!TypeOK, [Cron!Next]_(Cron!vars) PROVE Cron!TypeOK'
      OBVIOUS
  <1> USE LeaseAssumption DEF Cron!TypeOK, Cron!local, Cron!updates, Cron!LeaseDuration, Cron!Slow
  <1>1. ASSUME NEW r \in Replicas, Cron!SetLeaseClient(r) PROVE Cron!TypeOK'
      BY <1>1 DEF Cron!SetLeaseClient
  <1>2. ASSUME NEW r \in Replicas, Cron!SetLeaseCron(r) PROVE Cron!TypeOK'
      BY <1>2 DEF Cron!SetLeaseCron
  <1>3. ASSUME NEW r \in Replicas, Cron!RunLeaseCron(r) PROVE Cron!TypeOK'
      BY <1>3 DEF Cron!RunLeaseCron
  <1>4. ASSUME NEW r \in Replicas, Cron!Observe(r) PROVE Cron!TypeOK'
      BY <1>4 DEF Cron!Observe
  <1>5. ASSUME NEW r \in Replicas, Cron!Request(r) PROVE Cron!TypeOK'
      BY <1>5 DEF Cron!Request
  <1>6. ASSUME NEW h \in Replicas \union {Nobody}, Cron!Becomes(h)
        PROVE  /\ holder' \in Replicas \union {Nobody}
               /\ unseen' \subseteq Replicas
               /\ age' \in [Replicas -> 0..Cron!LeaseDuration]
               /\ {sent', strays'} \subseteq SUBSET Replicas
      BY <1>6 DEF Cron!Becomes
  <1>7. ASSUME NEW r \in Replicas, Cron!Land(r) PROVE Cron!TypeOK'
      BY <1>6, <1>7 DEF Cron!Land
  <1>8. ASSUME NEW r \in Replicas, Cron!Answered(r) PROVE Cron!TypeOK'
      BY <1>8 DEF Cron!Answered
  <1>9. ASSUME NEW r \in Replicas, Cron!RequestFails(r) PROVE Cron!TypeOK'
      BY <1>9 DEF Cron!RequestFails, Cron!Abandon
  <1>10. ASSUME NEW r \in Replicas, Cron!LandLate(r) PROVE Cron!TypeOK'
      BY <1>6, <1>10 DEF Cron!LandLate
  <1>11. ASSUME NEW r \in Replicas, Cron!OnStartedLeading(r) PROVE Cron!TypeOK'
      BY <1>11 DEF Cron!OnStartedLeading
  <1>12. ASSUME NEW r \in Replicas, Cron!RunEnds(r)
         PROVE  /\ holder' \in Replicas \union {Nobody}
                /\ unseen' \subseteq Replicas
                /\ age' \in [Replicas -> 0..Cron!LeaseDuration]
                /\ {sent', made', strays'} \subseteq SUBSET Replicas
                /\ delay' \in [Replicas -> 0..Cron!Slow]
      BY <1>12 DEF Cron!RunEnds, Cron!Abandon
  <1>13. ASSUME NEW r \in Replicas, Cron!OnStoppedLeading(r), stops' \in 0..MaxStops
         PROVE  Cron!TypeOK'
    <2>1. /\ set' = set /\ spawned' = spawned /\ schedules' = schedules /\ lost' = lost
          /\ stage' = [stage EXCEPT ![r] = "idle"] /\ deposed' = deposed \union {r}
        BY <1>13 DEF Cron!OnStoppedLeading
    <2>2. CASE Cron!RunEnds(r)
        BY <1>12, <1>13, <2>1, <2>2
    <2>3. CASE Cron!Becomes(Nobody) /\ made' = made \ {r} /\ delay' = [delay EXCEPT ![r] = 0]
        BY <1>6, <1>13, <2>1, <2>3
    <2> QED
        BY <1>13, <2>2, <2>3 DEF Cron!OnStoppedLeading
  <1>14. ASSUME NEW r \in Replicas, Cron!RenewFails(r) PROVE Cron!TypeOK'
      BY <1>13, <1>14 DEF Cron!RenewFails
  <1>15. ASSUME NEW r \in Replicas, Cron!Cancel(r) PROVE Cron!TypeOK'
    <2>1. stops' \in 0..MaxStops
        BY <1>15 DEF Cron!Cancel
    <2>2. CASE Cron!OnStoppedLeading(r)
        BY <1>13, <2>1, <2>2
    <2>3. CASE ~Cron!OnStoppedLeading(r)
        BY <1>12, <1>15, <2>1, <2>3 DEF Cron!Cancel
    <2> QED
        BY <2>2, <2>3
  <1>16. ASSUME NEW r \in Replicas, Cron!Crash(r) PROVE Cron!TypeOK'
      BY <1>12, <1>16 DEF Cron!Crash
  <1>17. ASSUME NEW r \in Replicas, Cron!Restart(r) PROVE Cron!TypeOK'
      BY <1>17 DEF Cron!Restart
  <1>18. CASE Cron!Tick
      BY <1>18 DEF Cron!Tick
  <1>19. CASE UNCHANGED Cron!vars
      BY <1>19 DEF Cron!vars
  <1> QED
      BY <1>1, <1>2, <1>3, <1>4, <1>5, <1>7, <1>8, <1>9, <1>10, <1>11, <1>14, <1>15,
         <1>16, <1>17, <1>18, <1>19 DEF Cron!Next

\* The variables keep their types.
THEOREM CronTypes == Spec => []Cron!TypeOK
  <1>1. Init => Cron!TypeOK
      BY LeaseAssumption DEF Init, Cron!Init, Cron!TypeOK, Cron!LeaseDuration, Cron!Slow
  <1>2. Cron!TypeOK /\ [Next]_vars => Cron!TypeOK'
      BY CronSteps, CronTypeStep
  <1> QED
      BY <1>1, <1>2, PTL DEF Spec

-----------------------------------------------------------------------------

\* What the invariant says of a replica that leads or waits for its answer.
Secure(r) == (stage[r] = "lead" \/ r \in made) /\ delay[r] < Cron!Slow

\* While a replica holds the lease, nobody else may take it: the others have
\* watched it for five retry periods at most, and the lease lasts six.
LEMMA LeaderBlocks ==
  ASSUME Cron!TypeOK, Cron!LeaseInv, NEW r \in Replicas, Secure(r),
         NEW q \in Replicas, stage[q] \in {"acquire", "lead"}, Cron!MayTake(q)
  PROVE  q = r
  <1>1. Cron!Holds(r) /\ holder = r
      BY DEF Cron!LeaseInv, Secure, Cron!Holds
  <1>2. SUFFICES ASSUME q # r PROVE FALSE
      OBVIOUS
  <1>3. holder # Nobody
      BY <1>1, LeaseAssumption
  <1>4. q \notin unseen /\ age[q] = 6
      BY <1>1, <1>2, <1>3 DEF Cron!MayTake, Cron!LeaseDuration
  <1>5. stage[q] = "acquire"
      BY <1>4 DEF Cron!LeaseInv, Cron!TermEnds, Cron!RetryPeriod, Cron!RenewDeadline
  <1>6. age[q] <= Cron!Watched(r)
      BY <1>1, <1>2, <1>4, <1>5 DEF Cron!Holds
  <1>7. delay[r] \in 0..1 /\ age[r] \in Nat /\ (r \notin made => age[r] <= 4)
      BY DEF Cron!TypeOK, Secure, Cron!LeaseInv, Cron!Slow, Cron!TermEnds, Cron!RetryPeriod,
             Cron!RenewDeadline, Cron!LeaseDuration
  <1>8. Cron!Watched(r) <= 5
      BY <1>7 DEF Cron!Watched
  <1>9. Cron!Watched(r) \in Nat
      BY <1>7 DEF Cron!Watched
  <1> QED
      BY <1>4, <1>6, <1>8, <1>9

\* An update that would overwrite the lease is the holder's own.
LEMMA OnlyHoldersUpdates ==
  ASSUME Cron!LeaseInv, NEW r \in Replicas, Secure(r), NEW q \in sent \union strays
  PROVE  q = r
  BY DEF Cron!LeaseInv, Secure, Cron!Holds

\* Every action keeps the clocks: a leader gives up in time, and only a candidate
\* or a leader waits for an answer.
LEMMA ClockStep ==
  ASSUME Cron!TypeOK, Cron!LeaseInv, [Cron!Next]_(Cron!vars)
  PROVE  /\ \A r \in Replicas : stage'[r] = "lead" => age'[r] <= Cron!TermEnds
         /\ \A r \in sent' \union made' : stage'[r] \in {"acquire", "lead"}
  <1> DEFINE Clocks == /\ \A r \in Replicas : stage'[r] = "lead" => age'[r] <= 4
                       /\ \A r \in sent' \union made' : stage'[r] \in {"acquire", "lead"}
  <1>0. Cron!TermEnds = 4
      BY DEF Cron!TermEnds, Cron!RetryPeriod, Cron!RenewDeadline
  <1>a. /\ age \in [Replicas -> 0..6] /\ stage \in [Replicas -> {"down", "idle", "acquire", "lead", "panic"}]
        /\ sent \subseteq Replicas /\ made \subseteq Replicas
        /\ \A r \in Replicas : stage[r] = "lead" => age[r] <= 4
        /\ \A r \in sent \union made : stage[r] \in {"acquire", "lead"}
      BY <1>0 DEF Cron!TypeOK, Cron!LeaseInv, Cron!LeaseDuration
  <1> SUFFICES Clocks
      BY <1>0
  <1> USE DEF Cron!local, Cron!updates
  <1>1. ASSUME NEW r \in Replicas, Cron!SetLeaseClient(r) \/ Cron!SetLeaseCron(r) PROVE Clocks
      BY <1>a, <1>1 DEF Cron!SetLeaseClient, Cron!SetLeaseCron
  <1>2. ASSUME NEW r \in Replicas, Cron!RunLeaseCron(r) PROVE Clocks
      BY <1>a, <1>2 DEF Cron!RunLeaseCron
  <1>3. ASSUME NEW r \in Replicas, Cron!Observe(r) PROVE Clocks
      BY <1>a, <1>3 DEF Cron!Observe
  <1>4. ASSUME NEW r \in Replicas, Cron!Request(r) PROVE Clocks
      BY <1>a, <1>4 DEF Cron!Request
  <1>5. ASSUME NEW r \in Replicas, Cron!Land(r) PROVE Clocks
      BY <1>a, <1>5 DEF Cron!Land, Cron!Becomes
  <1>6. ASSUME NEW r \in Replicas, Cron!Answered(r) PROVE Clocks
      BY <1>a, <1>6 DEF Cron!Answered
  <1>7. ASSUME NEW r \in Replicas, Cron!RequestFails(r) PROVE Clocks
      BY <1>a, <1>7 DEF Cron!RequestFails, Cron!Abandon
  <1>8. ASSUME NEW r \in Replicas, Cron!LandLate(r) PROVE Clocks
      BY <1>a, <1>8 DEF Cron!LandLate, Cron!Becomes
  <1>9. ASSUME NEW r \in Replicas, Cron!OnStartedLeading(r) \/ Cron!Restart(r) PROVE Clocks
      BY <1>a, <1>9 DEF Cron!OnStartedLeading, Cron!Restart
  <1>10. ASSUME NEW r \in Replicas, Cron!RunEnds(r),
                stage' \in {[stage EXCEPT ![r] = "idle"], [stage EXCEPT ![r] = "down"]}
         PROVE  Clocks
      BY <1>a, <1>10 DEF Cron!RunEnds, Cron!Abandon
  <1>11. ASSUME NEW r \in Replicas, Cron!OnStoppedLeading(r) PROVE Clocks
    <2>1. CASE Cron!RunEnds(r)
        BY <1>10, <1>11, <2>1 DEF Cron!OnStoppedLeading
    <2>2. CASE Cron!Becomes(Nobody) /\ made' = made \ {r}
        BY <1>a, <1>11, <2>2 DEF Cron!OnStoppedLeading, Cron!Becomes
    <2> QED
        BY <1>11, <2>1, <2>2 DEF Cron!OnStoppedLeading
  <1>12. ASSUME NEW r \in Replicas, Cron!RenewFails(r) \/ Cron!Cancel(r) \/ Cron!Crash(r) PROVE Clocks
      BY <1>10, <1>11, <1>12 DEF Cron!RenewFails, Cron!Cancel, Cron!Crash
  <1>13. CASE Cron!Tick
      BY <1>0, <1>a, <1>13 DEF Cron!Tick, Cron!LeaseDuration
  <1>14. CASE UNCHANGED Cron!vars
      BY <1>a, <1>14 DEF Cron!vars
  <1> QED
      BY <1>1, <1>2, <1>3, <1>4, <1>5, <1>6, <1>7, <1>8, <1>9, <1>12, <1>13, <1>14 DEF Cron!Next

\* A replica still holds the lease after a step that leaves the lease and its own
\* clocks alone, and that starts no rival and hastens none.
LEMMA HoldsOn ==
  ASSUME NEW p \in Replicas, Cron!Holds(p), Cron!Watched(p)' = Cron!Watched(p),
         holder' = holder, sent' \union strays' \subseteq {p},
         \A q \in Replicas \ {p} : stage'[q] = "acquire" /\ q \notin unseen' =>
             \/ age'[q] = 0 /\ 0 <= Cron!Watched(p)
             \/ age'[q] = age[q] /\ stage[q] = "acquire" /\ q \notin unseen
  PROVE  Cron!Holds(p)'
  <1> PICK n : n = Cron!Watched(p) /\ n = Cron!Watched(p)'
      OBVIOUS
  <1>1. \A q \in Replicas \ {p} : stage'[q] = "acquire" /\ q \notin unseen' => age'[q] <= n
      BY DEF Cron!Holds
  <1>2. holder' = p
      BY DEF Cron!Holds
  <1> QED
      BY <1>1, <1>2 DEF Cron!Holds

\* Every action leaves the lease with those that hold it.
LEMMA HoldStep ==
  ASSUME Cron!TypeOK, Cron!LeaseInv, [Cron!Next]_(Cron!vars), NEW p \in Replicas, Secure(p)'
  PROVE  Cron!Holds(p)'
  <1>0. /\ age \in [Replicas -> 0..6] /\ delay \in [Replicas -> 0..2]
        /\ stage \in [Replicas -> {"down", "idle", "acquire", "lead", "panic"}]
        /\ sent \subseteq Replicas /\ made \subseteq Replicas /\ strays \subseteq Replicas
        /\ Cron!Slow = 2 /\ Cron!LeaseDuration = 6 /\ Cron!TermEnds = 4
      BY DEF Cron!TypeOK, Cron!LeaseDuration, Cron!Slow, Cron!TermEnds, Cron!RetryPeriod,
             Cron!RenewDeadline
  <1>a. /\ Secure(p) => Cron!Holds(p) /\ sent \union strays \subseteq {p} /\ holder = p
        /\ Cron!Watched(p) \in Nat /\ 0 <= Cron!Watched(p)
    <2>1. Secure(p) => Cron!Holds(p) /\ sent \union strays \subseteq {p} /\ holder = p
        BY DEF Cron!LeaseInv, Secure, Cron!Holds
    <2>2. Cron!Watched(p) \in Nat
        BY <1>0 DEF Cron!Watched
    <2>3. \A n \in Nat : 0 <= n
        OBVIOUS
    <2> QED
        BY <2>1, <2>2, <2>3
  <1>b. \A r \in sent \union made : stage[r] \in {"acquire", "lead"}
      BY DEF Cron!LeaseInv
  <1> USE DEF Cron!local, Cron!updates
  \* Nothing that matters to p changes, or rivals only look anew.
  <1>1. ASSUME UNCHANGED <<holder, unseen, age, sent, made, strays, delay, stage>>
        PROVE  Cron!Holds(p)'
    <2>1. Secure(p) /\ Cron!Watched(p)' = Cron!Watched(p)
        BY <1>1 DEF Secure, Cron!Watched
    <2> QED
        BY <1>1, <1>a, <2>1, HoldsOn
  <1>2. ASSUME NEW r \in Replicas, \/ Cron!SetLeaseClient(r) \/ Cron!SetLeaseCron(r)
                                   \/ Cron!OnStartedLeading(r)
        PROVE  Cron!Holds(p)'
      BY <1>1, <1>2 DEF Cron!SetLeaseClient, Cron!SetLeaseCron, Cron!OnStartedLeading
  <1>3. ASSUME NEW r \in Replicas, r # p,
               \/ Cron!RunLeaseCron(r) \/ Cron!Restart(r) \/ Cron!Observe(r)
               \/ stage' \in {[stage EXCEPT ![r] = "idle"], [stage EXCEPT ![r] = "down"]}
                    /\ Cron!RunEnds(r)
        PROVE  Cron!Holds(p)'
    <2>1. /\ stage'[p] = stage[p] /\ age'[p] = age[p] /\ delay'[p] = delay[p]
          /\ p \in made' <=> p \in made
          /\ holder' = holder
          /\ sent' \union strays' \subseteq sent \union strays
        BY <1>0, <1>3 DEF Cron!RunLeaseCron, Cron!Restart, Cron!Observe, Cron!RunEnds, Cron!Abandon
    <2>2. \A q \in Replicas \ {p} : stage'[q] = "acquire" /\ q \notin unseen' =>
             \/ age'[q] = 0
             \/ age'[q] = age[q] /\ stage[q] = "acquire" /\ q \notin unseen
        BY <1>0, <1>3 DEF Cron!RunLeaseCron, Cron!Restart, Cron!Observe, Cron!RunEnds
    <2>3. Secure(p) /\ Cron!Watched(p)' = Cron!Watched(p)
        BY <2>1 DEF Secure, Cron!Watched
    <2>4. sent' \union strays' \subseteq {p}
        BY <1>a, <2>1, <2>3
    <2> QED
        BY <1>a, <2>1, <2>2, <2>3, <2>4, HoldsOn
  \* Before p leads it waits for no answer, and after its run it does neither.
  <1>4. ASSUME NEW r \in Replicas, \/ Cron!RunLeaseCron(r) \/ Cron!Restart(r) \/ Cron!Observe(r)
        PROVE  Cron!Holds(p)'
    <2>1. CASE r # p
        BY <1>3, <1>4, <2>1
    <2>2. CASE r = p /\ ~Cron!Observe(r)
      <3>1. stage'[p] # "lead" /\ p \notin made'
          BY <1>0, <1>4, <1>b, <2>2 DEF Cron!RunLeaseCron, Cron!Restart
      <3> QED
          BY <3>1 DEF Secure
    <2>3. CASE r = p /\ Cron!Observe(r)
      <3>1. /\ stage[p] = "acquire" /\ stage' = stage /\ made' = made /\ delay' = delay
            /\ holder # p
          BY <2>3 DEF Cron!Observe
      <3>2. Secure(p)
          BY <3>1 DEF Secure
      <3> QED
          BY <1>a, <3>1, <3>2
    <2> QED
        BY <2>1, <2>2, <2>3
  <1>5. ASSUME NEW r \in Replicas, Cron!RunEnds(r),
               stage' \in {[stage EXCEPT ![r] = "idle"], [stage EXCEPT ![r] = "down"]}
        PROVE  Cron!Holds(p)'
    <2>1. CASE r = p
      <3>1. stage'[p] # "lead" /\ p \notin made'
          BY <1>0, <1>5, <2>1 DEF Cron!RunEnds, Cron!Abandon
      <3> QED
          BY <3>1 DEF Secure
    <2> QED
        BY <1>3, <1>5, <2>1
  <1>6. ASSUME NEW r \in Replicas, stage[r] = "lead", Cron!OnStoppedLeading(r)
        PROVE  Cron!Holds(p)'
    <2>1. CASE Cron!RunEnds(r)
        BY <1>5, <1>6, <2>1 DEF Cron!OnStoppedLeading
    <2>2. CASE /\ holder = r /\ made' = made \ {r} /\ delay' = [delay EXCEPT ![r] = 0]
               /\ stage' = [stage EXCEPT ![r] = "idle"]
      <3>1. p # r
          BY <1>0, <2>2 DEF Secure
      <3>2. Secure(p)
          BY <1>0, <2>2, <3>1 DEF Secure
      <3> QED
          BY <1>a, <2>2, <3>1, <3>2
    <2> QED
        BY <1>6, <2>1, <2>2 DEF Cron!OnStoppedLeading
  <1>7. ASSUME NEW r \in Replicas, Cron!RenewFails(r) \/ Cron!Cancel(r) \/ Cron!Crash(r)
        PROVE  Cron!Holds(p)'
      BY <1>5, <1>6, <1>7 DEF Cron!RenewFails, Cron!Cancel, Cron!Crash
  <1>8. ASSUME NEW r \in Replicas, Cron!Request(r) PROVE Cron!Holds(p)'
    <2>1. /\ UNCHANGED <<holder, unseen, age, made, strays, delay, stage>>
          /\ sent' = sent \union {r} /\ Cron!MayTake(r) /\ stage[r] \in {"acquire", "lead"}
        BY <1>8 DEF Cron!Request
    <2>2. Secure(p) /\ Cron!Watched(p)' = Cron!Watched(p)
        BY <2>1 DEF Secure, Cron!Watched
    <2>3. r = p
        BY <2>1, <2>2, LeaderBlocks
    <2> QED
        BY <1>a, <2>1, <2>2, <2>3, HoldsOn
  \* An update that is made is the update of the one that holds the lease.
  <1>9. ASSUME NEW r \in sent \union strays, Cron!Becomes(r), stage' = stage,
               made' \in {made, made \union {r}},
               delay' \in {delay, [delay EXCEPT ![r] = 0]}
        PROVE  Cron!Holds(p)'
    <2>1. p = r
      <3>1. CASE p # r
        <4>1. Secure(p)
            BY <1>0, <1>9, <3>1 DEF Secure
        <4> QED
            BY <4>1, OnlyHoldersUpdates
      <3> QED
          BY <3>1
    <2>2. holder' = p /\ unseen' = Replicas /\ sent' = {} /\ strays' = {}
        BY <1>9, <2>1 DEF Cron!Becomes
    <2> QED
        BY <2>2 DEF Cron!Holds
  <1>10. ASSUME NEW r \in Replicas, Cron!Land(r) \/ Cron!LandLate(r) PROVE Cron!Holds(p)'
      BY <1>9, <1>10 DEF Cron!Land, Cron!LandLate
  <1>11. ASSUME NEW r \in Replicas, Cron!Answered(r) PROVE Cron!Holds(p)'
    <2>1. /\ UNCHANGED <<holder, unseen, sent, strays, delay>>
          /\ made' = made \ {r} /\ age' = [age EXCEPT ![r] = 0] /\ r \in made
          /\ stage' = [stage EXCEPT ![r] = "lead"]
        BY <1>11 DEF Cron!Answered
    <2>2. Secure(p)
        BY <1>0, <2>1 DEF Secure
    <2>3. Cron!Watched(p)' = Cron!Watched(p)
      <3>1. CASE p = r
        <4>1. age'[p] = 0 /\ p \notin made' /\ p \in made /\ delay'[p] = delay[p] /\ delay[p] \in Nat
            BY <1>0, <2>1, <3>1
        <4> QED
            BY <4>1 DEF Cron!Watched
      <3>2. CASE p # r
        <4>1. age'[p] = age[p] /\ (p \in made' <=> p \in made) /\ delay'[p] = delay[p]
            BY <1>0, <2>1, <3>2
        <4> QED
            BY <4>1 DEF Cron!Watched
      <3> QED
          BY <3>1, <3>2
    <2>4. \A q \in Replicas \ {p} : stage'[q] = "acquire" /\ q \notin unseen' =>
              age'[q] = age[q] /\ stage[q] = "acquire" /\ q \notin unseen
        BY <1>0, <2>1
    <2> QED
        BY <1>a, <2>1, <2>2, <2>3, <2>4, HoldsOn
  <1>12. ASSUME NEW r \in Replicas, Cron!RequestFails(r) PROVE Cron!Holds(p)'
    <2>1. /\ UNCHANGED <<holder, unseen, age, delay, stage>>
          /\ sent' \union strays' \subseteq sent \union strays /\ made' = made \ {r}
        BY <1>12 DEF Cron!RequestFails, Cron!Abandon
    <2>2. Secure(p)
        BY <2>1 DEF Secure
    <2>3. Cron!Watched(p) <= Cron!Watched(p)' /\ Cron!Watched(p)' \in Nat
        BY <1>0, <2>1 DEF Cron!Watched
    <2>4. \A q \in Replicas \ {p} : stage'[q] = "acquire" /\ q \notin unseen' =>
              age'[q] <= Cron!Watched(p)'
      <3> PICK n \in Nat : n = Cron!Watched(p)
          BY <1>a
      <3> PICK k \in Nat : k = Cron!Watched(p)'
          BY <2>3
      <3>1. \A q \in Replicas \ {p} : stage[q] = "acquire" /\ q \notin unseen => age[q] <= n
          BY <1>a, <2>2 DEF Cron!Holds
      <3>2. n <= k /\ \A q \in Replicas : age[q] \in Nat
          BY <1>0, <2>3
      <3>3. \A q \in Replicas \ {p} : stage[q] = "acquire" /\ q \notin unseen => age[q] <= k
          BY <3>1, <3>2
      <3> QED
          BY <2>1, <3>3
    <2>5. holder' = p /\ sent' \union strays' \subseteq {p}
        BY <1>a, <2>1, <2>2
    <2> QED
        BY <2>4, <2>5 DEF Cron!Holds
  <1>13. CASE Cron!Tick
    <2>1. /\ UNCHANGED <<holder, unseen, sent, made, strays, stage>>
          /\ \A q \in Replicas : age'[q] = age[q] \/ age'[q] = age[q] + 1
          /\ stage[p] = "lead" => age'[p] = age[p] + 1
          /\ delay'[p] = IF p \in made /\ delay[p] < 2 THEN delay[p] + 1 ELSE delay[p]
        BY <1>0, <1>13 DEF Cron!Tick, Cron!Watches
    <2>2. Secure(p)
        BY <1>0, <2>1 DEF Secure
    <2>3. Cron!Watched(p)' = Cron!Watched(p) + 1
      <3>1. CASE p \in made
          BY <1>0, <2>1, <2>2, <3>1 DEF Cron!Watched, Secure
      <3>2. CASE p \notin made
          BY <1>0, <2>1, <2>2, <3>2 DEF Cron!Watched, Secure
      <3> QED
          BY <3>1, <3>2
    <2>4. \A q \in Replicas \ {p} : stage'[q] = "acquire" /\ q \notin unseen' =>
              age'[q] <= Cron!Watched(p)'
      <3> PICK n \in Nat : n = Cron!Watched(p)
          BY <1>a
      <3>1. \A q \in Replicas \ {p} : stage[q] = "acquire" /\ q \notin unseen => age[q] <= n
          BY <1>a, <2>2 DEF Cron!Holds
      <3>2. \A q \in Replicas : age[q] \in Nat
          BY <1>0
      <3>3. \A q \in Replicas \ {p} : stage[q] = "acquire" /\ q \notin unseen => age'[q] <= n + 1
          BY <2>1, <3>1, <3>2
      <3> QED
          BY <2>1, <2>3, <3>3
    <2>5. holder' = p /\ sent' \union strays' \subseteq {p}
        BY <1>a, <2>1, <2>2
    <2> QED
        BY <2>4, <2>5 DEF Cron!Holds
  <1>14. CASE UNCHANGED Cron!vars
      BY <1>1, <1>14 DEF Cron!vars
  <1> QED
      BY <1>2, <1>4, <1>7, <1>8, <1>10, <1>11, <1>12, <1>13, <1>14 DEF Cron!Next

\* Every action keeps the invariant of the lease.
LEMMA LeaseStep == Cron!TypeOK /\ Cron!LeaseInv /\ [Cron!Next]_(Cron!vars) => Cron!LeaseInv'
  <1> SUFFICES ASSUME Cron!TypeOK, Cron!LeaseInv, [Cron!Next]_(Cron!vars) PROVE Cron!LeaseInv'
      OBVIOUS
  <1>1. /\ \A r \in Replicas : stage'[r] = "lead" => age'[r] <= Cron!TermEnds
        /\ \A r \in sent' \union made' : stage'[r] \in {"acquire", "lead"}
      BY ClockStep
  <1>2. \A r \in Replicas : Secure(r)' => Cron!Holds(r)'
      BY HoldStep
  <1>3. \A r \in Replicas :
            (stage'[r] = "lead" \/ r \in made') /\ delay'[r] < Cron!Slow => Cron!Holds(r)'
      BY <1>2 DEF Secure
  <1> QED
      BY <1>1, <1>3 DEF Cron!LeaseInv, Cron!TermEnds, Cron!Slow, Cron!RetryPeriod, Cron!RenewDeadline

\* The invariant of the lease holds for ever.
THEOREM LeaseInvariant == Spec => [](Cron!TypeOK /\ Cron!LeaseInv)
  <1>1. Init => Cron!LeaseInv
      BY DEF Init, Cron!Init, Cron!LeaseInv
  <1>2. Cron!TypeOK /\ Cron!LeaseInv /\ [Next]_vars => Cron!LeaseInv'
      BY CronSteps, LeaseStep
  <1> QED
      BY <1>1, <1>2, CronTypes, PTL DEF Spec

\* The periods that RunLeaseCron sets let two replicas lead at a time only where
\* one of them leads after an answer that took ten seconds or more.
THEOREM NeverTwoLeaders == Spec => []OneLeader
  <1>1. Cron!TypeOK /\ Cron!LeaseInv => OneLeader
    <2> SUFFICES ASSUME Cron!TypeOK, Cron!LeaseInv, NEW q \in Cron!Leaders, NEW r \in Cron!Leaders,
                        Cron!Slow # delay[q], Cron!Slow # delay[r]
                 PROVE  q = r
        BY DEF OneLeader, Cron!OneLeader
    <2>1. \A p \in Cron!Leaders : Cron!Slow # delay[p] => delay[p] < Cron!Slow
        BY DEF Cron!Leaders, Cron!TypeOK, Cron!Slow
    <2>2. \A p \in Cron!Leaders : Cron!Slow # delay[p] => Cron!Holds(p)
        BY <2>1 DEF Cron!Leaders, Cron!LeaseInv
    <2> QED
        BY <2>2 DEF Cron!Holds
  <1> QED
      BY <1>1, LeaseInvariant, PTL

-----------------------------------------------------------------------------

\* Every action keeps the account of the schedules.
LEMMA ScheduleStep ==
  Cron!TypeOK /\ Cron!ScheduleInv /\ Cron!SecondScheduleIsAnOldOne /\ [Cron!Next]_(Cron!vars)
    => Cron!ScheduleInv' /\ Cron!SecondScheduleIsAnOldOne'
  <1> DEFINE Kept == Cron!ScheduleInv' /\ Cron!SecondScheduleIsAnOldOne'
  <1> SUFFICES ASSUME Cron!TypeOK, Cron!ScheduleInv, Cron!SecondScheduleIsAnOldOne, [Cron!Next]_(Cron!vars)
               PROVE  Kept
      OBVIOUS
  <1> USE DEF Cron!TypeOK, Cron!ScheduleInv, Cron!SecondScheduleIsAnOldOne, Cron!local
  <1>1. ASSUME NEW r \in Replicas, Cron!SetLeaseClient(r) \/ Cron!SetLeaseCron(r) PROVE Kept
      BY <1>1 DEF Cron!SetLeaseClient, Cron!SetLeaseCron
  <1>2. ASSUME NEW r \in Replicas, Cron!RunLeaseCron(r) PROVE Kept
      BY <1>2 DEF Cron!RunLeaseCron
  <1>3. ASSUME NEW r \in Replicas, \/ Cron!Observe(r) \/ Cron!Request(r) \/ Cron!Land(r)
                                   \/ Cron!RequestFails(r) \/ Cron!LandLate(r)
        PROVE  Kept
    <2>1. UNCHANGED Cron!local
        BY <1>3 DEF Cron!Observe, Cron!Request, Cron!Land, Cron!RequestFails, Cron!LandLate
    <2> QED
        BY <2>1
  <1>4. ASSUME NEW r \in Replicas, Cron!Answered(r) PROVE Kept
      BY <1>4 DEF Cron!Answered
  <1>5. ASSUME NEW r \in Replicas, Cron!OnStartedLeading(r) PROVE Kept
      BY <1>5 DEF Cron!OnStartedLeading
  <1>6. ASSUME NEW r \in Replicas, Cron!RenewFails(r) PROVE Kept
      BY <1>6 DEF Cron!RenewFails, Cron!OnStoppedLeading
  <1>7. ASSUME NEW r \in Replicas, Cron!Cancel(r) PROVE Kept
      BY <1>7 DEF Cron!Cancel, Cron!OnStoppedLeading
  <1>8. ASSUME NEW r \in Replicas, Cron!Crash(r) PROVE Kept
      BY <1>8 DEF Cron!Crash
  <1>9. ASSUME NEW r \in Replicas, Cron!Restart(r) PROVE Kept
      BY <1>9 DEF Cron!Restart
  <1>10. CASE Cron!Tick
      BY <1>10 DEF Cron!Tick
  <1>11. CASE UNCHANGED Cron!vars
      BY <1>11 DEF Cron!vars
  <1> QED
      BY <1>1, <1>2, <1>3, <1>4, <1>5, <1>6, <1>7, <1>8, <1>9, <1>10, <1>11 DEF Cron!Next

\* A replica runs a schedule without leading, or two at a time, only after it
\* was deposed: OnStoppedLeading, which does nothing, is the one cause.
THEOREM OldSchedulesOnly == Spec => []SecondScheduleIsAnOldOne
  <1>1. Init => Cron!ScheduleInv /\ Cron!SecondScheduleIsAnOldOne
      BY DEF Init, Cron!Init, Cron!ScheduleInv, Cron!SecondScheduleIsAnOldOne
  <1>2. /\ Cron!TypeOK /\ Cron!ScheduleInv /\ Cron!SecondScheduleIsAnOldOne
        /\ [Next]_vars
        => Cron!ScheduleInv' /\ Cron!SecondScheduleIsAnOldOne'
      BY CronSteps, ScheduleStep
  <1> QED
      BY <1>1, <1>2, CronTypes, PTL DEF Spec, SecondScheduleIsAnOldOne
=============================================================================
