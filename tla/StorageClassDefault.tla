------------------------ MODULE StorageClassDefault -------------------------
(***************************************************************************)
(* The default storage class of pkg/kubernetes.  Administrators switch it  *)
(* in two calls: DisableCurrentDefaultStorageClasses lists the classes and *)
(* patches the annotated ones one by one to "false", then                  *)
(* SetDefaultStorageClass patches the new one to "true".  Nothing ties the *)
(* requests together, and several administrators may switch at a time.     *)
(***************************************************************************)
EXTENDS Naturals

CONSTANTS
    Admins,     \* callers that switch the default
    Classes,    \* storage classes
    Late,       \* the classes that are only created later
    MaxFaults,  \* bound: requests that fail although the API server is sound
    MaxSwitches \* bound: switches begun

\* What the annotation is-default-class of a class may be; "absent": the class
\* does not exist, "none": it bears no such annotation, or an empty one.
Annotations == {"absent", "none", "true", "false"}

NoClass == "none"

VARIABLES
    annotation, \* the annotation of each class
    pc,         \* each administrator: "idle", "list", "patch", "set", "failed"
    target,     \* the class it wants to be the default
    todo,       \* the listed classes it has not patched yet
    faults,     \* faults so far
    switches,   \* switches begun so far
    disturbed   \* history: did others change an annotation since it began?

vars == <<annotation, pc, target, todo, faults, switches, disturbed>>

Init ==
    /\ annotation \in [Classes -> Annotations]
    /\ \A c \in Classes : annotation[c] = "absent" <=> c \in Late
    /\ pc = [a \in Admins |-> "idle"]
    /\ target = [a \in Admins |-> NoClass]
    /\ todo = [a \in Admins |-> {}]
    /\ faults = 0
    /\ switches = 0
    /\ disturbed = [a \in Admins |-> "no"]

Defaults == {c \in Classes : annotation[c] = "true"}

Switching(a) == pc[a] \in {"list", "patch", "set"}

-----------------------------------------------------------------------------

\* An administrator begins to switch ...
BeginSwitch(a, c) ==
    /\ pc[a] = "idle"
    /\ annotation[c] # "absent"
    /\ switches < MaxSwitches
    /\ switches' = switches + 1
    /\ pc' = [pc EXCEPT ![a] = "list"]
    /\ target' = [target EXCEPT ![a] = c]
    /\ disturbed' = [disturbed EXCEPT ![a] = "no"]
    /\ UNCHANGED <<annotation, todo, faults>>

\* ... and tries again after an error.
TryAgain(a) ==
    /\ pc[a] = "failed"
    /\ pc' = [pc EXCEPT ![a] = "list"]
    /\ disturbed' = [disturbed EXCEPT ![a] = "no"]
    /\ UNCHANGED <<annotation, target, todo, faults, switches>>

\* Faulty variant: the classes without the annotation are not skipped, those
\* that have it are.
unannotatedClasses == {c \in Classes : annotation[c] = "none"}

\* getDefaultStorageClasses: any value but the empty one counts, "false" too.
getDefaultStorageClasses == {c \in Classes : annotation[c] \in {"true", "false"}}

\* DisableCurrentDefaultStorageClasses: the list ...
ListStorageClasses(a) ==
    /\ pc[a] = "list"
    /\ todo' = [todo EXCEPT ![a] = getDefaultStorageClasses]
    /\ pc' = [pc EXCEPT ![a] = "patch"]
    /\ UNCHANGED <<annotation, target, faults, switches, disturbed>>

\* The others notice a change of an annotation.
Disturb(a) ==
    disturbed' = [b \in Admins |-> IF b = a THEN disturbed[b] ELSE "yes"]

\* ... and one patch of PatchStorageClasses.
PatchStorageClass(a, c) ==
    /\ pc[a] = "patch"
    /\ c \in todo[a]
    /\ annotation' = [annotation EXCEPT ![c] = "false"]
    /\ todo' = [todo EXCEPT ![a] = @ \ {c}]
    /\ Disturb(a)
    /\ UNCHANGED <<pc, target, faults, switches>>

\* The patches are through; the caller goes on with SetDefaultStorageClass.
DisableCurrentDefaultStorageClasses(a) ==
    /\ pc[a] = "patch"
    /\ todo[a] = {}
    /\ pc' = [pc EXCEPT ![a] = "set"]
    /\ UNCHANGED <<annotation, target, todo, faults, switches, disturbed>>

\* Faulty variant: the patch carries "false".
SetDefaultToFalse(a) ==
    /\ pc[a] = "set"
    /\ annotation' = [annotation EXCEPT ![target[a]] = "false"]
    /\ pc' = [pc EXCEPT ![a] = "idle"]
    /\ Disturb(a)
    /\ UNCHANGED <<target, todo, faults, switches>>

SetDefaultStorageClass(a) ==
    /\ pc[a] = "set"
    /\ annotation' = [annotation EXCEPT ![target[a]] = "true"]
    /\ pc' = [pc EXCEPT ![a] = "idle"]
    /\ Disturb(a)
    /\ UNCHANGED <<target, todo, faults, switches>>

\* A request fails and ends the call; a patch may have taken effect.
RequestFails(a) ==
    /\ faults < MaxFaults
    /\ faults' = faults + 1
    /\ \/ /\ pc[a] = "list" \/ pc[a] = "set" \/ todo[a] # {}
          /\ UNCHANGED <<annotation, disturbed>>
       \/ /\ pc[a] = "patch"
          /\ \E c \in todo[a] : annotation' = [annotation EXCEPT ![c] = "false"]
          /\ Disturb(a)
       \/ /\ pc[a] = "set"
          /\ annotation' = [annotation EXCEPT ![target[a]] = "true"]
          /\ Disturb(a)
    /\ pc' = [pc EXCEPT ![a] = "failed"]
    /\ todo' = [todo EXCEPT ![a] = {}]
    /\ UNCHANGED <<target, switches>>

\* Somebody creates a class, as the default or not.
CreateStorageClass(c, v) ==
    /\ annotation[c] = "absent"
    /\ annotation' = [annotation EXCEPT ![c] = v]
    /\ disturbed' = [a \in Admins |-> "yes"]
    /\ UNCHANGED <<pc, target, todo, faults, switches>>

-----------------------------------------------------------------------------

Step(a) ==
    \/ ListStorageClasses(a)
    \/ \E c \in Classes : PatchStorageClass(a, c)
    \/ DisableCurrentDefaultStorageClasses(a)
    \/ SetDefaultStorageClass(a)

Next ==
    \/ \E a \in Admins :
        \/ \E c \in Classes : BeginSwitch(a, c)
        \/ TryAgain(a)
        \/ Step(a)
        \/ RequestFails(a)
    \/ \E c \in Classes, v \in {"none", "true"} : CreateStorageClass(c, v)

Spec == Init /\ [][Next]_vars

-----------------------------------------------------------------------------

\* Every administrator patches classes that exist, and no class disappears.
TypeOK ==
    /\ annotation \in [Classes -> Annotations]
    /\ pc \in [Admins -> {"idle", "list", "patch", "set", "failed"}]
    /\ target \in [Admins -> Classes \union {NoClass}]
    /\ todo \in [Admins -> SUBSET {c \in Classes : annotation[c] # "absent"}]
    /\ \A a \in Admins : pc[a] # "idle" =>
           target[a] \in Classes /\ annotation[target[a]] # "absent"
    /\ faults \in 0..MaxFaults
    /\ switches \in 0..MaxSwitches
    /\ disturbed \in [Admins -> {"no", "yes"}]

\* A switch that nobody disturbed leaves its target as the one and only default,
\* whatever combination of annotations, half-done switches of others included,
\* it started from.  Concurrent switches may leave several defaults, but never
\* none: once all of them are through, and the last attempt of each went without
\* error, the target of the last one is still a default.  (The loops of the
\* others are over by then, stale lists included.)
SwitchesLeaveADefault ==
    /\ \A a \in Admins :
        pc[a] = "idle" /\ target[a] # NoClass /\ disturbed[a] = "no" =>
            Defaults = {target[a]}
    /\ switches > 0 /\ (\A a \in Admins : pc[a] = "idle") =>
        \E a \in Admins : target[a] \in Defaults

\* A switch that failed between its patches leaves the cluster without a default
\* or with two; as the administrators try again, it has one in the end, and
\* nobody is left half way.
RetriesSettle ==
    switches > 0 ~> Defaults # {} /\ \A a \in Admins : pc[a] = "idle"
-----------------------------------------------------------------------------


\* Lists are kept while patching only.  What an administrator whom nobody
\* disturbed knows: every default is on its list while it patches, and there is
\* none left when it sets its own.
SwitchInv ==
    \A a \in Admins :
        /\ todo[a] # {} => pc[a] = "patch"
        /\ disturbed[a] = "no" /\ pc[a] = "patch" => Defaults \subseteq todo[a]
        /\ disturbed[a] = "no" /\ pc[a] = "set" => Defaults = {}
=============================================================================
