----------------------------- MODULE KubeRetry ------------------------------
(***************************************************************************)
(* The retrying look-ups of pkg/kubernetes: ListEvent, GetDeployment,      *)
(* GetNode, GetSvc and IsNamespaceExist, and the two operations built on   *)
(* them, GetNodeIP and GetSvcNodePortByTargetPort.  The loop declares a    *)
(* second err inside its body, so the err it returns when the trials are   *)
(* used up is the outer one, which nothing ever assigned.                  *)
(***************************************************************************)
EXTENDS Naturals

CONSTANTS
    Retry,          \* h.Options.Retry
    PortTables,     \* the port lists a service may have: sets of [target, node]
    TargetPorts,    \* the target ports callers ask for
    MaxChanges      \* bound: changes of the cluster while calls run

VARIABLES
    phase,      \* the namespace: "Active", "Terminating" or "absent"
    object,     \* the deployment, node or service: "present" or "absent"
    ports,      \* the ports of the service
    changes,    \* changes so far
    op,         \* the operation in progress
    target,     \* the target port it was given
    pc,         \* "idle", "try", "use" (a wrapper goes on), "done", "panic"
    trial,      \* trialCount
    value,      \* what the loop returned: "none", "nil", "object", "true", "false"
    seen,       \* the ports in the service that was returned
    err,        \* the error returned: "nil" or "error"
    port        \* the node port returned, 0 for none

cluster == <<phase, object, ports, changes>>
vars == <<cluster, op, target, pc, trial, value, seen, err, port>>

Getters == {"ListEvent", "GetDeployment", "GetNode", "GetSvc"}
Wrappers == {"GetNodeIP", "GetSvcNodePortByTargetPort"}

Init ==
    /\ phase \in {"Active", "Terminating", "absent"}
    /\ object \in {"present", "absent"}
    /\ ports \in PortTables
    /\ changes = 0
    /\ op = "none"
    /\ target = 0
    /\ pc = "idle"
    /\ trial = 0
    /\ value = "none"
    /\ seen = {}
    /\ err = "nil"
    /\ port = 0

-----------------------------------------------------------------------------

Call(o, t) ==
    /\ pc \in {"idle", "done"}
    /\ op' = o
    /\ target' = t
    /\ pc' = "try"
    /\ trial' = 0
    /\ value' = "none"
    /\ seen' = {}
    /\ err' = "nil"
    /\ port' = 0
    /\ UNCHANGED cluster

\* A wrapper continues with what its look-up returned; any other call is over.
After == IF op \in Wrappers THEN "use" ELSE "done"

\* One request fails, for whatever reason: a time-out, an unreachable API
\* server, an object that is not there.
TrialFails ==
    /\ pc = "try"
    /\ trial <= Retry
    /\ trial' = trial + 1
    /\ UNCHANGED <<cluster, op, target, pc, value, seen, err, port>>

\* One request succeeds.
TrialSucceeds ==
    /\ pc = "try"
    /\ trial <= Retry
    /\ op # "IsNamespaceExist"
    /\ op = "ListEvent" \/ object = "present"
    /\ value' = "object"
    /\ seen' = ports
    /\ pc' = After
    /\ UNCHANGED <<cluster, op, target, trial, err, port>>

\* Faulty variant: one trial too few.
GiveUpEarly ==
    /\ pc = "try"
    /\ trial >= Retry
    /\ op # "IsNamespaceExist"
    /\ value' = "nil"
    /\ pc' = After
    /\ UNCHANGED <<cluster, op, target, trial, seen, err, port>>

\* return nil, err: the outer err, which is nil.
GiveUp ==
    /\ pc = "try"
    /\ trial > Retry
    /\ op # "IsNamespaceExist"
    /\ value' = "nil"
    /\ pc' = After
    /\ UNCHANGED <<cluster, op, target, trial, seen, err, port>>

ListEvent == op = "ListEvent" /\ (TrialFails \/ TrialSucceeds \/ GiveUp)
GetDeployment == op = "GetDeployment" /\ (TrialFails \/ TrialSucceeds \/ GiveUp)
GetNode == op \in {"GetNode", "GetNodeIP"} /\ (TrialFails \/ TrialSucceeds \/ GiveUp)
GetSvc ==
    /\ op \in {"GetSvc", "GetSvcNodePortByTargetPort"}
    /\ TrialFails \/ TrialSucceeds \/ GiveUp

\* IsNamespaceExist: a namespace that is not Active costs a trial, as an error
\* does.
NamespaceAnswer ==
    /\ pc = "try"
    /\ trial <= Retry
    /\ phase # "absent"
    /\ IF phase = "Active"
       THEN pc' = "done" /\ value' = "true" /\ UNCHANGED trial
       ELSE trial' = trial + 1 /\ UNCHANGED <<pc, value>>
    /\ UNCHANGED <<cluster, op, target, seen, err, port>>

NamespaceGiveUp ==
    /\ pc = "try"
    /\ trial > Retry
    /\ pc' = "done"
    /\ value' = "false"
    /\ UNCHANGED <<cluster, op, target, trial, seen, err, port>>

IsNamespaceExist ==
    /\ op = "IsNamespaceExist"
    /\ TrialFails \/ NamespaceAnswer \/ NamespaceGiveUp

-----------------------------------------------------------------------------

\* GetNodeIP goes on with the node: reading its addresses panics on a nil
\* node; without an address of the wanted type the result is an error.
GetNodeIP ==
    /\ pc = "use"
    /\ op = "GetNodeIP"
    /\ \/ value = "nil" /\ pc' = "panic" /\ UNCHANGED err
       \/ value = "object" /\ pc' = "done" /\ err' \in {"nil", "error"}
    /\ UNCHANGED <<cluster, op, target, trial, value, seen, port>>

\* The target port the code compares with.
WantedPort == 8080

\* GetSvcNodePortByTargetPort: a port whose target is the wanted one.
GetSvcNodePortByTargetPort ==
    /\ pc = "use"
    /\ op = "GetSvcNodePortByTargetPort"
    /\ \/ value = "nil" /\ pc' = "panic" /\ UNCHANGED <<err, port>>
       \/ /\ value = "object"
          /\ pc' = "done"
          /\ \/ \E p \in seen :
                   p.target = WantedPort /\ port' = p.node /\ UNCHANGED err
             \/ /\ \A p \in seen : p.target # WantedPort
                /\ err' = "error"
                /\ UNCHANGED port
    /\ UNCHANGED <<cluster, op, target, trial, value, seen>>

\* The cluster changes while a call is between two requests.
Change ==
    /\ changes < MaxChanges
    /\ changes' = changes + 1
    /\ phase' \in {"Active", "Terminating", "absent"}
    /\ object' \in {"present", "absent"}
    /\ ports' \in PortTables
    /\ UNCHANGED <<op, target, pc, trial, value, seen, err, port>>

Step ==
    \/ ListEvent
    \/ GetDeployment
    \/ GetNode
    \/ GetSvc
    \/ IsNamespaceExist
    \/ GetNodeIP
    \/ GetSvcNodePortByTargetPort

Next ==
    \/ \E o \in Getters \union {"IsNamespaceExist", "GetNodeIP"} : Call(o, 0)
    \/ \E t \in TargetPorts : Call("GetSvcNodePortByTargetPort", t)
    \/ Step
    \/ Change

Spec == Init /\ [][Next]_vars

-----------------------------------------------------------------------------

\* The loops stop at Retry + 1 trials and yield nothing but these values.
TypeOK ==
    /\ phase \in {"Active", "Terminating", "absent"}
    /\ object \in {"present", "absent"}
    /\ ports \in PortTables
    /\ changes \in 0..MaxChanges
    /\ op \in Getters \union Wrappers \union {"IsNamespaceExist", "none"}
    /\ target \in TargetPorts \union {0}
    /\ pc \in {"idle", "try", "use", "done", "panic"}
    /\ trial \in 0..Retry + 1
    /\ value \in {"none", "nil", "object", "true", "false"}
    /\ seen \in PortTables \union {{}}
    /\ err \in {"nil", "error"}
    /\ port \in Nat

\* A look-up returns nil, IsNamespaceExist false, and a wrapper panics exactly
\* when all Retry + 1 trials have failed; one success, however late and whatever
\* the cluster did before, prevents it.  The error never tells: a look-up that
\* failed on every trial returns a nil error with its nil object, which is what
\* the wrappers, testing only the error, trip over.
NothingMeansAllTrialsFailed ==
    pc \in {"done", "panic"} =>
        /\ op \in Getters => err = "nil" /\ (value = "nil" <=> trial = Retry + 1)
        /\ op \in Wrappers => (pc = "panic" <=> trial = Retry + 1)
        /\ op = "IsNamespaceExist" => (value = "false" <=> trial = Retry + 1)

\* What the name and the error text of GetSvcNodePortByTargetPort say ("can't
\* find the node port by specified target port"): the port returned belongs to
\* the target port the caller specified.
NodePortIsForTarget ==
    pc = "done" /\ op = "GetSvcNodePortByTargetPort" /\ port # 0 =>
        [target |-> target, node |-> port] \in seen
-----------------------------------------------------------------------------


\* What a call has found out so far: nothing and no error while it tries; a
\* wrapper that goes on has an object, or nil after the last trial.
RetryInv ==
    /\ pc = "try" => value = "none" /\ err = "nil"
    /\ pc = "use" =>
        /\ op \in Wrappers
        /\ \/ value = "nil" /\ trial = Retry + 1
           \/ value = "object" /\ trial <= Retry
=============================================================================
