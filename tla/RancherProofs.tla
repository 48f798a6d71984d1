--------------------------- MODULE RancherProofs ----------------------------
(***************************************************************************)
(* The operations of Rancher, for every number of callers, of repetitions  *)
(* of a request and of polls of a wait, and with any number of faults.     *)
(***************************************************************************)
EXTENDS Rancher, TLAPS

-----------------------------------------------------------------------------
(* What is true of one caller. *)

Accounted(c) ==
    /\ made[c] <= lost[c] + (IF ret[c] = "ok" THEN 1 ELSE 0)
    /\ pc[c] = "idle" /\ op[c] \in Creates /\ lost[c] = 0 => (ret[c] = "ok" <=> made[c] = 1)

Gone(c) ==
    /\ hit[c] \in 0..gens
    /\ op[c] = "waitDeleted" /\ ret[c] = "ok" /\ hit[c] # 0 => cluster.gen # hit[c]

Tolerant(c) ==
    /\ pc[c] = "send" =>
        /\ ret[c] = "none"
        /\ steady[c] = "yes" => Goal(op[c]) /\ failed[c] = polls[c]
    /\ op[c] \in Waits /\ ret[c] = "error" /\ steady[c] = "yes" => failed[c] = Attempts

ServerInv ==
    /\ cluster.gen \in 0..gens
    /\ cluster.phase = "absent" => cluster.gen = 0 /\ cluster.ready = "no"

Fine(c) == Accounted(c) /\ Gone(c) /\ Tolerant(c)

RancherInv == TypeOK /\ ServerInv /\ \A c \in Callers : Fine(c)

\* How the number of the cluster there is may change.
Renumbered ==
    /\ gens' \in Nat /\ gens <= gens'
    /\ cluster'.gen \in {cluster.gen, 0, gens + 1}

ServerTypes ==
    /\ cluster \in [gen : Nat, phase : {"absent", "there", "deleting"}, ready : {"yes", "no"}]
    /\ gens \in Nat
    /\ taken \subseteq Named
    /\ driver \in {"inactive", "activating", "active"}

-----------------------------------------------------------------------------

\* Whoever does nothing stays as it is, whatever happens on the server.
LEMMA OthersStayFine ==
  ASSUME TypeOK, NEW d \in Callers, Fine(d), Renumbered, Track,
         pc'[d] = pc[d], op'[d] = op[d], ret'[d] = ret[d], polls'[d] = polls[d],
         made'[d] = made[d], lost'[d] = lost[d], failed'[d] = failed[d], hit'[d] = hit[d]
  PROVE  Fine(d)'
  <1>1. Accounted(d)'
      BY DEF Fine, Accounted
  <1>2. Gone(d)'
      BY DEF Fine, Gone, TypeOK, Renumbered
  <1>3. steady'[d] = "yes" => steady[d] = "yes" /\ (pc[d] = "send" => Goal(op[d])')
      BY DEF Track, TypeOK
  <1>4. Tolerant(d)'
      BY <1>3 DEF Fine, Tolerant
  <1> QED
      BY <1>1, <1>2, <1>4 DEF Fine

\* What a request does on the server.
LEMMA ServeEffect ==
  ASSUME TypeOK, ServerInv, NEW c \in Callers, NEW s \in Statuses, Serve(c, s)
  PROVE  /\ ServerTypes' /\ ServerInv' /\ Renumbered
         /\ hit' = hit \/ (op[c] = "delete" /\ hit' = [hit EXCEPT ![c] = cluster.gen])
         /\ IF op[c] \in Creates /\ s = "2xx" THEN made' = [made EXCEPT ![c] = @ + 1]
                                              ELSE made' = made
         /\ op[c] \in Waits => UNCHANGED <<cluster, driver>>
         /\ op[c] = "waitDeleted" => (s = "404" <=> cluster.phase = "absent")
         /\ op[c] \in {"waitActive", "waitDriver"} /\ cluster.phase # "absent" => s = "2xx"
         /\ op[c] = "waitDriver" => s = "2xx"
  <1> USE DEF TypeOK, ServerTypes, ServerInv, Renumbered, Creates, Waits, Named
  <1>1. CASE ServeCreate(c, s)
    <2>1. CASE /\ op[c] \in Named \ taken
               /\ taken' = taken \union {op[c]}
               /\ s = "2xx"
               /\ made' = [made EXCEPT ![c] = @ + 1]
               /\ UNCHANGED <<cluster, gens, driver, hit>>
      <3>1. op[c] \in Creates /\ op[c] \notin Waits /\ taken' \subseteq Named
          BY <2>1
      <3>2. op[c] \notin {"waitDeleted", "waitActive", "waitDriver"}
          BY <3>1
      <3>3. ServerTypes' /\ ServerInv' /\ Renumbered
          BY <2>1, <3>1
      <3> HIDE DEF Creates, Waits, TypeOK, ServerTypes, ServerInv, Renumbered
      <3> QED
          BY <2>1, <3>1, <3>2, <3>3
    <2>2. CASE /\ op[c] = "credential"
               /\ s = "2xx"
               /\ made' = [made EXCEPT ![c] = @ + 1]
               /\ UNCHANGED <<server, hit>>
        BY <2>2 DEF server
    <2>3. CASE /\ op[c] = "cluster"
               /\ cluster.phase = "absent"
               /\ gens' = gens + 1
               /\ cluster' = [gen |-> gens + 1, phase |-> "there", ready |-> "no"]
               /\ s = "2xx"
               /\ made' = [made EXCEPT ![c] = @ + 1]
               /\ UNCHANGED <<taken, driver, hit>>
        BY <2>3
    <2>4. CASE /\ op[c] \in taken \/ (op[c] = "cluster" /\ cluster.phase # "absent")
               /\ s = "409"
               /\ Keep
        BY <2>4 DEF Keep, server
    <2> QED
        BY <1>1, <2>1, <2>2, <2>3, <2>4 DEF ServeCreate
  <1>2. CASE ServeDelete(c, s)
      BY <1>2 DEF ServeDelete, Keep, server
  <1>3. CASE ServeActivate(c, s)
      BY <1>3 DEF ServeActivate
  <1>4. CASE ServeRead(c, s)
      BY <1>4 DEF ServeRead, Keep, server
  <1> QED
      BY <1>1, <1>2, <1>3, <1>4 DEF Serve

\* What an operation makes of an answer: it returns, or a wait polls once more.
LEMMA ReceiveEffect ==
  ASSUME TypeOK, NEW c \in Callers, NEW s \in Statuses, Receive(c, s)
  PROVE  \/ \E r \in {"ok", "error", "nil"} :
             /\ Return(c, r)
             /\ op[c] \in Creates => r = (IF s = "2xx" THEN "ok" ELSE "error")
             /\ op[c] = "waitDeleted" => r = "ok" /\ s = "404"
             /\ op[c] \in Waits => r = "ok"
         \/ /\ op[c] \in Waits /\ NextPoll(c)
            /\ op[c] = "waitDeleted" => s # "404"
            /\ op[c] = "waitActive" => ~(s = "2xx" /\ cluster.ready = "yes")
            /\ op[c] = "waitDriver" => ~(s = "2xx" /\ driver = "active")
  <1> USE DEF Creates, Waits, Named
  <1>1. CASE \/ CreateRancherSecret(c, s) \/ CreateClusterSecret(c, s)
             \/ CreateOpenstackMachine(c, s) \/ CreateClusterRepo(c, s)
             \/ CreateCloudCredential(c, s) \/ CreateKubernetes(c, s)
      BY <1>1 DEF CreateRancherSecret, CreateClusterSecret, CreateOpenstackMachine,
         CreateClusterRepo, CreateCloudCredential, CreateKubernetes
  <1>2. CASE \/ DeleteKubernetes(c, s) \/ ActivateNodeDriver(c, s) \/ IsNodeDriverConfigable(c, s)
             \/ ListKubernetes(c, s) \/ GetKubernetesConfig(c, s)
      BY <1>2 DEF DeleteKubernetes, ActivateNodeDriver, IsNodeDriverConfigable, ListKubernetes,
         GetKubernetesConfig
  <1>3. CASE \/ WaitKubernetesActive(c, s) \/ WaitKubernetesDeleted(c, s)
             \/ WaitNodeDriverStatus(c, s)
      BY <1>3 DEF WaitKubernetesActive, WaitKubernetesDeleted, WaitNodeDriverStatus,
         isNodeDriverMatchedStatus
  <1> QED
      BY <1>1, <1>2, <1>3 DEF Receive
\* A caller that waited for an answer keeps its history while its goal holds on.
LEMMA SteadyWhileHeld ==
  ASSUME NEW c \in Callers, pc[c] = "send", Track
  PROVE  steady'[c] = "yes" => steady[c] = "yes" /\ Goal(op[c])'
  BY DEF Track

\* A return leaves the caller fine when it says what has happened.
LEMMA ReturnIsFine ==
  ASSUME TypeOK, NEW c \in Callers, Fine(c), pc[c] = "send", Track,
         NEW r \in {"ok", "error", "nil"}, Return(c, r),
         made'[c] <= lost'[c] + (IF r = "ok" THEN 1 ELSE 0),
         op[c] \in Creates /\ lost'[c] = 0 => (r = "ok" <=> made'[c] = 1),
         hit'[c] \in 0..gens',
         op[c] = "waitDeleted" /\ r = "ok" => cluster'.gen = 0,
         op[c] \in Waits /\ r = "error" /\ steady[c] = "yes" => failed'[c] = Attempts
  PROVE  Fine(c)'
  <1>1. pc'[c] = "idle" /\ ret'[c] = r /\ op'[c] = op[c]
      BY DEF Return, TypeOK
  <1>2. Accounted(c)'
      BY <1>1 DEF Accounted
  <1>3. Gone(c)'
      BY <1>1 DEF Gone
  <1>4. Tolerant(c)'
      BY <1>1, SteadyWhileHeld DEF Tolerant
  <1> QED
      BY <1>2, <1>3, <1>4 DEF Fine

\* A caller whose operation goes on has no result; of its wait, only failed polls
\* are behind it.
LEMMA GoingOnIsFine ==
  ASSUME TypeOK, NEW c \in Callers, Fine(c), pc[c] = "send", Track,
         pc'[c] = pc[c], op'[c] = op[c], ret'[c] = ret[c],
         made'[c] \in Nat, lost'[c] \in Nat, made'[c] <= lost'[c],
         hit'[c] \in 0..gens',
         steady[c] = "yes" => failed'[c] = polls'[c]
  PROVE  Fine(c)'
  <1>1. ret'[c] = "none"
      BY DEF Fine, Tolerant
  <1>2. Accounted(c)'
      BY <1>1 DEF Accounted
  <1>3. Gone(c)'
      BY <1>1 DEF Gone
  <1>4. Tolerant(c)'
      BY <1>1, SteadyWhileHeld DEF Tolerant
  <1> QED
      BY <1>2, <1>3, <1>4 DEF Fine

\* The next poll of a wait, or its end.
LEMMA PollIsFine ==
  ASSUME TypeOK, NEW c \in Callers, Fine(c), pc[c] = "send", Track, NextPoll(c),
         op[c] \in Waits,
         made'[c] = made[c], lost'[c] \in {lost[c], lost[c] + 1}, hit'[c] = hit[c], gens' = gens,
         steady[c] = "yes" => failed'[c] = failed[c] + 1
  PROVE  Fine(c)'
  <1>1. /\ made[c] <= lost[c] /\ made[c] \in Nat /\ lost[c] \in Nat /\ hit[c] \in 0..gens
        /\ polls[c] \in Nat /\ ret[c] = "none" /\ op[c] \notin Creates
        /\ steady[c] = "yes" => failed[c] = polls[c]
      BY DEF Fine, Accounted, Gone, Tolerant, TypeOK, Waits, Creates, Named
  <1>2. CASE polls[c] + 1 = Attempts
    <2>1. Return(c, "error")
        BY <1>2 DEF NextPoll
    <2>2. steady[c] = "yes" => failed'[c] = Attempts
        BY <1>1, <1>2
    <2>3. made'[c] <= lost'[c] + (IF "error" = "ok" THEN 1 ELSE 0)
        BY <1>1
    <2> QED
        BY <1>1, <2>1, <2>2, <2>3, ReturnIsFine
  <1>3. CASE polls[c] + 1 # Attempts
    <2>1. /\ polls'[c] = polls[c] + 1 /\ UNCHANGED <<pc, op, ret>>
        BY <1>3 DEF NextPoll, TypeOK
    <2>2. steady[c] = "yes" => failed'[c] = polls'[c]
        BY <1>1, <2>1
    <2>3. made'[c] \in Nat /\ lost'[c] \in Nat /\ made'[c] <= lost'[c]
        BY <1>1
    <2> QED
        BY <1>1, <2>1, <2>2, <2>3, GoingOnIsFine
  <1> QED
      BY <1>2, <1>3

RequestTypes ==
    /\ pc \in [Callers -> {"idle", "send"}]
    /\ op \in [Callers -> Ops]
    /\ tries \in [Callers -> 0..RetryCount]
    /\ polls \in [Callers -> 0..Attempts - 1]
    /\ ret \in [Callers -> {"none", "ok", "error", "nil", "rejected"}]

\* Neither a return nor another poll leaves the bounds of tries and polls.
LEMMA RequestTyped ==
  ASSUME TypeOK, NEW c \in Callers,
         NextPoll(c) \/ \E r \in {"ok", "error", "nil"} : Return(c, r)
  PROVE  RequestTypes'
  <1> USE RetryAssumption DEF TypeOK, RequestTypes
  <1>1. ASSUME NEW r \in {"ok", "error", "nil"}, Return(c, r) PROVE RequestTypes'
      BY <1>1 DEF Return
  <1>2. CASE NextPoll(c) /\ polls[c] + 1 # Attempts
    <2>1. polls[c] + 1 \in 0..Attempts - 1
        BY <1>2
    <2> QED
        BY <1>2, <2>1 DEF NextPoll
  <1>3. CASE NextPoll(c) /\ polls[c] + 1 = Attempts
      BY <1>1, <1>3 DEF NextPoll
  <1> QED
      BY <1>1, <1>2, <1>3

\* A step of c leaves what belongs to the others alone.
LEMMA OnlyOwn ==
  ASSUME TypeOK, NEW c \in Callers, NEW d \in Callers \ {c},
         \/ NextPoll(c)
         \/ \E r \in {"ok", "error", "nil"} : Return(c, r)
         \/ tries' = [tries EXCEPT ![c] = @ + 1] /\ UNCHANGED <<pc, op, polls, ret>>
  PROVE  pc'[d] = pc[d] /\ op'[d] = op[d] /\ ret'[d] = ret[d] /\ polls'[d] = polls[d]
  <1>1. ASSUME NEW r \in {"ok", "error", "nil"}, Return(c, r)
        PROVE  pc'[d] = pc[d] /\ op'[d] = op[d] /\ ret'[d] = ret[d] /\ polls'[d] = polls[d]
      BY <1>1 DEF Return, TypeOK
  <1>2. CASE NextPoll(c)
      BY <1>1, <1>2 DEF NextPoll, TypeOK
  <1> QED
      BY <1>1, <1>2
-----------------------------------------------------------------------------
(* The steps. *)

\* The server acts and its answer arrives.
LEMMA AnsweredIsFine ==
  ASSUME RancherInv, NEW c \in Callers, Answered(c), Track
  PROVE  RancherInv'
  <1>0. TypeOK /\ ServerInv /\ Fine(c) /\ pc[c] = "send"
      BY DEF RancherInv, Answered
  <1>1. PICK s \in Statuses : Serve(c, s) /\ Receive(c, s)
      BY DEF Answered
  <1>2. UNCHANGED <<lost, failed, faults, calls, events>>
      BY DEF Answered
  <1>3. /\ ServerTypes' /\ ServerInv' /\ Renumbered
        /\ hit' = hit \/ (op[c] = "delete" /\ hit' = [hit EXCEPT ![c] = cluster.gen])
        /\ IF op[c] \in Creates /\ s = "2xx" THEN made' = [made EXCEPT ![c] = @ + 1]
                                             ELSE made' = made
        /\ op[c] \in Waits => UNCHANGED <<cluster, driver>>
        /\ op[c] = "waitDeleted" => (s = "404" <=> cluster.phase = "absent")
        /\ op[c] \in {"waitActive", "waitDriver"} /\ cluster.phase # "absent" => s = "2xx"
        /\ op[c] = "waitDriver" => s = "2xx"
      BY <1>0, <1>1, ServeEffect
  <1>4. /\ hit' \in [Callers -> Nat] /\ hit'[c] \in 0..gens' /\ made' \in [Callers -> Nat]
        /\ \A d \in Callers \ {c} : hit'[d] = hit[d] /\ made'[d] = made[d]
      BY <1>0, <1>3 DEF TypeOK, ServerInv, Renumbered, Fine, Gone
  <1>5. \/ NextPoll(c)
        \/ \E r \in {"ok", "error", "nil"} : Return(c, r)
      BY <1>0, <1>1, ReceiveEffect
  <1>6. TypeOK'
    <2>1. RequestTypes'
        BY <1>0, <1>5, RequestTyped
    <2>2. steady' \in [Callers -> {"yes", "no"}]
        BY DEF Track
    <2> QED
        BY <1>0, <1>2, <1>3, <1>4, <2>1, <2>2 DEF TypeOK, RequestTypes, ServerTypes
  <1>7. Fine(c)'
    <2>1. made[c] <= lost[c] /\ made[c] \in Nat /\ lost[c] \in Nat /\ lost'[c] = lost[c]
        BY <1>0, <1>2 DEF Fine, Accounted, Tolerant, TypeOK
    <2>2. ASSUME NEW r \in {"ok", "error", "nil"}, Return(c, r),
                 op[c] \in Creates => r = (IF s = "2xx" THEN "ok" ELSE "error"),
                 op[c] = "waitDeleted" => r = "ok" /\ s = "404",
                 op[c] \in Waits => r = "ok"
          PROVE  Fine(c)'
      <3>1. made'[c] = IF op[c] \in Creates /\ s = "2xx" THEN made[c] + 1 ELSE made[c]
          BY <1>0, <1>3 DEF TypeOK
      <3>2. made'[c] <= lost'[c] + (IF r = "ok" THEN 1 ELSE 0)
          BY <2>1, <2>2, <3>1
      <3>3. op[c] \in Creates /\ lost'[c] = 0 => (r = "ok" <=> made'[c] = 1)
          BY <2>1, <2>2, <3>1
      <3>4. op[c] = "waitDeleted" /\ r = "ok" => cluster'.gen = 0
          BY <1>0, <1>3, <2>2 DEF ServerInv, Waits
      <3> QED
          BY <1>0, <1>4, <2>2, <3>2, <3>3, <3>4, ReturnIsFine
    <2>3. CASE /\ op[c] \in Waits /\ NextPoll(c)
               /\ op[c] = "waitDeleted" => s # "404"
               /\ op[c] = "waitActive" => ~(s = "2xx" /\ cluster.ready = "yes")
               /\ op[c] = "waitDriver" => ~(s = "2xx" /\ driver = "active")
      <3>1. steady[c] # "yes"
        <4>1. steady[c] = "yes" => Goal(op[c])
            BY <1>0 DEF Fine, Tolerant
        <4>2. ~Goal(op[c])
            BY <1>0, <1>3, <2>3 DEF Goal, ServerInv
        <4> QED
            BY <4>1, <4>2
      <3>2. made' = made /\ hit' = hit /\ op[c] # "delete"
          BY <1>3, <2>3 DEF Waits, Creates, Named
      <3>3. gens' = gens
          BY <1>1, <2>3 DEF Waits, Serve, ServeCreate, ServeDelete, ServeActivate, ServeRead, Keep,
             server, Named, TypeOK
      <3> QED
          BY <1>0, <2>1, <2>3, <3>1, <3>2, <3>3, PollIsFine
    <2> QED
        BY <1>0, <1>1, <2>2, <2>3, ReceiveEffect
  <1>8. ASSUME NEW d \in Callers \ {c} PROVE Fine(d)'
    <2>1. pc'[d] = pc[d] /\ op'[d] = op[d] /\ ret'[d] = ret[d] /\ polls'[d] = polls[d]
        BY <1>0, <1>5, OnlyOwn
    <2>2. Fine(d)
        BY DEF RancherInv
    <2> QED
        BY <1>0, <1>2, <1>3, <1>4, <2>1, <2>2, OthersStayFine
  <1> QED
      BY <1>3, <1>6, <1>7, <1>8 DEF RancherInv

\* Whatever a request has done whose answer its caller does not see, it is one
\* answer lost, and one object more at most.
LEMMA UnseenEffect ==
  ASSUME RancherInv, NEW c \in Callers, pc[c] = "send", Unseen(c)
  PROVE  /\ ServerTypes' /\ ServerInv' /\ Renumbered
         /\ hit' \in [Callers -> Nat] /\ made' \in [Callers -> Nat] /\ lost' \in [Callers -> Nat]
         /\ made'[c] \in Nat /\ lost'[c] \in Nat /\ made'[c] <= lost'[c] /\ hit'[c] \in 0..gens'
         /\ \A d \in Callers \ {c} : hit'[d] = hit[d] /\ made'[d] = made[d] /\ lost'[d] = lost[d]
         /\ op[c] \in Waits => /\ made'[c] = made[c] /\ lost'[c] \in {lost[c], lost[c] + 1}
                               /\ hit'[c] = hit[c] /\ gens' = gens
  <1>0. /\ TypeOK /\ ServerInv /\ Fine(c) /\ "2xx" \in Statuses
      BY DEF RancherInv, Statuses
  <1>1. /\ made[c] <= lost[c] /\ made[c] \in Nat /\ lost[c] \in Nat /\ hit[c] \in 0..gens
      BY <1>0 DEF Fine, Accounted, Gone, Tolerant, TypeOK
  <1>2. CASE UNCHANGED <<server, made, lost, hit>>
    <2>1. UNCHANGED <<cluster, gens, taken, driver, made, lost, hit>>
        BY <1>2 DEF server
    <2>2. Renumbered /\ ServerInv' /\ ServerTypes'
        BY <1>0, <2>1 DEF Renumbered, ServerInv, ServerTypes, TypeOK
    <2> QED
        BY <1>0, <1>1, <2>1, <2>2 DEF TypeOK
  <1>3. CASE Serve(c, "2xx") /\ lost' = [lost EXCEPT ![c] = @ + 1]
    <2>2. /\ ServerTypes' /\ ServerInv' /\ Renumbered
          /\ hit' = hit \/ (op[c] = "delete" /\ hit' = [hit EXCEPT ![c] = cluster.gen])
          /\ IF op[c] \in Creates THEN made' = [made EXCEPT ![c] = @ + 1] ELSE made' = made
        BY <1>0, <1>3, ServeEffect
    <2>3. /\ lost' \in [Callers -> Nat] /\ lost'[c] = lost[c] + 1
          /\ \A d \in Callers \ {c} : lost'[d] = lost[d]
        BY <1>0, <1>3 DEF TypeOK
    <2>4. /\ made' \in [Callers -> Nat] /\ made'[c] \in {made[c], made[c] + 1}
          /\ \A d \in Callers \ {c} : made'[d] = made[d]
        BY <1>0, <2>2 DEF TypeOK
    <2>5. /\ hit' \in [Callers -> Nat] /\ hit'[c] \in 0..gens'
          /\ \A d \in Callers \ {c} : hit'[d] = hit[d]
        BY <1>0, <1>1, <2>2 DEF TypeOK, ServerInv, Renumbered
    <2>6. op[c] \in Waits => made' = made /\ hit' = hit /\ gens' = gens
      <3>1. op[c] \in Waits => op[c] \notin Creates /\ op[c] # "delete"
          BY DEF Waits, Creates, Named
      <3>2. op[c] \in Waits => gens' = gens
          BY <1>0, <1>3 DEF Waits, Serve, ServeCreate, ServeDelete, ServeActivate, ServeRead,
             Keep, server, Named, TypeOK
      <3> QED
          BY <2>2, <3>1, <3>2
    <2>7. made'[c] <= lost'[c] /\ made'[c] \in Nat /\ lost'[c] \in Nat
        BY <1>1, <2>3, <2>4
    <2> QED
        BY <2>2, <2>3, <2>4, <2>5, <2>6, <2>7
  <1> QED
      BY <1>2, <1>3 DEF Unseen

\* The server, or a proxy before it, answers by an error.
LEMMA ServerErrorIsFine ==
  ASSUME RancherInv, NEW c \in Callers, ServerError(c), Track
  PROVE  RancherInv'
  <1>0. /\ TypeOK /\ ServerInv /\ Fine(c) /\ pc[c] = "send" /\ "5xx" \in Statuses
        /\ UNCHANGED <<calls, events>> /\ Unseen(c)
        /\ Receive(c, "5xx") /\ failed' = [failed EXCEPT ![c] = @ + 1] /\ faults' = faults + 1
      BY DEF RancherInv, ServerError, Statuses
  <1>2. /\ ServerTypes' /\ ServerInv' /\ Renumbered
        /\ hit' \in [Callers -> Nat] /\ made' \in [Callers -> Nat] /\ lost' \in [Callers -> Nat]
        /\ made'[c] \in Nat /\ lost'[c] \in Nat /\ made'[c] <= lost'[c] /\ hit'[c] \in 0..gens'
        /\ \A d \in Callers \ {c} : hit'[d] = hit[d] /\ made'[d] = made[d] /\ lost'[d] = lost[d]
        /\ op[c] \in Waits => /\ made'[c] = made[c] /\ lost'[c] \in {lost[c], lost[c] + 1}
                              /\ hit'[c] = hit[c] /\ gens' = gens
      BY <1>0, UnseenEffect
  <1>3. \/ NextPoll(c)
        \/ \E r \in {"ok", "error", "nil"} : Return(c, r)
      BY <1>0, ReceiveEffect
  <1>4. TypeOK'
    <2>1. RequestTypes'
        BY <1>0, <1>3, RequestTyped
    <2>2. steady' \in [Callers -> {"yes", "no"}]
        BY DEF Track
    <2>3. failed' \in [Callers -> Nat] /\ faults' \in Nat /\ calls' \in Nat /\ events' \in Nat
        BY <1>0 DEF TypeOK
    <2> QED
        BY <1>2, <2>1, <2>2, <2>3 DEF TypeOK, RequestTypes, ServerTypes
  <1>5. Fine(c)'
    <2>1. failed'[c] = failed[c] + 1
        BY <1>0 DEF TypeOK
    <2>2. ASSUME NEW r \in {"ok", "error", "nil"}, Return(c, r),
                 op[c] \in Creates => r = "error",
                 op[c] \notin Waits
          PROVE  Fine(c)'
      <3>1. made'[c] <= lost'[c] + (IF r = "ok" THEN 1 ELSE 0)
          BY <1>2
      <3>2. op[c] \in Creates /\ lost'[c] = 0 => (r = "ok" <=> made'[c] = 1)
          BY <1>2, <2>2
      <3>3. op[c] # "waitDeleted"
          BY <2>2 DEF Waits
      <3> QED
          BY <1>0, <1>2, <2>2, <3>1, <3>2, <3>3, ReturnIsFine
    <2>3. CASE op[c] \in Waits /\ NextPoll(c)
        BY <1>0, <1>2, <2>1, <2>3, PollIsFine
    <2>4. \/ op[c] \in Waits /\ NextPoll(c)
          \/ \E r \in {"ok", "error", "nil"} :
              Return(c, r) /\ (op[c] \in Creates => r = "error") /\ op[c] \notin Waits
        BY <1>0 DEF Receive, CreateRancherSecret, CreateClusterSecret, CreateOpenstackMachine,
           CreateClusterRepo, CreateCloudCredential, CreateKubernetes, DeleteKubernetes,
           ActivateNodeDriver, IsNodeDriverConfigable, ListKubernetes, GetKubernetesConfig,
           WaitKubernetesActive, WaitKubernetesDeleted, WaitNodeDriverStatus, Waits, Creates, Named
    <2> QED
        BY <2>2, <2>3, <2>4
  <1>6. ASSUME NEW d \in Callers \ {c} PROVE Fine(d)'
    <2>1. pc'[d] = pc[d] /\ op'[d] = op[d] /\ ret'[d] = ret[d] /\ polls'[d] = polls[d]
        BY <1>0, <1>3, OnlyOwn
    <2>2. Fine(d) /\ failed'[d] = failed[d]
        BY <1>0 DEF RancherInv, TypeOK
    <2> QED
        BY <1>0, <1>2, <2>1, <2>2, OthersStayFine
  <1> QED
      BY <1>2, <1>4, <1>5, <1>6 DEF RancherInv

\* A request that failed for good ends its operation, or is one poll of a wait.
LEMMA RequestFailedIsFine ==
  ASSUME TypeOK, NEW c \in Callers, Fine(c), pc[c] = "send", Track, RequestFailed(c),
         failed' = [failed EXCEPT ![c] = @ + 1],
         made'[c] \in Nat, lost'[c] \in Nat, made'[c] <= lost'[c], hit'[c] \in 0..gens',
         op[c] \in Waits => /\ made'[c] = made[c] /\ lost'[c] \in {lost[c], lost[c] + 1}
                            /\ hit'[c] = hit[c] /\ gens' = gens
  PROVE  /\ Fine(c)' /\ RequestTypes' /\ failed' \in [Callers -> Nat]
         /\ \A d \in Callers \ {c} :
                /\ pc'[d] = pc[d] /\ op'[d] = op[d] /\ ret'[d] = ret[d] /\ polls'[d] = polls[d]
                /\ failed'[d] = failed[d]
  <1>2. failed' \in [Callers -> Nat] /\ failed'[c] = failed[c] + 1
      BY DEF TypeOK
  <1>3. \/ op[c] \in Waits /\ NextPoll(c)
        \/ op[c] \notin Waits /\ Return(c, "error")
      BY DEF RequestFailed
  <1>4. ASSUME op[c] \in Waits, NextPoll(c) PROVE Fine(c)'
      BY <1>2, <1>4, PollIsFine
  <1>5. ASSUME op[c] \notin Waits, Return(c, "error") PROVE Fine(c)'
    <2>1. made'[c] <= lost'[c] + (IF "error" = "ok" THEN 1 ELSE 0)
        OBVIOUS
    <2>2. op[c] # "waitDeleted"
        BY <1>5 DEF Waits
    <2>3. lost'[c] = 0 => made'[c] # 1
        OBVIOUS
    <2> QED
        BY <1>5, <2>1, <2>2, <2>3, ReturnIsFine
  <1>6. RequestTypes'
      BY <1>3, RequestTyped
  <1>7. ASSUME NEW d \in Callers \ {c}
        PROVE  pc'[d] = pc[d] /\ op'[d] = op[d] /\ ret'[d] = ret[d] /\ polls'[d] = polls[d]
      BY <1>3, OnlyOwn
  <1>8. \A d \in Callers \ {c} : failed'[d] = failed[d]
      BY DEF TypeOK
  <1> QED
      BY <1>2, <1>3, <1>4, <1>5, <1>6, <1>7, <1>8

\* A try that brings no answer is repeated, or fails the request.
LEMMA TransportErrorIsFine ==
  ASSUME TypeOK, NEW c \in Callers, Fine(c), pc[c] = "send", Track, TransportError(c),
         made'[c] \in Nat, lost'[c] \in Nat, made'[c] <= lost'[c], hit'[c] \in 0..gens',
         op[c] \in Waits => /\ made'[c] = made[c] /\ lost'[c] \in {lost[c], lost[c] + 1}
                            /\ hit'[c] = hit[c] /\ gens' = gens
  PROVE  /\ Fine(c)' /\ RequestTypes' /\ failed' \in [Callers -> Nat]
         /\ \A d \in Callers \ {c} :
                /\ pc'[d] = pc[d] /\ op'[d] = op[d] /\ ret'[d] = ret[d] /\ polls'[d] = polls[d]
                /\ failed'[d] = failed[d]
  <1>1. CASE tries[c] < RetryCount
    <2>1. tries' = [tries EXCEPT ![c] = @ + 1] /\ UNCHANGED <<pc, op, polls, ret, failed>>
        BY <1>1 DEF TransportError
    <2>2. RequestTypes' /\ failed' \in [Callers -> Nat]
      <3>1. tries[c] + 1 \in 0..RetryCount
          BY <1>1, RetryAssumption DEF TypeOK
      <3> QED
          BY <2>1, <3>1 DEF RequestTypes, TypeOK
    <2>3. Fine(c)'
        BY <2>1, GoingOnIsFine DEF Fine, Tolerant
    <2> QED
        BY <2>1, <2>2, <2>3
  <1>2. CASE ~(tries[c] < RetryCount)
      BY <1>2, RequestFailedIsFine DEF TransportError
  <1> QED
      BY <1>1, <1>2

\* A request is lost, or its answer is, or nobody can read it.
LEMMA LossesAreFine ==
  ASSUME RancherInv, NEW c \in Callers, RequestLost(c) \/ DecodeError(c), Track
  PROVE  RancherInv'
  <1>0. /\ TypeOK /\ ServerInv /\ Fine(c) /\ pc[c] = "send" /\ Unseen(c)
        /\ TransportError(c) \/ (RequestFailed(c) /\ failed' = [failed EXCEPT ![c] = @ + 1])
        /\ faults' = faults + 1 /\ UNCHANGED <<calls, events>>
      BY DEF RancherInv, RequestLost, DecodeError, Unseen
  <1>2. /\ ServerTypes' /\ ServerInv' /\ Renumbered
        /\ hit' \in [Callers -> Nat] /\ made' \in [Callers -> Nat] /\ lost' \in [Callers -> Nat]
        /\ made'[c] \in Nat /\ lost'[c] \in Nat /\ made'[c] <= lost'[c] /\ hit'[c] \in 0..gens'
        /\ \A d \in Callers \ {c} : hit'[d] = hit[d] /\ made'[d] = made[d] /\ lost'[d] = lost[d]
        /\ op[c] \in Waits => /\ made'[c] = made[c] /\ lost'[c] \in {lost[c], lost[c] + 1}
                              /\ hit'[c] = hit[c] /\ gens' = gens
      BY <1>0, UnseenEffect
  <1>4. /\ Fine(c)' /\ RequestTypes' /\ failed' \in [Callers -> Nat]
        /\ \A d \in Callers \ {c} :
               /\ pc'[d] = pc[d] /\ op'[d] = op[d] /\ ret'[d] = ret[d] /\ polls'[d] = polls[d]
               /\ failed'[d] = failed[d]
    <2>1. CASE TransportError(c)
        BY <1>0, <1>2, <2>1, TransportErrorIsFine
    <2>2. CASE RequestFailed(c) /\ failed' = [failed EXCEPT ![c] = @ + 1]
        BY <1>0, <1>2, <2>2, RequestFailedIsFine
    <2> QED
        BY <1>0, <2>1, <2>2
  <1>5. TypeOK'
    <2>1. steady' \in [Callers -> {"yes", "no"}]
        BY DEF Track
    <2>2. faults' \in Nat /\ calls' \in Nat /\ events' \in Nat
        BY <1>0 DEF TypeOK
    <2> QED
        BY <1>2, <1>4, <2>1, <2>2 DEF TypeOK, RequestTypes, ServerTypes
  <1>6. ASSUME NEW d \in Callers \ {c} PROVE Fine(d)'
    <2>1. Fine(d)
        BY DEF RancherInv
    <2> QED
        BY <1>0, <1>2, <1>4, <2>1, OthersStayFine
  <1> QED
      BY <1>2, <1>4, <1>5, <1>6 DEF RancherInv

\* A call begins, or ends before it has sent anything.
LEMMA CallsAreFine ==
  ASSUME RancherInv, NEW c \in Callers, NEW o \in Ops, Call(c, o) \/ Reject(c, o), Track
  PROVE  RancherInv'
  <1>0. /\ TypeOK /\ ServerInv /\ Fine(c) /\ pc[c] = "idle" /\ calls' = calls + 1
        /\ UNCHANGED <<cluster, gens, taken, driver, faults, events>>
      BY DEF RancherInv, Call, Reject, server
  <1>1. Renumbered /\ ServerInv' /\ ServerTypes'
      BY <1>0 DEF Renumbered, ServerInv, ServerTypes, TypeOK
  <1>2. steady' \in [Callers -> {"yes", "no"}]
      BY DEF Track
  <1>3. CASE Call(c, o)
    <2>1. /\ pc' = [pc EXCEPT ![c] = "send"] /\ op' = [op EXCEPT ![c] = o]
          /\ tries' = [tries EXCEPT ![c] = 0] /\ polls' = [polls EXCEPT ![c] = 0]
          /\ ret' = [ret EXCEPT ![c] = "none"] /\ made' = [made EXCEPT ![c] = 0]
          /\ lost' = [lost EXCEPT ![c] = 0] /\ failed' = [failed EXCEPT ![c] = 0]
          /\ hit' \in {hit, [hit EXCEPT ![c] = 0]}
      <3>1. hit' = [hit EXCEPT ![c] = IF o = "delete" THEN 0 ELSE @]
          BY <1>3 DEF Call
      <3>2. hit' \in {hit, [hit EXCEPT ![c] = 0]}
          BY <1>0, <3>1 DEF TypeOK
      <3> QED
          BY <1>3, <3>2 DEF Call
    <2>2. TypeOK'
        BY <1>0, <1>2, <2>1, RetryAssumption DEF TypeOK
    <2>3. /\ pc'[c] = "send" /\ op'[c] = o /\ ret'[c] = "none" /\ made'[c] = 0 /\ lost'[c] = 0
          /\ failed'[c] = 0 /\ polls'[c] = 0 /\ hit'[c] \in 0..gens'
        BY <1>0, <2>1 DEF TypeOK, Fine, Gone
    <2>4. steady'[c] = "yes" => Goal(op[c])'
      <3>1. steady'[c] = "yes" => Goal(op'[c])
          BY <1>0, <2>3 DEF Track
      <3> QED
          BY <1>0, <2>3, <3>1 DEF Goal
    <2>5. Fine(c)'
        BY <2>3, <2>4 DEF Fine, Accounted, Gone, Tolerant
    <2>6. ASSUME NEW d \in Callers \ {c} PROVE Fine(d)'
      <3>1. Fine(d)
          BY DEF RancherInv
      <3>2. /\ pc'[d] = pc[d] /\ op'[d] = op[d] /\ ret'[d] = ret[d] /\ polls'[d] = polls[d]
            /\ made'[d] = made[d] /\ lost'[d] = lost[d] /\ failed'[d] = failed[d]
            /\ hit'[d] = hit[d]
          BY <1>0, <2>1 DEF TypeOK
      <3> QED
          BY <1>0, <1>1, <3>1, <3>2, OthersStayFine
    <2> QED
        BY <1>1, <2>2, <2>5, <2>6 DEF RancherInv
  <1>4. CASE Reject(c, o)
    <2>1. /\ op' = [op EXCEPT ![c] = o] /\ ret' = [ret EXCEPT ![c] = "rejected"]
          /\ made' = [made EXCEPT ![c] = 0]
          /\ UNCHANGED <<pc, tries, polls, lost, failed, hit>>
        BY <1>4 DEF Reject
    <2>2. TypeOK'
        BY <1>0, <1>2, <2>1 DEF TypeOK
    <2>3. pc'[c] = "idle" /\ ret'[c] = "rejected" /\ made'[c] = 0 /\ lost'[c] \in Nat
          /\ hit'[c] \in 0..gens'
        BY <1>0, <2>1 DEF TypeOK, Fine, Gone
    <2>4. Fine(c)'
        BY <2>3 DEF Fine, Accounted, Gone, Tolerant
    <2>5. ASSUME NEW d \in Callers \ {c} PROVE Fine(d)'
      <3>1. Fine(d)
          BY DEF RancherInv
      <3>2. op'[d] = op[d] /\ ret'[d] = ret[d] /\ made'[d] = made[d]
          BY <1>0, <2>1 DEF TypeOK
      <3> QED
          BY <1>0, <1>1, <2>1, <3>1, <3>2, OthersStayFine
    <2> QED
        BY <1>1, <2>2, <2>4, <2>5 DEF RancherInv
  <1> QED
      BY <1>3, <1>4

\* What the controllers do is another change on the server.
LEMMA ControllersAreFine ==
  ASSUME RancherInv, Controllers, Track
  PROVE  RancherInv'
  <1>0. /\ TypeOK /\ ServerInv /\ events' = events + 1
        /\ UNCHANGED <<gens, taken, pc, op, tries, polls, ret, made, lost, failed, hit, faults,
                       calls>>
      BY DEF RancherInv, Controllers, request
  <1>1. Renumbered /\ ServerInv' /\ ServerTypes'
    <2>1. CASE /\ cluster.phase # "absent"
               /\ \E r \in {"yes", "no"} \ {cluster.ready} :
                    cluster' = [cluster EXCEPT !.ready = r]
               /\ UNCHANGED driver
        BY <1>0, <2>1 DEF Renumbered, ServerInv, ServerTypes, TypeOK
    <2>2. CASE cluster' = NoCluster /\ UNCHANGED driver
        BY <1>0, <2>2 DEF Renumbered, ServerInv, ServerTypes, TypeOK, NoCluster
    <2>3. CASE driver' = "active" /\ UNCHANGED cluster
        BY <1>0, <2>3 DEF Renumbered, ServerInv, ServerTypes, TypeOK
    <2> QED
        BY <2>1, <2>2, <2>3 DEF Controllers
  <1>2. TypeOK'
    <2>1. steady' \in [Callers -> {"yes", "no"}]
        BY DEF Track
    <2> QED
        BY <1>0, <1>1, <2>1 DEF TypeOK, ServerTypes
  <1>3. ASSUME NEW d \in Callers PROVE Fine(d)'
    <2>1. Fine(d)
        BY DEF RancherInv
    <2> QED
        BY <1>0, <1>1, <2>1, OthersStayFine
  <1> QED
      BY <1>1, <1>2, <1>3 DEF RancherInv

\* The invariant of any reachable state.
LEMMA RancherAlways == Spec => []RancherInv
  <1>1. Init => RancherInv
    <2> SUFFICES ASSUME Init PROVE RancherInv
        OBVIOUS
    <2>1. cluster = NoCluster /\ cluster.gen = 0 /\ cluster.phase = "absent" /\ cluster.ready = "no"
        BY DEF Init, NoCluster
    <2>2. TypeOK
        BY RetryAssumption DEF Init, TypeOK, NoCluster, Ops
    <2>3. ServerInv
        BY <2>1 DEF Init, ServerInv
    <2>4. ASSUME NEW c \in Callers PROVE Fine(c)
        BY DEF Init, Fine, Accounted, Gone, Tolerant, Creates, Waits, Named
    <2> QED
        BY <2>2, <2>3, <2>4 DEF RancherInv
  <1>2. RancherInv /\ [Next]_vars => RancherInv'
    <2> SUFFICES ASSUME RancherInv, [Next]_vars PROVE RancherInv'
        OBVIOUS
    <2>1. CASE UNCHANGED vars
      <3>1. UNCHANGED <<cluster, gens, taken, driver, pc, op, tries, polls, ret, made, lost, failed,
                        hit, steady, faults, calls, events>>
          BY <2>1 DEF vars, server, request
      <3>2. TypeOK' /\ ServerInv'
          BY <3>1 DEF RancherInv, TypeOK, ServerInv
      <3>3. ASSUME NEW c \in Callers PROVE Fine(c)'
        <4>1. Fine(c)
            BY DEF RancherInv
        <4> QED
            BY <3>1, <4>1 DEF Fine, Accounted, Gone, Tolerant, Goal
      <3> QED
          BY <3>2, <3>3 DEF RancherInv
    <2>2. ASSUME NEW c \in Callers, NEW o \in Uses[c], Call(c, o) \/ Reject(c, o), Track
          PROVE  RancherInv'
      <3>1. o \in Ops
          BY UsesAssumption
      <3> QED
          BY <2>2, <3>1, CallsAreFine
    <2>3. ASSUME NEW c \in Callers, Step(c) PROVE RancherInv'
        BY <2>3, AnsweredIsFine, ServerErrorIsFine, LossesAreFine DEF Step, Try
    <2>4. CASE Controllers /\ Track
        BY <2>4, ControllersAreFine
    <2> QED
        BY <2>1, <2>2, <2>3, <2>4 DEF Next
  <1> QED
      BY <1>1, <1>2, PTL DEF Spec

-----------------------------------------------------------------------------

\* Tries and polls stay within RetryCount and Attempts.
THEOREM TypesAreKept == Spec => []TypeOK
  <1>1. RancherInv => TypeOK
      BY DEF RancherInv
  <1> QED
      BY <1>1, RancherAlways, PTL

\* A creation that is tried again leaves a second object only for an answer
\* that the caller did not get to see.
THEOREM CreationsAreAccounted == Spec => []CreationsAreAccountedFor
  <1>1. RancherInv => CreationsAreAccountedFor
      BY DEF RancherInv, Fine, Accounted, CreationsAreAccountedFor
  <1> QED
      BY <1>1, RancherAlways, PTL

\* A cluster whose deletion was waited for is never the one that is there.
THEOREM DeletedStaysGone == Spec => []DeletedIsGone
  <1>1. RancherInv => DeletedIsGone
      BY DEF RancherInv, Fine, Gone, DeletedIsGone
  <1> QED
      BY <1>1, RancherAlways, PTL

\* A wait whose goal holds from the beginning fails only if all its polls do.
THEOREM WaitsTolerateFaults == Spec => []WaitToleratesFaults
  <1>1. RancherInv => WaitToleratesFaults
      BY DEF RancherInv, Fine, Tolerant, WaitToleratesFaults
  <1> QED
      BY <1>1, RancherAlways, PTL
=============================================================================
