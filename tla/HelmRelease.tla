---------------------------- MODULE HelmRelease -----------------------------
(***************************************************************************)
(* pkg/helm: Apply of one release by programs that each hold a helper of   *)
(* their own.  Apply asks whether the release is there and then upgrades   *)
(* or installs it, in separate requests.  InitOperator keeps the release   *)
(* records of every namespace in "default", so that a release name is      *)
(* taken once and for all.  The record of a release keeps the namespace it *)
(* was installed to; the resources that name none themselves go to, and    *)
(* are deleted from, the namespace that SetNamespace gave the helper last. *)
(***************************************************************************)
EXTENDS Naturals

CONSTANTS
    Programs,   \* programs with a helper
    Stubborn,   \* the programs that apply again after every error
    Namespaces, \* namespaces they deploy to
    MaxApplies, \* bound: operations begun by the others
    MaxFailures \* bound: requests that fail, time-outs, crashes

ApplyOperators == {"install", "upgrade", "get"}
Working == {"installing", "upgrading"}

VARIABLES
    release,    \* the record of the latest revision: [status, space, by]
    places,     \* the namespaces with resources of the release
    overdue,    \* operations that go on in Helm after their time-out
    operators,  \* the operators each helper has, "chart" for a loaded chart
    at,         \* "new", "idle", "get", "install", "upgrade", "installing", ...
    wanted,     \* the namespace of its helper
    found,      \* history: the record when its Apply began
    outcome,    \* of its latest operation: "none", "ok", "error", "panic"
    alone,      \* history: programs that nobody interfered with since
    torn,       \* history: programs that crashed at work, or could not write a record
    applies, failures

NoRelease == [status |-> "none", space |-> "", by |-> "none"]

helper == <<operators, at, wanted, found, outcome>>
cluster == <<release, places, overdue>>
vars == <<cluster, helper, alone, torn, applies, failures>>

Init ==
    /\ release = NoRelease
    /\ places = {}
    /\ overdue = {}
    /\ operators = [p \in Programs |-> {}]
    /\ at = [p \in Programs |-> "new"]
    /\ wanted = [p \in Programs |-> ""]
    /\ found = [p \in Programs |-> NoRelease]
    /\ outcome = [p \in Programs |-> "none"]
    /\ alone = Programs
    /\ torn = {}
    /\ applies = 0
    /\ failures = 0

-----------------------------------------------------------------------------

Failure == failures < MaxFailures /\ failures' = failures + 1

Goto(p, l) == at' = [at EXCEPT ![p] = l]

Return(p, r) ==
    /\ at' = [at EXCEPT ![p] = IF r = "panic" THEN "dead" ELSE "idle"]
    /\ outcome' = [outcome EXCEPT ![p] = r]

\* The others are not alone with the release any more.
Interfere(p) == alone' = alone \ (Programs \ {p})

\* Program p writes the record of the latest revision.
Write(p, r) == release' = r /\ Interfere(p)

Keep == UNCHANGED <<release, alone>>

\* There is a new record, or none: what is overdue has the latest no longer.
Supersede == overdue' = {[l EXCEPT !.last = FALSE] : l \in overdue}

\* NewHelper with an authentication type SetAuth knows; any other is an error
\* and there is no helper.
NewHelper(p) ==
    /\ at[p] = "new"
    /\ Goto(p, "idle")
    /\ UNCHANGED <<cluster, operators, wanted, found, outcome, alone, torn, applies, failures>>

\* InitOperator(o), or LoadChart and its kin for o = "chart": one that fails
\* leaves the operators as they are; a chart that cannot be read takes the place
\* of the one before, one that cannot be fetched does not.
InitOperator(p, o) ==
    /\ at[p] = "idle"
    /\ \/ /\ operators' = [operators EXCEPT ![p] = @ \union {o}]
          /\ UNCHANGED failures
       \/ /\ Failure
          /\ \E gone \in SUBSET ({o} \intersect {"chart"}) :
                operators' = [operators EXCEPT ![p] = @ \ gone]
    /\ UNCHANGED <<cluster, at, wanted, found, outcome, alone, torn, applies>>

\* The three operators of Apply, in this order, up to the first that fails.
InitApplyOperator(p) ==
    /\ at[p] = "idle"
    /\ \/ /\ operators' = [operators EXCEPT ![p] = @ \union ApplyOperators]
          /\ UNCHANGED failures
       \/ /\ Failure
          /\ \E done \in {{}, {"install"}, {"install", "upgrade"}} :
                operators' = [operators EXCEPT ![p] = @ \union done]
    /\ UNCHANGED <<cluster, at, wanted, found, outcome, alone, torn, applies>>

MayBegin(p) ==
    /\ at[p] = "idle"
    /\ applies' = IF p \in Stubborn THEN applies ELSE applies + 1
    /\ applies' <= MaxApplies

\* Apply: SetNamespace writes through InstallClientPtr and to EnvConfig, which all
\* operators follow, and the first request goes through GetClient; either client is
\* nil before its InitOperator.
Apply(p, s) ==
    /\ MayBegin(p)
    /\ wanted' = [wanted EXCEPT ![p] = s]
    /\ found' = [found EXCEPT ![p] = release]
    /\ alone' = alone \union {p}
    /\ \/ /\ {"install", "get"} \subseteq operators[p]
          /\ Goto(p, "get")
          /\ outcome' = [outcome EXCEPT ![p] = "none"]
       \/ ~({"install", "get"} \subseteq operators[p]) /\ Return(p, "panic")
    /\ UNCHANGED <<cluster, operators, torn, failures>>

\* Faulty variant: every release counts as not installed.
GetIgnored(p) ==
    /\ at[p] = "get"
    /\ Goto(p, "install")
    /\ UNCHANGED <<cluster, operators, wanted, found, outcome, alone, torn, applies, failures>>

\* GetClient.Run: any error counts as "not installed".
Get(p) ==
    /\ at[p] = "get"
    /\ \/ /\ Goto(p, IF release.status = "none" THEN "install" ELSE "upgrade")
          /\ UNCHANGED failures
       \/ Failure /\ Goto(p, "install")
    /\ UNCHANGED <<cluster, operators, wanted, found, outcome, alone, torn, applies>>

\* The operation begins with a pending record.  If the answer to that write is
\* lost, it ends at once and the record stays.
Begin(p, r, l) ==
    /\ Write(p, r)
    /\ Supersede
    /\ \/ Goto(p, l) /\ torn' = torn \ {p} /\ UNCHANGED <<outcome, failures>>
       \/ Failure /\ Return(p, "error") /\ torn' = torn \union {p}

\* It does not begin: Helm refuses it, or a request fails.
Refuse(p, condition) ==
    /\ (condition /\ UNCHANGED failures) \/ Failure
    /\ Return(p, "error")
    /\ Keep
    /\ UNCHANGED <<overdue, torn>>

\* InstallClient.RunWithContext begins: Helm refuses a name in use, and there
\* is nothing to install without a chart.
Install(p) ==
    /\ at[p] = "install"
    /\ \/ /\ release.status = "none" /\ "chart" \in operators[p]
          /\ Begin(p, [status |-> "pending", space |-> wanted[p], by |-> p], "installing")
       \/ Refuse(p, release.status # "none" \/ "chart" \notin operators[p])
    /\ UNCHANGED <<places, operators, wanted, found, applies>>

\* UpgradeClient.RunWithContext begins: Helm refuses a release that is gone,
\* pending, or half uninstalled.  The record keeps its namespace.
Upgrade(p) ==
    /\ at[p] = "upgrade"
    /\ \/ /\ {"upgrade", "chart"} \subseteq operators[p]
          /\ release.status \in {"deployed", "failed"}
          /\ Begin(p, [release EXCEPT !.status = "pending", !.by = p], "upgrading")
       \/ /\ "upgrade" \in operators[p]
          /\ Refuse(p, \/ release.status \in {"none", "pending", "uninstalling"}
                       \/ "chart" \notin operators[p])
       \/ /\ "upgrade" \notin operators[p]
          /\ Return(p, "panic")
          /\ Keep
          /\ UNCHANGED <<overdue, torn, failures>>
    /\ UNCHANGED <<places, operators, wanted, found, applies>>

Mine(p) == release.status # "none" /\ release.by = p

\* What p was doing goes on in Helm after the time-out.
Remainder(p) == [op |-> at[p], by |-> p, space |-> wanted[p], last |-> Mine(p)]

\* The record at the end of an operation; a program that cannot write it, or does
\* not learn that it has, leaves a tear.
Record(p, status) ==
    \/ Mine(p) /\ Write(p, [release EXCEPT !.status = status]) /\ UNCHANGED torn
    \/ ~Mine(p) /\ Keep /\ UNCHANGED torn

RecordFails(p, status) ==
    /\ Mine(p)
    /\ \/ Write(p, [release EXCEPT !.status = status])
       \/ UNCHANGED release /\ Interfere(p)
    /\ torn' = torn \union {p}

\* Faulty variant: the error of the operation is not returned.
FinishUnchecked(p) ==
    /\ at[p] \in Working
    /\ \/ Record(p, "deployed") /\ places' = places \union {wanted[p]} /\ UNCHANGED failures
       \/ Failure /\ Record(p, "failed") /\ UNCHANGED places
    /\ Return(p, "ok")
    /\ UNCHANGED <<overdue, operators, wanted, found, applies>>

\* Faulty variant: Apply does not wait for what its time-out ends.
Abandon(p) ==
    /\ at[p] \in Working
    /\ \/ /\ Record(p, "deployed")
          /\ places' = places \union {wanted[p]}
          /\ Return(p, "ok")
          /\ UNCHANGED <<overdue, failures>>
       \/ /\ Failure
          /\ Return(p, "error")
          /\ overdue' = overdue \union {Remainder(p)}
          /\ Keep
          /\ UNCHANGED <<places, torn>>
    /\ UNCHANGED <<operators, wanted, found, applies>>

\* The operation ends: its resources are there and it is marked deployed, or, on an
\* error or after sixty seconds, failed.  A record that cannot be written, or was
\* uninstalled meanwhile, is an error of an upgrade; an installation logs it only.
Finish(p) ==
    /\ at[p] \in Working
    /\ \/ /\ places' = places \union {wanted[p]}
          /\ \/ /\ Record(p, "deployed")
                /\ Return(p, IF at[p] = "installing" \/ Mine(p) THEN "ok" ELSE "error")
                /\ UNCHANGED failures
             \/ /\ Failure
                /\ RecordFails(p, "deployed")
                /\ Return(p, IF at[p] = "installing" THEN "ok" ELSE "error")
          /\ UNCHANGED overdue
       \/ /\ Failure
          /\ places' \in {places, places \union {wanted[p]}}
          /\ Record(p, "failed") \/ RecordFails(p, "failed")
          /\ overdue' \in {overdue, overdue \union {Remainder(p)}}
          /\ Return(p, "error")
    /\ UNCHANGED <<operators, wanted, found, applies>>

\* An operation that timed out comes to its end: more resources, and the record of
\* an installation that is marked failed by now is marked deployed.
Lag(l) ==
    /\ overdue' = overdue \ {l}
    /\ \/ /\ l.op = "installing" /\ l.last
          /\ places' = places \union {l.space}
          /\ release' = [release EXCEPT !.status = "deployed"]
          /\ alone' = {}
       \/ places' \in {places, places \union {l.space}} /\ Keep
    /\ UNCHANGED <<helper, torn, applies, failures>>

\* The program dies, in the middle of an operation or not, and starts anew.
Crash(p) ==
    /\ Failure
    /\ Goto(p, "new")
    /\ operators' = [operators EXCEPT ![p] = {}]
    /\ wanted' = [wanted EXCEPT ![p] = ""]
    /\ outcome' = [outcome EXCEPT ![p] = "none"]
    /\ torn' = IF at[p] \in Working \union {"uninstalling"} THEN torn \union {p} ELSE torn
    /\ overdue' = {l \in overdue : l.by # p}
    /\ Keep
    /\ UNCHANGED <<places, found, applies>>

\* Uninstall takes a release in whatever state it is, and marks it first; if that
\* write fails, it is only logged.
Uninstall(p) ==
    /\ p \notin Stubborn
    /\ MayBegin(p)
    /\ \/ /\ "uninstall" \in operators[p] /\ release.status # "none"
          /\ \/ Write(p, [release EXCEPT !.status = "uninstalling"]) /\ UNCHANGED failures
             \/ Failure /\ Keep
          /\ Goto(p, "uninstalling")
          /\ outcome' = [outcome EXCEPT ![p] = "none"]
       \/ /\ "uninstall" \in operators[p]
          /\ (release.status = "none" /\ UNCHANGED failures) \/ Failure
          /\ Return(p, "error")
          /\ Keep
       \/ "uninstall" \notin operators[p] /\ Return(p, "panic") /\ Keep /\ UNCHANGED failures
    /\ UNCHANGED <<places, overdue, operators, wanted, found, torn>>

\* It deletes the resources in the namespace of the helper, and then the records;
\* where it fails, the release stays as it is marked.
EndUninstall(p) ==
    /\ at[p] = "uninstalling"
    /\ Interfere(p)
    /\ \/ /\ release.status # "none"
          /\ places' = places \ {wanted[p]}
          /\ release' = NoRelease
          /\ Supersede
          /\ Return(p, "none")
          /\ UNCHANGED <<torn, failures>>
       \/ /\ release.status = "none"
          /\ places' = places \ {wanted[p]}
          /\ Return(p, "error")
          /\ UNCHANGED <<release, overdue, torn, failures>>
       \/ /\ Failure
          /\ \/ places' \in {places, places \ {wanted[p]}} /\ UNCHANGED <<release, overdue>>
             \/ places' = places \ {wanted[p]} /\ release' = NoRelease /\ Supersede
          /\ torn' = torn \union {p}
          /\ Return(p, "error")
    /\ UNCHANGED <<operators, wanted, found, applies>>

-----------------------------------------------------------------------------

\* A stubborn program prepares its helper and applies until it succeeds.
Persist(p) ==
    /\ outcome[p] # "ok"
    /\ \/ NewHelper(p)
       \/ ~(ApplyOperators \subseteq operators[p]) /\ InitApplyOperator(p)
       \/ "chart" \notin operators[p] /\ InitOperator(p, "chart")
       \/ /\ ApplyOperators \union {"chart"} \subseteq operators[p]
          /\ \E s \in Namespaces : Apply(p, s)

Step(p) == Get(p) \/ Install(p) \/ Upgrade(p) \/ Finish(p) \/ EndUninstall(p)

Next ==
    \/ \E p \in Programs :
        \/ Step(p)
        \/ Crash(p)
        \/ p \in Stubborn /\ Persist(p)
        \/ /\ p \notin Stubborn
           /\ \/ NewHelper(p)
              \/ InitApplyOperator(p)
              \/ \E o \in {"upgrade", "uninstall", "chart"} : InitOperator(p, o)
              \/ \E s \in Namespaces : Apply(p, s)
              \/ Uninstall(p)
    \/ \E l \in overdue : Lag(l)

Spec == Init /\ [][Next]_vars

-----------------------------------------------------------------------------

Records == [status : {"none", "pending", "deployed", "failed", "uninstalling"},
            space : Namespaces \union {""}, by : Programs \union {"none"}]

\* The record and the helpers hold nothing but what the operations put there.
TypeOK ==
    /\ release \in Records
    /\ places \subseteq Namespaces \union {""}
    /\ overdue \subseteq [op : Working, by : Programs, space : Namespaces \union {""},
                          last : BOOLEAN]
    /\ operators \in [Programs -> SUBSET (ApplyOperators \union {"uninstall", "chart"})]
    /\ at \in [Programs -> Working \union
                {"new", "idle", "get", "install", "upgrade", "uninstalling", "dead"}]
    /\ wanted \in [Programs -> Namespaces \union {""}]
    /\ found \in [Programs -> Records]
    /\ outcome \in [Programs -> {"none", "ok", "error", "panic"}]
    /\ alone \subseteq Programs
    /\ torn \subseteq Programs

\* An Apply that returned no error, and that nobody interfered with, has put its
\* resources into the namespace it was given.  The release is deployed and the
\* program's own, recorded in that namespace or, if the name was taken before, in
\* the namespace of whoever took it; only an installation that could not write its
\* record may have left it pending.
QuietApplyIsExact ==
    \A p \in Programs : outcome[p] = "ok" /\ p \in alone =>
        /\ wanted[p] \in places
        /\ release.by = p
        /\ release.space = IF found[p].status = "none" THEN wanted[p] ELSE found[p].space
        /\ \/ release.status = "deployed"
           \/ release.status = "pending" /\ found[p].status = "none" /\ p \in torn

\* A pending release, which Helm lets nobody apply to, is being worked on, unless
\* its program crashed over it or a write of its record failed: operations that
\* fail or time out leave none behind.
PendingIsAttended ==
    release.status = "pending" => release.by \in torn \/ at[release.by] \in Working

\* The calls of every program return; the requests for records have no deadline.
CallsReturn == \A p \in Programs : []<>(at[p] \in {"new", "idle", "dead"})

\* A program that applies again after every error succeeds in the end, whatever
\* rivals install, upgrade and uninstall, and however Get misled it; only a call
\* that hangs, a crash in the middle of an operation, a record that could not be
\* written and an uninstallation that failed can stop it for ever.
StubbornSucceeds ==
    CallsReturn => \A p \in Stubborn : <>(outcome[p] = "ok" \/ torn # {})
=============================================================================
