---------------------------- MODULE Integrations ----------------------------
(***************************************************************************)
(* The helpers that have no state in common: a Helm release, a Mongo store,*)
(* the mailer, SSH sessions, and the users of Keycloak.  A behaviour is    *)
(* about one of them, its topic; the others stand still.                   *)
(***************************************************************************)
EXTENDS Integers

CONSTANTS
    Programs, Stubborn, Namespaces, MaxApplies, MaxFailures,    \* HelmRelease
    Users, Docs, Parts, MaxOps, MaxTrouble,                     \* MongoStore
    Counts, MaxSends,                                           \* Mailer
    Helpers, Size, MaxUses, MaxBreaks,                          \* SshSession
    Askers, Patient, MaxRequests, MaxMishaps                    \* KeycloakUsers

ASSUME HelmAssumption == Stubborn \subseteq Programs
ASSUME PatientAssumption == Patient \subseteq Askers
ASSUME PartsAssumption == Parts \in Nat \ {0} /\ Size \in Nat
ASSUME CountAssumption == Counts \subseteq Int
ASSUME BoundAssumption ==
    {MaxApplies, MaxFailures, MaxOps, MaxTrouble, MaxSends, MaxUses, MaxBreaks,
     MaxRequests, MaxMishaps} \subseteq Nat

VARIABLES
    topic,
    release, places, overdue, operators, at, wanted, found, outcome, alone, torn, applies,
    failures,
    client, docs, files, late, doing, todo, parts, result, asked, failed, calm, ops, trouble,
    tls, auth, count, local, policy, plain, phase, trial, copies, lost, clear, reply, sends,
    conn, step, session, ran, runs, file, done, cut, uses, breaks,
    creds, valid, token, facts, turn, sending, request, response, still, requests, mishaps

Helm == INSTANCE HelmRelease
Mongo == INSTANCE MongoStore
Mail == INSTANCE Mailer
Ssh == INSTANCE SshSession
Accounts == INSTANCE KeycloakUsers

helmVars == <<release, places, overdue, operators, at, wanted, found, outcome, alone, torn,
              applies, failures>>
mongoVars == <<client, docs, files, late, doing, todo, parts, result, asked, failed, calm, ops,
               trouble>>
mailVars == <<tls, auth, count, local, policy, plain, phase, trial, copies, lost, clear, reply,
              sends>>
sshVars == <<conn, step, session, ran, runs, file, done, cut, uses, breaks>>
accountVars == <<creds, valid, token, facts, turn, sending, request, response, still, requests,
                 mishaps>>
vars == <<topic, helmVars, mongoVars, mailVars, sshVars, accountVars>>

Init ==
    /\ topic \in {"helm", "mongo", "mail", "ssh", "accounts"}
    /\ Helm!Init /\ Mongo!Init /\ Mail!Init /\ Ssh!Init /\ Accounts!Init
    /\ topic # "accounts" => facts = {}

HelmStep ==
    topic = "helm" /\ Helm!Next /\ UNCHANGED <<topic, mongoVars, mailVars, sshVars, accountVars>>
MongoStep ==
    topic = "mongo" /\ Mongo!Next /\ UNCHANGED <<topic, helmVars, mailVars, sshVars, accountVars>>
MailStep ==
    topic = "mail" /\ Mail!Next /\ UNCHANGED <<topic, helmVars, mongoVars, sshVars, accountVars>>
SshStep ==
    topic = "ssh" /\ Ssh!Next /\ UNCHANGED <<topic, helmVars, mongoVars, mailVars, accountVars>>
AccountsStep ==
    topic = "accounts" /\ Accounts!Next /\ UNCHANGED <<topic, helmVars, mongoVars, mailVars, sshVars>>

Next == HelmStep \/ MongoStep \/ MailStep \/ SshStep \/ AccountsStep

Spec == Init /\ [][Next]_vars

\* The requests to Keycloak end, with an answer or by their time-outs, and programs
\* that try again after every error do so.
Fairness ==
    /\ \A p \in Stubborn : WF_helmVars(topic = "helm" /\ Helm!Persist(p))
    /\ \A w \in Askers : WF_accountVars(topic = "accounts" /\ Accounts!Proceed(w))
    /\ \A w \in Patient : WF_accountVars(topic = "accounts" /\ Accounts!Persist(w))

FairSpec == Spec /\ Fairness

-----------------------------------------------------------------------------

\* An Apply that nobody interfered with is exact: see HelmRelease.
QuietApplyIsExact == Helm!QuietApplyIsExact

\* Operations that fail or time out leave no release pending: see HelmRelease.
PendingIsAttended == Helm!PendingIsAttended

\* A program that applies again and again succeeds: see HelmRelease.
StubbornSucceeds == topic = "helm" => Helm!StubbornSucceeds

\* Nil means done, but in Get and UploadFile: see MongoStore.
NilMeansDone == Mongo!NilMeansDone

\* Copies of a message are owed to lost answers: see Mailer.
SendIsAccounted == Mail!SendIsAccounted

\* Nothing goes unencrypted that need not: see Mailer.
ClearIsAskedFor == Mail!ClearIsAskedFor

\* Connections leak only from a NewHelper that failed, copies that could be closed
\* are whole, and commands run once: see SshSession.
HelperKeepsItsWord == Ssh!HelperKeepsItsWord

\* "Not found" is never a failure in disguise: see KeycloakUsers.
AnswersAreTrue == Accounts!AnswersAreTrue

\* A fresh token is a login of the service account away: see KeycloakUsers.
ReLoginHelps == topic = "accounts" => Accounts!ReLoginHelps
=============================================================================
