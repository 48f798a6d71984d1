------------------------- MODULE IntegrationsProofs -------------------------
(***************************************************************************)
(* The helpers of Integrations, for every number of programs, goroutines,  *)
(* documents and retries, and with any number of faults.  One section per  *)
(* helper: its own steps keep its invariant, and the steps of the others   *)
(* leave its variables alone.                                              *)
(***************************************************************************)
EXTENDS Integrations, Sequences, TLAPS

-----------------------------------------------------------------------------
(* The mailer. *)

CountInv ==
    /\ count \in Int /\ trial \in 0..Mail!MostTrials /\ copies \in Nat /\ lost \in 0..copies
    /\ Mail!SendInv /\ SendIsAccounted

LinkInv == Mail!PolicyInv /\ ClearIsAskedFor

MailInv == Mail!TypeOK /\ CountInv /\ LinkInv

\* Whatever Count is, a trial more is a trial that it allows, and when none is
\* left all have been made.
LEMMA MostTrialsMade ==
  ASSUME count \in Int
  PROVE  /\ Mail!MostTrials \in Nat
         /\ \A n \in 0..Mail!MostTrials :
                /\ n <= count => n + 1 \in 0..Mail!MostTrials
                /\ ~(n <= count) => n \in {0, count + 1}
  BY DEF Mail!MostTrials

\* Every step of the mailer keeps the account of copies and answers.
LEMMA MailCounts ==
  ASSUME CountInv, Mail!Next
  PROVE  CountInv'
  <1>1. /\ Mail!MostTrials \in Nat
        /\ \A n \in 0..Mail!MostTrials :
                /\ n <= count => n + 1 \in 0..Mail!MostTrials
                /\ ~(n <= count) => n \in {0, count + 1}
      BY MostTrialsMade DEF CountInv
  <1>2. count' = count => Mail!MostTrials' = Mail!MostTrials
      BY DEF Mail!MostTrials
  <1> USE DEF CountInv, Mail!SendInv, SendIsAccounted, Mail!SendIsAccounted
  <1>3. ASSUME NEW t \in Mail!TLSValues, NEW a \in BOOLEAN, NEW l \in BOOLEAN, NEW c \in Counts,
               Mail!NewHelper(t, a, c, l)
        PROVE  CountInv'
    <2>1. /\ phase = "none" /\ phase' = "new" /\ count' = c /\ c \in Int
          /\ UNCHANGED <<trial, copies, lost, reply>>
        BY <1>3, CountAssumption DEF Mail!NewHelper
    <2>2. trial = 0 /\ copies = 0 /\ reply = "none"
        BY <1>1, <2>1
    <2>3. Mail!MostTrials' \in Nat
        BY <2>1 DEF Mail!MostTrials
    <2> QED
        BY <2>1, <2>2, <2>3
  <1>4. CASE Mail!SetClient
      BY <1>1, <1>2, <1>4 DEF Mail!SetClient, Mail!options
  <1>5. CASE Mail!Send
      BY <1>1, <1>2, <1>5 DEF Mail!Send, Mail!options
  <1>6. ASSUME NEW offered \in BOOLEAN, Mail!DialAndSend(offered) PROVE CountInv'
    <2>1. /\ phase = "send" /\ trial <= count /\ trial' = trial + 1 /\ count' = count
          /\ \/ copies' = copies + 1 /\ phase' = "ready" /\ reply' = "nil" /\ lost' = lost
             \/ copies' = copies + 1 /\ lost' = lost + 1 /\ phase' = phase /\ reply' = reply
             \/ UNCHANGED <<phase, copies, lost, reply>>
        BY <1>6 DEF Mail!DialAndSend, Mail!Trials, Mail!options
    <2> QED
        BY <1>1, <1>2, <2>1
  <1>7. CASE Mail!SendFailed
      BY <1>1, <1>2, <1>7 DEF Mail!SendFailed, Mail!Trials, Mail!options
  <1> QED
      BY <1>3, <1>4, <1>5, <1>6, <1>7 DEF Mail!Next

\* Every step of the mailer sends in the clear only what the options allow.
LEMMA MailLinks ==
  ASSUME Mail!TypeOK, LinkInv, Mail!Next
  PROVE  LinkInv'
  <1> USE DEF LinkInv, Mail!PolicyInv, ClearIsAskedFor, Mail!ClearIsAskedFor, Mail!TypeOK,
          Mail!TLSValues, Mail!options, Mail!Validate, Mail!Policy
  <1>1. ASSUME NEW t \in Mail!TLSValues, NEW a \in BOOLEAN, NEW l \in BOOLEAN, NEW c \in Counts,
               Mail!NewHelper(t, a, c, l)
        PROVE  LinkInv'
      BY <1>1 DEF Mail!NewHelper
  <1>2. CASE Mail!SetClient
      BY <1>2 DEF Mail!SetClient
  <1>3. CASE Mail!Send
      BY <1>3 DEF Mail!Send
  <1>4. ASSUME NEW offered \in BOOLEAN, Mail!DialAndSend(offered) PROVE LinkInv'
    <2>1. clear' \subseteq clear \union Mail!Exposed(offered)
        BY <1>4 DEF Mail!DialAndSend
    <2>2. UNCHANGED <<tls, auth, count, local, policy, plain>> /\ phase' \in {phase, "ready"}
          /\ phase = "send"
        BY <1>4 DEF Mail!DialAndSend
    <2>3. /\ "message" \in Mail!Exposed(offered) => tls \in {"none", "opportunistic"}
          /\ "password" \in Mail!Exposed(offered) =>
                tls = "none" \/ (tls = "opportunistic" /\ local)
        BY <2>2 DEF Mail!Exposed, Mail!Passes, Mail!Link
    <2> QED
        BY <2>1, <2>2, <2>3
  <1>5. CASE Mail!SendFailed
      BY <1>5 DEF Mail!SendFailed
  <1> QED
      BY <1>1, <1>2, <1>3, <1>4, <1>5 DEF Mail!Next

\* Every step of the mailer keeps the types.
LEMMA MailTypes ==
  ASSUME Mail!TypeOK, Mail!Next, CountInv'
  PROVE  Mail!TypeOK'
  <1> USE DEF Mail!TypeOK, Mail!TLSValues, Mail!options
  <1>1. trial' \in 0..Mail!MostTrials' /\ copies' \in Nat /\ lost' \in 0..copies'
      BY DEF CountInv
  <1>2. ASSUME NEW t \in Mail!TLSValues, NEW a \in BOOLEAN, NEW l \in BOOLEAN, NEW c \in Counts,
               Mail!NewHelper(t, a, c, l)
        PROVE  Mail!TypeOK'
      BY <1>1, <1>2 DEF Mail!NewHelper
  <1>3. CASE Mail!SetClient
      BY <1>1, <1>3 DEF Mail!SetClient, Mail!Policy
  <1>4. CASE Mail!Send
      BY <1>1, <1>4 DEF Mail!Send
  <1>5. ASSUME NEW offered \in BOOLEAN, Mail!DialAndSend(offered) PROVE Mail!TypeOK'
    <2>1. UNCHANGED <<tls, auth, count, local, policy, plain>>
        BY <1>5 DEF Mail!DialAndSend
    <2>2. phase' \in {phase, "ready"} /\ reply' \in {reply, "nil"}
        BY <1>5 DEF Mail!DialAndSend
    <2>3. clear' \subseteq clear \union {"message", "password"}
        BY <1>5 DEF Mail!DialAndSend, Mail!Exposed
    <2>4. /\ (tls \in Mail!TLSValues)' /\ ({auth, local} \subseteq BOOLEAN)' /\ (count \in Counts \union {3})'
          /\ policy' \in {"unset", "NoTLS", "TLSOpportunistic", "TLSMandatory"}
          /\ plain' \in {"no", "PLAIN", "PLAIN-NOENC"}
        BY <2>1
    <2>5. /\ phase' \in {"none", "new", "ready", "invalid", "send"}
          /\ reply' \in {"none", "nil", "error"}
          /\ clear' \subseteq {"message", "password"}
        BY <2>2, <2>3
    <2> QED
        BY <1>1, <2>4, <2>5, Zenon
  <1>6. CASE Mail!SendFailed
      BY <1>1, <1>6 DEF Mail!SendFailed
  <1> QED
      BY <1>2, <1>3, <1>4, <1>5, <1>6 DEF Mail!Next

\* The mailer, from its first state on.
LEMMA MailAlways == Spec => []MailInv
  <1>1. Init => MailInv
    <2> SUFFICES ASSUME Mail!Init PROVE MailInv
        BY DEF Init
    <2>1. Mail!MostTrials \in Nat
        BY DEF Mail!MostTrials, Mail!Init
    <2>2. CountInv
        BY <2>1 DEF CountInv, Mail!Init, Mail!SendInv, SendIsAccounted, Mail!SendIsAccounted
    <2>3. LinkInv
        BY DEF LinkInv, Mail!Init, Mail!PolicyInv, ClearIsAskedFor, Mail!ClearIsAskedFor
    <2>4. Mail!TypeOK
      <3>1. trial \in 0..Mail!MostTrials /\ copies \in Nat /\ lost \in 0..copies
          BY <2>2 DEF CountInv
      <3>2. {auth, local} \subseteq BOOLEAN
          BY Zenon DEF Mail!Init
      <3>3. /\ tls \in Mail!TLSValues /\ count \in Counts \union {3} /\ policy = "unset"
            /\ plain = "no" /\ phase = "none" /\ clear = {} /\ reply = "none"
          BY DEF Mail!Init, Mail!TLSValues
      <3> QED
          BY <3>1, <3>2, <3>3 DEF Mail!TypeOK
    <2> QED
        BY <2>2, <2>3, <2>4 DEF MailInv
  <1>2. MailInv /\ [Next]_vars => MailInv'
    <2>1. ASSUME MailInv, UNCHANGED mailVars PROVE MailInv'
      <3>1. Mail!MostTrials' = Mail!MostTrials
          BY <2>1 DEF mailVars, Mail!MostTrials
      <3>2. CountInv'
          BY <2>1, <3>1 DEF mailVars, MailInv, CountInv, Mail!SendInv, SendIsAccounted,
             Mail!SendIsAccounted
      <3>3. LinkInv'
          BY <2>1 DEF mailVars, MailInv, LinkInv, Mail!PolicyInv, ClearIsAskedFor,
             Mail!ClearIsAskedFor, Mail!Validate, Mail!Policy
      <3>4. Mail!TypeOK'
          BY <2>1, <3>1 DEF mailVars, MailInv, Mail!TypeOK
      <3> QED
          BY <3>2, <3>3, <3>4 DEF MailInv
    <2>2. MailInv /\ Mail!Next => MailInv'
        BY MailCounts, MailLinks, MailTypes DEF MailInv
    <2> QED
        BY <2>1, <2>2
           DEF Next, vars, HelmStep, MongoStep, MailStep, SshStep, AccountsStep
  <1> QED
      BY <1>1, <1>2, PTL DEF Spec

\* Every copy of a message but one is owed to an answer that was lost, whatever
\* Count is, and nil means that the relay has it.
THEOREM SendsAreAccounted == Spec => []SendIsAccounted
  <1>1. MailInv => SendIsAccounted
      BY DEF MailInv, CountInv
  <1> QED
      BY <1>1, MailAlways, PTL

\* A message goes in the clear, and a password with it, only where the options
\* ask for it or the relay is on the host itself, whatever the relay offers.
THEOREM NothingIsDowngraded == Spec => []ClearIsAskedFor
  <1>1. MailInv => ClearIsAskedFor
      BY DEF MailInv, LinkInv
  <1> QED
      BY <1>1, MailAlways, PTL

-----------------------------------------------------------------------------
(* SSH sessions. *)

SshInv == Ssh!TypeOK /\ Ssh!SessionInv /\ HelperKeepsItsWord

\* Every step of a helper keeps its word.
LEMMA SshNext == SshInv /\ Ssh!Next => SshInv'
  <1> SUFFICES ASSUME SshInv, NEW h \in Helpers,
                      Ssh!NewHelper(h) \/ Ssh!SetClients(h) \/ Ssh!Run(h) \/ Ssh!Copy(h)
                          \/ Ssh!Close(h)
               PROVE  SshInv'
      BY DEF Ssh!Next
  <1> USE PartsAssumption DEF SshInv, Ssh!TypeOK, Ssh!SessionInv, HelperKeepsItsWord,
          Ssh!HelperKeepsItsWord, Ssh!Goto, Ssh!Ended
  <1>1. CASE Ssh!NewHelper(h)
      BY <1>1 DEF Ssh!NewHelper
  <1>2. CASE Ssh!SetClients(h)
      BY <1>2 DEF Ssh!SetClients, Ssh!Break
  <1>3. CASE Ssh!Run(h)
      BY <1>3 DEF Ssh!Run, Ssh!Use, Ssh!Break
  <1>4. CASE Ssh!OpenFiles(h)
      BY <1>4 DEF Ssh!OpenFiles, Ssh!Use, Ssh!Break
  <1>5. CASE Ssh!IoCopy(h)
      BY <1>5 DEF Ssh!IoCopy, Ssh!WriteBlock, Ssh!Break
  <1>6. CASE Ssh!CloseFiles(h)
      BY <1>6 DEF Ssh!CloseFiles, Ssh!Break
  <1>7. CASE Ssh!Close(h)
      BY <1>7 DEF Ssh!Close
  <1> QED
      BY <1>1, <1>2, <1>3, <1>4, <1>5, <1>6, <1>7 DEF Ssh!Copy

\* A helper has its connection, a copy without error is whole unless its file could
\* not be closed, and one command runs per helper.
THEOREM HelpersKeepTheirWord == Spec => []HelperKeepsItsWord
  <1>1. Init => SshInv
      BY PartsAssumption
         DEF Init, Ssh!Init, SshInv, Ssh!TypeOK, Ssh!SessionInv, HelperKeepsItsWord,
             Ssh!HelperKeepsItsWord
  <1>2. SshInv /\ [Next]_vars => SshInv'
    <2>1. SshInv /\ UNCHANGED sshVars => SshInv'
        BY DEF sshVars, SshInv, Ssh!TypeOK, Ssh!SessionInv, HelperKeepsItsWord,
               Ssh!HelperKeepsItsWord
    <2> QED
        BY <2>1, SshNext
           DEF Next, vars, HelmStep, MongoStep, MailStep, SshStep, AccountsStep
  <1>3. SshInv => HelperKeepsItsWord
      BY DEF SshInv
  <1> QED
      BY <1>1, <1>2, <1>3, PTL DEF Spec
-----------------------------------------------------------------------------
(* Helm releases. *)

\* What program p knows of the release if nobody interferes.
Knows(p) ==
    p \in alone =>
        /\ at[p] \in {"get", "install", "upgrade"} => release = found[p]
        /\ at[p] = "upgrade" => found[p].status # "none"
        /\ at[p] \in Helm!Working => release.status = "pending" /\ release.by = p
        /\ at[p] = "installing" => found[p].status = "none" /\ release.space = wanted[p]
        /\ at[p] = "upgrading" => found[p].status # "none" /\ release.space = found[p].space
        /\ outcome[p] = "ok" =>
            /\ wanted[p] \in places /\ release.by = p
            /\ found[p].status = "none" => release.space = wanted[p]
            /\ found[p].status # "none" => release.space = found[p].space
            /\ \/ release.status = "deployed"
               \/ release.status = "pending" /\ found[p].status = "none" /\ p \in torn

Attended ==
    release.status = "pending" =>
        /\ release.by \in Programs
        /\ release.by \in torn \/ at[release.by] \in Helm!Working

Known ==
    \A p \in Programs : Knows(p) /\ (outcome[p] = "ok" => at[p] = "idle")

ReleaseInv == Helm!TypeOK /\ Known /\ Attended

HelmAction(p) ==
    \/ Helm!Step(p) \/ Helm!Crash(p) \/ Helm!NewHelper(p) \/ Helm!InitApplyOperator(p)
    \/ \E o \in {"upgrade", "uninstall", "chart"} : Helm!InitOperator(p, o)
    \/ \E s \in Namespaces : Helm!Apply(p, s)
    \/ Helm!Uninstall(p)

Spaces == Namespaces \union {""}

Operators == Helm!ApplyOperators \union {"uninstall", "chart"}

Stations ==
    Helm!Working \union {"new", "idle", "get", "install", "upgrade", "uninstalling", "dead"}

Outcomes == {"none", "ok", "error", "panic"}

Remainders == [op : Helm!Working, by : Programs, space : Spaces, last : BOOLEAN]

\* What a step of program p does: it moves p alone, changes the request of p alone,
\* and if it writes the record or deletes resources then no other program is alone
\* with them; only p can mend a tear of p.
Moved(p) ==
    /\ at' \in [Programs -> Stations] /\ outcome' \in [Programs -> Outcomes]
    /\ \A q \in Programs \ {p} : at'[q] = at[q] /\ outcome'[q] = outcome[q]

Asked(p) ==
    /\ wanted' \in [Programs -> Spaces]
    /\ found' \in [Programs -> Helm!Records]
    /\ \A q \in Programs \ {p} : wanted'[q] = wanted[q] /\ found'[q] = found[q]

Recorded(p) ==
    /\ release' \in Helm!Records /\ alone' \subseteq Programs
    /\ \A q \in Programs \ {p} : q \in alone' => q \in alone /\ release' = release

Placed(p) ==
    /\ places' \subseteq Spaces /\ overdue' \subseteq Remainders
    /\ \A q \in Programs \ {p} : q \in alone' => places \subseteq places'

Torn(p) == torn' \subseteq Programs /\ \A q \in Programs \ {p} : q \in torn => q \in torn'

Equipped == operators' \in [Programs -> SUBSET Operators]

Effects(p) == Moved(p) /\ Asked(p) /\ Recorded(p) /\ Placed(p) /\ Torn(p) /\ Equipped

\* The types by name.
LEMMA HelmTypesByName ==
  Helm!TypeOK =>
    /\ release \in Helm!Records /\ alone \subseteq Programs /\ torn \subseteq Programs
    /\ places \subseteq Spaces /\ overdue \subseteq Remainders
    /\ operators \in [Programs -> SUBSET Operators]
    /\ at \in [Programs -> Stations] /\ outcome \in [Programs -> Outcomes]
    /\ wanted \in [Programs -> Spaces] /\ found \in [Programs -> Helm!Records]
  BY DEF Helm!TypeOK, Operators, Stations, Outcomes, Spaces, Remainders

\* The parts of which the steps are made.
LEMMA HelmParts ==
  ASSUME Helm!TypeOK, NEW p \in Programs
  PROVE  /\ \A l \in Stations : Helm!Goto(p, l) /\ outcome' = outcome => Moved(p)
         /\ \A l \in Stations : \A r \in Outcomes :
                Helm!Goto(p, l) /\ outcome' = [outcome EXCEPT ![p] = r] => Moved(p)
         /\ \A r \in Outcomes : Helm!Return(p, r) => Moved(p)
         /\ UNCHANGED <<at, outcome>> => Moved(p)
         /\ UNCHANGED <<wanted, found>> => Asked(p)
         /\ \A r \in Helm!Records : Helm!Write(p, r) => Recorded(p)
         /\ UNCHANGED release /\ Helm!Interfere(p) => Recorded(p)
         /\ Helm!Keep => Recorded(p)
         /\ UNCHANGED operators => Equipped
         /\ torn' \in {torn, torn \union {p}, torn \ {p}} => Torn(p)
  <1>1. /\ release \in Helm!Records /\ alone \subseteq Programs /\ torn \subseteq Programs
        /\ operators \in [Programs -> SUBSET Operators]
        /\ at \in [Programs -> Stations] /\ outcome \in [Programs -> Outcomes]
        /\ wanted \in [Programs -> Spaces] /\ found \in [Programs -> Helm!Records]
      BY HelmTypesByName
  <1>2. "dead" \in Stations /\ "idle" \in Stations
      BY DEF Stations
  <1>3. ASSUME NEW l \in Stations, Helm!Goto(p, l)
        PROVE  at' \in [Programs -> Stations] /\ \A q \in Programs \ {p} : at'[q] = at[q]
      BY <1>1, <1>3 DEF Helm!Goto
  <1>4. ASSUME NEW r \in Outcomes, outcome' = [outcome EXCEPT ![p] = r]
        PROVE  /\ outcome' \in [Programs -> Outcomes]
               /\ \A q \in Programs \ {p} : outcome'[q] = outcome[q]
      BY <1>1, <1>4
  <1>5. ASSUME NEW r \in Outcomes, Helm!Return(p, r) PROVE Moved(p)
    <2>1. \E l \in Stations : Helm!Goto(p, l)
        BY <1>2, <1>5 DEF Helm!Return, Helm!Goto
    <2>2. outcome' = [outcome EXCEPT ![p] = r]
        BY <1>5 DEF Helm!Return
    <2> QED
        BY <1>3, <1>4, <2>1, <2>2 DEF Moved
  <1>6. ASSUME NEW r \in Helm!Records, Helm!Write(p, r) PROVE Recorded(p)
      BY <1>1, <1>6 DEF Helm!Write, Helm!Interfere, Recorded
  <1>7. /\ Helm!Keep => Recorded(p)
        /\ UNCHANGED release /\ Helm!Interfere(p) => Recorded(p)
      BY <1>1 DEF Helm!Keep, Helm!Interfere, Recorded
  <1>8. /\ UNCHANGED <<at, outcome>> => Moved(p)
        /\ UNCHANGED <<wanted, found>> => Asked(p)
        /\ UNCHANGED operators => Equipped
        /\ torn' \in {torn, torn \union {p}, torn \ {p}} => Torn(p)
      BY <1>1 DEF Moved, Asked, Equipped, Torn
  <1>9. \A l \in Stations : Helm!Goto(p, l) /\ outcome' = outcome => Moved(p)
      BY <1>1, <1>3 DEF Moved
  <1>10. \A l \in Stations : \A r \in Outcomes :
             Helm!Goto(p, l) /\ outcome' = [outcome EXCEPT ![p] = r] => Moved(p)
      BY <1>3, <1>4 DEF Moved
  <1> QED
      BY <1>5, <1>6, <1>7, <1>8, <1>9, <1>10

\* The namespaces and what is overdue: both change in few ways.
LEMMA HelmPlaces ==
  ASSUME Helm!TypeOK, NEW p \in Programs
  PROVE  /\ \A s \in Spaces : places' \in {places, places \union {s}}
                              /\ overdue' \subseteq Remainders => Placed(p)
         /\ \A s \in Spaces : places' \in {places, places \ {s}} /\ Helm!Interfere(p)
                              /\ overdue' \subseteq Remainders => Placed(p)
         /\ UNCHANGED overdue \/ Helm!Supersede => overdue' \subseteq Remainders
         /\ at[p] \in Helm!Working =>
                overdue \union {Helm!Remainder(p)} \subseteq Remainders
  <1>1. /\ places \subseteq Spaces /\ overdue \subseteq Remainders /\ alone \subseteq Programs
        /\ wanted[p] \in Spaces
      BY HelmTypesByName
  <1>2. \A s \in Spaces : places' \in {places, places \union {s}}
                          /\ overdue' \subseteq Remainders => Placed(p)
      BY <1>1 DEF Placed
  <1>3. \A s \in Spaces : places' \in {places, places \ {s}} /\ Helm!Interfere(p)
                          /\ overdue' \subseteq Remainders => Placed(p)
      BY <1>1 DEF Placed, Helm!Interfere
  <1>4. Helm!Supersede => overdue' \subseteq Remainders
    <2>1. ASSUME NEW l \in Remainders PROVE [l EXCEPT !.last = FALSE] \in Remainders
        BY <2>1 DEF Remainders
    <2> QED
        BY <1>1, <2>1 DEF Helm!Supersede
  <1>5. Helm!Mine(p) \in BOOLEAN
      BY DEF Helm!Mine
  <1>6. at[p] \in Helm!Working => Helm!Remainder(p) \in Remainders
      BY <1>1, <1>5 DEF Helm!Remainder, Remainders
  <1> QED
      BY <1>1, <1>2, <1>3, <1>4, <1>6

\* How an operation begins, or does not.
LEMMA HelmBegins ==
  ASSUME Helm!TypeOK, NEW p \in Programs, NEW r \in Helm!Records, NEW l \in Stations,
         NEW c, Helm!Begin(p, r, l) \/ Helm!Refuse(p, c)
  PROVE  Moved(p) /\ Recorded(p) /\ Torn(p) /\ overdue' \subseteq Remainders
  <1>1. "error" \in Outcomes
      BY DEF Outcomes
  <1>2. CASE Helm!Begin(p, r, l)
    <2>1. Recorded(p) /\ overdue' \subseteq Remainders
        BY <1>2, HelmParts, HelmPlaces DEF Helm!Begin
    <2>2. /\ (Helm!Goto(p, l) /\ outcome' = outcome) \/ Helm!Return(p, "error")
          /\ torn' \in {torn, torn \union {p}, torn \ {p}}
        BY <1>2 DEF Helm!Begin
    <2> QED
        BY <1>1, <2>1, <2>2, HelmParts
  <1>3. CASE Helm!Refuse(p, c)
      BY <1>1, <1>3, HelmParts, HelmPlaces DEF Helm!Refuse
  <1> QED
      BY <1>2, <1>3

\* Every step of a program keeps to its own, and keeps the types.
LEMMA HelmEffects ==
  ASSUME Helm!TypeOK, NEW p \in Programs, HelmAction(p)
  PROVE  Effects(p)
  <1>0. /\ release \in Helm!Records /\ alone \subseteq Programs /\ torn \subseteq Programs
        /\ places \subseteq Spaces /\ overdue \subseteq Remainders
        /\ operators \in [Programs -> SUBSET Operators]
        /\ at \in [Programs -> Stations] /\ outcome \in [Programs -> Outcomes]
        /\ wanted \in [Programs -> Spaces] /\ found \in [Programs -> Helm!Records]
      BY HelmTypesByName
  <1>s. /\ {"new", "idle", "get", "install", "upgrade", "installing", "upgrading",
            "uninstalling"} \subseteq Stations
        /\ {"none", "ok", "error", "panic"} \subseteq Outcomes
        /\ "" \in Spaces /\ Namespaces \subseteq Spaces /\ wanted[p] \in Spaces
      BY <1>0 DEF Stations, Outcomes, Helm!Working, Spaces
  <1>o. /\ Helm!ApplyOperators \subseteq Operators
        /\ {"upgrade", "uninstall", "chart", "install"} \subseteq Operators
      BY DEF Operators, Helm!ApplyOperators
  <1>w. /\ [status |-> "pending", space |-> wanted[p], by |-> p] \in Helm!Records
        /\ [release EXCEPT !.status = "pending", !.by = p] \in Helm!Records
        /\ \A st \in {"deployed", "failed", "uninstalling"} :
               [release EXCEPT !.status = st] \in Helm!Records
        /\ Helm!NoRelease \in Helm!Records
      BY <1>0, <1>s DEF Helm!Records, Helm!NoRelease, Spaces
  <1>k. UNCHANGED <<places, overdue>> => Placed(p)
      BY <1>s, HelmPlaces
  <1>1. CASE Helm!NewHelper(p)
    <2>1. /\ Helm!Goto(p, "idle") /\ outcome' = outcome /\ UNCHANGED <<wanted, found>>
          /\ Helm!Keep /\ UNCHANGED operators /\ torn' = torn /\ UNCHANGED <<places, overdue>>
        BY <1>1 DEF Helm!NewHelper, Helm!Keep, Helm!cluster
    <2> QED
        BY <1>s, <1>k, <2>1, HelmParts DEF Effects
  <1>2. CASE \/ Helm!InitApplyOperator(p)
             \/ \E o \in {"upgrade", "uninstall", "chart"} : Helm!InitOperator(p, o)
    <2>1. /\ UNCHANGED <<at, outcome>> /\ UNCHANGED <<wanted, found>> /\ Helm!Keep
          /\ torn' = torn /\ UNCHANGED <<places, overdue>>
        BY <1>2 DEF Helm!InitApplyOperator, Helm!InitOperator, Helm!Keep, Helm!cluster
    <2>2. \E S \in SUBSET Operators :
              \/ operators' = [operators EXCEPT ![p] = @ \union S]
              \/ operators' = [operators EXCEPT ![p] = @ \ S]
      <3>1. CASE Helm!InitApplyOperator(p)
        <4>1. \A some \in {{}, {"install"}, {"install", "upgrade"}} : some \in SUBSET Operators
            BY <1>o
        <4> QED
            BY <1>o, <3>1, <4>1 DEF Helm!InitApplyOperator
      <3>2. ASSUME NEW o \in {"upgrade", "uninstall", "chart"}, Helm!InitOperator(p, o)
            PROVE  \E S \in SUBSET Operators :
                       \/ operators' = [operators EXCEPT ![p] = @ \union S]
                       \/ operators' = [operators EXCEPT ![p] = @ \ S]
        <4>1. {o} \in SUBSET Operators /\ SUBSET ({o} \intersect {"chart"}) \subseteq SUBSET Operators
            BY <1>o
        <4> QED
            BY <3>2, <4>1 DEF Helm!InitOperator
      <3> QED
          BY <1>2, <3>1, <3>2
    <2>3. operators' \in [Programs -> SUBSET Operators]
        BY <1>0, <2>2
    <2> QED
        BY <1>k, <2>1, <2>3, HelmParts DEF Equipped, Effects
  <1>3. ASSUME NEW s \in Namespaces, Helm!Apply(p, s) PROVE Effects(p)
    <2>1. Moved(p)
      <3>1. \/ Helm!Goto(p, "get") /\ outcome' = [outcome EXCEPT ![p] = "none"]
            \/ Helm!Return(p, "panic")
          BY <1>3 DEF Helm!Apply
      <3> QED
          BY <1>s, <3>1, HelmParts
    <2>2. Asked(p)
      <3>1. wanted' = [wanted EXCEPT ![p] = s] /\ found' = [found EXCEPT ![p] = release]
          BY <1>3 DEF Helm!Apply
      <3> QED
          BY <1>0, <1>s, <3>1 DEF Asked
    <2>3. /\ alone' = alone \union {p} /\ UNCHANGED release /\ UNCHANGED operators
          /\ torn' = torn /\ UNCHANGED <<places, overdue>>
        BY <1>3 DEF Helm!Apply, Helm!cluster
    <2>4. Recorded(p)
        BY <1>0, <2>3 DEF Recorded
    <2> QED
        BY <1>k, <2>1, <2>2, <2>3, <2>4, HelmParts DEF Effects
  <1>4. CASE Helm!Get(p)
    <2>1. /\ Helm!Goto(p, "install") \/ Helm!Goto(p, "upgrade")
          /\ outcome' = outcome /\ UNCHANGED <<wanted, found>> /\ Helm!Keep
          /\ UNCHANGED operators /\ torn' = torn /\ UNCHANGED <<places, overdue>>
        BY <1>4 DEF Helm!Get, Helm!Keep, Helm!cluster
    <2> QED
        BY <1>s, <1>k, <2>1, HelmParts DEF Effects
  <1>5. CASE Helm!Install(p)
    <2>1. /\ \E c : \/ Helm!Begin(p, [status |-> "pending", space |-> wanted[p], by |-> p],
                                  "installing")
                    \/ Helm!Refuse(p, c)
          /\ places' = places /\ UNCHANGED <<wanted, found>> /\ UNCHANGED operators
        BY <1>5 DEF Helm!Install
    <2>2. Moved(p) /\ Recorded(p) /\ Torn(p) /\ overdue' \subseteq Remainders
        BY <1>s, <1>w, <2>1, HelmBegins
    <2> QED
        BY <1>s, <2>1, <2>2, HelmParts, HelmPlaces DEF Effects
  <1>6. CASE Helm!Upgrade(p)
    <2>1. places' = places /\ UNCHANGED <<wanted, found>> /\ UNCHANGED operators
        BY <1>6 DEF Helm!Upgrade
    <2>2. \/ Helm!Begin(p, [release EXCEPT !.status = "pending", !.by = p], "upgrading")
          \/ \E c : Helm!Refuse(p, c)
          \/ /\ Helm!Return(p, "panic") /\ Helm!Keep /\ torn' = torn /\ UNCHANGED overdue
        BY <1>6 DEF Helm!Upgrade
    <2>3. Moved(p) /\ Recorded(p) /\ Torn(p) /\ overdue' \subseteq Remainders
        BY <1>s, <1>w, <2>2, HelmBegins, HelmParts, HelmPlaces
    <2> QED
        BY <1>s, <2>1, <2>3, HelmParts, HelmPlaces DEF Effects
  <1>7. CASE Helm!Finish(p)
    <2>1. /\ Helm!Return(p, "ok") \/ Helm!Return(p, "error")
          /\ places' \in {places, places \union {wanted[p]}}
          /\ UNCHANGED <<wanted, found>> /\ UNCHANGED operators
        BY <1>7 DEF Helm!Finish
    <2>2. \E st \in {"deployed", "failed"} : Helm!Record(p, st) \/ Helm!RecordFails(p, st)
        BY <1>7 DEF Helm!Finish
    <2>3. Recorded(p) /\ Torn(p)
        BY <1>w, <2>2, HelmParts DEF Helm!Record, Helm!RecordFails
    <2>4. at[p] \in Helm!Working /\ overdue' \in {overdue, overdue \union {Helm!Remainder(p)}}
        BY <1>7 DEF Helm!Finish
    <2>5. overdue' \subseteq Remainders
        BY <1>0, <2>4, HelmPlaces
    <2> QED
        BY <1>s, <2>1, <2>3, <2>5, HelmParts, HelmPlaces DEF Effects
  <1>8. CASE Helm!EndUninstall(p)
    <2>1. /\ Helm!Return(p, "none") \/ Helm!Return(p, "error")
          /\ places' \in {places, places \ {wanted[p]}} /\ Helm!Interfere(p)
          /\ UNCHANGED overdue \/ Helm!Supersede
          /\ release' \in {release, Helm!NoRelease} /\ torn' \in {torn, torn \union {p}}
          /\ UNCHANGED <<wanted, found>> /\ UNCHANGED operators
        BY <1>8 DEF Helm!EndUninstall
    <2>2. Recorded(p)
        BY <1>w, <2>1, HelmParts DEF Helm!Write
    <2> QED
        BY <1>s, <2>1, <2>2, HelmParts, HelmPlaces DEF Effects
  <1>9. CASE Helm!Crash(p)
    <2>1. /\ Helm!Goto(p, "new") /\ outcome' = [outcome EXCEPT ![p] = "none"]
          /\ Helm!Keep /\ torn' \in {torn, torn \union {p}}
          /\ places' = places /\ overdue' \subseteq overdue
        BY <1>9 DEF Helm!Crash
    <2>2. /\ operators' = [operators EXCEPT ![p] = {}]
          /\ wanted' = [wanted EXCEPT ![p] = ""] /\ found' = found
        BY <1>9 DEF Helm!Crash
    <2>3. Equipped /\ Asked(p)
        BY <1>0, <1>s, <2>2 DEF Equipped, Asked
    <2> QED
        BY <1>0, <1>s, <2>1, <2>3, HelmParts, HelmPlaces DEF Effects
  <1>10. CASE Helm!Uninstall(p)
    <2>1. /\ \/ Helm!Goto(p, "uninstalling") /\ outcome' = [outcome EXCEPT ![p] = "none"]
             \/ Helm!Return(p, "error") \/ Helm!Return(p, "panic")
          /\ \/ Helm!Write(p, [release EXCEPT !.status = "uninstalling"])
             \/ Helm!Keep
          /\ UNCHANGED <<places, overdue>> /\ UNCHANGED <<wanted, found>> /\ UNCHANGED operators
          /\ torn' = torn
        BY <1>10 DEF Helm!Uninstall
    <2> QED
        BY <1>s, <1>k, <1>w, <2>1, HelmParts DEF Effects
  <1> QED
      BY <1>1, <1>2, <1>3, <1>4, <1>5, <1>6, <1>7, <1>8, <1>9, <1>10 DEF HelmAction, Helm!Step

\* Every step of a program keeps the types.
LEMMA HelmTypes ==
  ASSUME Helm!TypeOK, NEW p \in Programs, HelmAction(p)
  PROVE  Helm!TypeOK'
  <1>1. Moved(p) /\ Asked(p) /\ Recorded(p) /\ Placed(p) /\ Torn(p) /\ Equipped
      BY HelmEffects DEF Effects
  <1> QED
      BY <1>1 DEF Moved, Asked, Recorded, Placed, Torn, Equipped, Helm!TypeOK, Operators,
                  Stations, Outcomes, Spaces, Remainders

\* A step of one program leaves what another one knows as it was, unless it
\* writes or deletes: then the other one is not alone any more.
LEMMA OthersKnow ==
  ASSUME Helm!TypeOK, NEW p \in Programs, HelmAction(p), NEW q \in Programs \ {p}
  PROVE  /\ at'[q] = at[q] /\ wanted'[q] = wanted[q] /\ found'[q] = found[q]
         /\ outcome'[q] = outcome[q] /\ (q \in torn => q \in torn')
         /\ q \in alone' => q \in alone /\ release' = release /\ places \subseteq places'
  <1>1. Moved(p) /\ Asked(p) /\ Recorded(p) /\ Placed(p) /\ Torn(p)
      BY HelmEffects DEF Effects
  <1> QED
      BY <1>1 DEF Moved, Asked, Recorded, Placed, Torn

\* Where a program stands after a move or a return.
LEMMA HelmArrives ==
  ASSUME Helm!TypeOK, NEW p \in Programs
  PROVE  /\ \A l \in Stations : Helm!Goto(p, l) => at'[p] = l
         /\ \A r \in Outcomes : outcome' = [outcome EXCEPT ![p] = r] => outcome'[p] = r
         /\ \A r \in {"none", "ok", "error"} :
                Helm!Return(p, r) => at'[p] = "idle" /\ outcome'[p] = r
         /\ Helm!Return(p, "panic") => at'[p] = "dead" /\ outcome'[p] = "panic"
  <1>1. at \in [Programs -> Stations] /\ outcome \in [Programs -> Outcomes]
      BY HelmTypesByName
  <1>2. ASSUME NEW l \in Stations, Helm!Goto(p, l) PROVE at'[p] = l
      BY <1>1, <1>2 DEF Helm!Goto
  <1>3. ASSUME NEW r \in Outcomes, outcome' = [outcome EXCEPT ![p] = r] PROVE outcome'[p] = r
      BY <1>1, <1>3
  <1>4. "idle" \in Stations /\ "dead" \in Stations /\ "panic" \in Outcomes
      BY DEF Stations, Outcomes
  <1>5. ASSUME NEW r \in {"none", "ok", "error"}, Helm!Return(p, r)
        PROVE  at'[p] = "idle" /\ outcome'[p] = r
    <2>1. r \in Outcomes /\ r # "panic"
        BY DEF Outcomes
    <2>2. Helm!Goto(p, "idle") /\ outcome' = [outcome EXCEPT ![p] = r]
        BY <1>5, <2>1 DEF Helm!Return, Helm!Goto
    <2> QED
        BY <1>2, <1>3, <1>4, <2>1, <2>2
  <1>6. ASSUME Helm!Return(p, "panic") PROVE at'[p] = "dead" /\ outcome'[p] = "panic"
    <2>1. Helm!Goto(p, "dead") /\ outcome' = [outcome EXCEPT ![p] = "panic"]
        BY <1>6 DEF Helm!Return, Helm!Goto
    <2> QED
        BY <1>2, <1>3, <1>4, <2>1
  <1> QED
      BY <1>2, <1>3, <1>5, <1>6

\* A program knows after its step what there is to know.
LEMMA OwnStepKnown ==
  ASSUME Helm!TypeOK, NEW p \in Programs, HelmAction(p), Knows(p),
         outcome[p] = "ok" => at[p] = "idle"
  PROVE  Knows(p)' /\ (outcome'[p] = "ok" => at'[p] = "idle")
  <1> DEFINE Goal == Knows(p)' /\ (outcome'[p] = "ok" => at'[p] = "idle")
  <1> USE DEF Helm!Working
  <1>s. /\ {"new", "get", "idle", "install", "upgrade", "installing", "upgrading",
            "uninstalling"} \subseteq Stations
        /\ "none" \in Outcomes
      BY DEF Stations, Outcomes
  <1>r. release \in Helm!Records
      BY HelmTypesByName
  <1>e. ASSUME at'[p] \in {"idle", "dead", "new", "uninstalling"},
               outcome'[p] \in {"none", "error", "panic"}
        PROVE  Goal
      BY <1>e DEF Knows
  <1>1. CASE Helm!NewHelper(p)
    <2>1. /\ at[p] = "new" /\ Helm!Goto(p, "idle")
          /\ UNCHANGED <<release, places, wanted, found, outcome, alone, torn>>
        BY <1>1 DEF Helm!NewHelper, Helm!cluster
    <2>2. at'[p] = "idle"
        BY <1>s, <2>1, HelmArrives
    <2> QED
        BY <2>1, <2>2 DEF Knows
  <1>2. CASE \/ Helm!InitApplyOperator(p)
             \/ \E o \in {"upgrade", "uninstall", "chart"} : Helm!InitOperator(p, o)
    <2>1. UNCHANGED <<release, places, at, wanted, found, outcome, alone, torn>>
        BY <1>2 DEF Helm!InitApplyOperator, Helm!InitOperator, Helm!cluster
    <2> QED
        BY <2>1 DEF Knows
  <1>3. ASSUME NEW s \in Namespaces, Helm!Apply(p, s) PROVE Goal
    <2>1. /\ found' = [found EXCEPT ![p] = release] /\ release' = release
          /\ \/ Helm!Goto(p, "get") /\ outcome' = [outcome EXCEPT ![p] = "none"]
             \/ Helm!Return(p, "panic")
        BY <1>3 DEF Helm!Apply, Helm!cluster
    <2>2. found'[p] = release
        BY <2>1, HelmTypesByName
    <2>3. \/ at'[p] = "get" /\ outcome'[p] = "none"
          \/ at'[p] = "dead" /\ outcome'[p] = "panic"
        BY <1>s, <2>1, HelmArrives
    <2> QED
        BY <2>1, <2>2, <2>3 DEF Knows
  <1>4. CASE Helm!Get(p)
    <2>1. /\ at[p] = "get" /\ UNCHANGED <<release, places, wanted, found, outcome, alone, torn>>
          /\ \/ Helm!Goto(p, "install")
             \/ Helm!Goto(p, "upgrade") /\ release.status # "none"
        BY <1>4 DEF Helm!Get, Helm!cluster
    <2>2. \/ at'[p] = "install"
          \/ at'[p] = "upgrade" /\ release.status # "none"
        BY <1>s, <2>1, HelmArrives
    <2> QED
        BY <2>1, <2>2 DEF Knows
  <1>5. CASE Helm!Install(p)
    <2>1. /\ at[p] = "install" /\ UNCHANGED <<wanted, found>>
          /\ \/ Helm!Return(p, "error")
             \/ /\ release.status = "none" /\ Helm!Goto(p, "installing") /\ UNCHANGED outcome
                /\ release' = [status |-> "pending", space |-> wanted[p], by |-> p]
                /\ alone' \subseteq alone
        BY <1>5 DEF Helm!Install, Helm!Begin, Helm!Refuse, Helm!Write, Helm!Interfere
    <2>2. CASE Helm!Return(p, "error")
        BY <1>e, <2>2, HelmArrives
    <2>3. CASE /\ release.status = "none" /\ Helm!Goto(p, "installing") /\ UNCHANGED outcome
               /\ release' = [status |-> "pending", space |-> wanted[p], by |-> p]
               /\ alone' \subseteq alone
      <3>1. at'[p] = "installing"
          BY <1>s, <2>3, HelmArrives
      <3> QED
          BY <2>1, <2>3, <3>1 DEF Knows
    <2> QED
        BY <2>1, <2>2, <2>3
  <1>6. CASE Helm!Upgrade(p)
    <2>1. /\ at[p] = "upgrade" /\ UNCHANGED <<wanted, found>>
          /\ \/ Helm!Return(p, "error") \/ Helm!Return(p, "panic")
             \/ /\ Helm!Goto(p, "upgrading") /\ UNCHANGED outcome
                /\ release' = [release EXCEPT !.status = "pending", !.by = p]
                /\ alone' \subseteq alone
        BY <1>6 DEF Helm!Upgrade, Helm!Begin, Helm!Refuse, Helm!Write, Helm!Interfere
    <2>2. CASE Helm!Return(p, "error") \/ Helm!Return(p, "panic")
        BY <1>e, <2>2, HelmArrives
    <2>3. CASE /\ Helm!Goto(p, "upgrading") /\ UNCHANGED outcome
               /\ release' = [release EXCEPT !.status = "pending", !.by = p]
               /\ alone' \subseteq alone
      <3>1. release'.status = "pending" /\ release'.by = p /\ release'.space = release.space
          BY <1>r, <2>3 DEF Helm!Records
      <3>2. at'[p] = "upgrading"
          BY <1>s, <2>3, HelmArrives
      <3> QED
          BY <2>1, <2>3, <3>1, <3>2 DEF Knows
    <2> QED
        BY <2>1, <2>2, <2>3
  <1>7. CASE Helm!Finish(p)
    <2>1. at[p] \in Helm!Working /\ UNCHANGED <<wanted, found>>
        BY <1>7 DEF Helm!Finish
    <2>2. \/ Helm!Return(p, "error")
          \/ /\ Helm!Return(p, "ok") /\ places' = places \union {wanted[p]}
             /\ \/ Helm!Record(p, "deployed")
                \/ Helm!RecordFails(p, "deployed") /\ at[p] = "installing"
        BY <1>7 DEF Helm!Finish
    <2>3. CASE Helm!Return(p, "error")
        BY <1>e, <2>3, HelmArrives
    <2>4. CASE Helm!Return(p, "ok") /\ places' = places \union {wanted[p]}
               /\ \/ Helm!Record(p, "deployed")
                  \/ Helm!RecordFails(p, "deployed") /\ at[p] = "installing"
      <3>1. at'[p] = "idle" /\ outcome'[p] = "ok" /\ wanted'[p] \in places'
          BY <2>1, <2>4, HelmArrives
      <3>2. alone' \subseteq alone
          BY <2>4 DEF Helm!Record, Helm!RecordFails, Helm!Write, Helm!Interfere, Helm!Keep
      <3>3. p \in alone => Helm!Mine(p)
          BY <2>1 DEF Knows, Helm!Mine
      <3>4. [release EXCEPT !.status = "deployed"].status = "deployed"
            /\ [release EXCEPT !.status = "deployed"].by = release.by
            /\ [release EXCEPT !.status = "deployed"].space = release.space
          BY <1>r DEF Helm!Records
      <3>5. p \in alone => \/ release' = [release EXCEPT !.status = "deployed"]
                           \/ release' = release /\ at[p] = "installing" /\ p \in torn'
          BY <2>4, <3>3 DEF Helm!Record, Helm!RecordFails, Helm!Write
      <3> QED
          BY <2>1, <3>1, <3>2, <3>4, <3>5 DEF Knows
    <2> QED
        BY <2>2, <2>3, <2>4
  <1>8. CASE Helm!EndUninstall(p)
    <2>1. Helm!Return(p, "none") \/ Helm!Return(p, "error")
        BY <1>8 DEF Helm!EndUninstall
    <2> QED
        BY <1>e, <2>1, HelmArrives
  <1>9. CASE Helm!Crash(p)
    <2>1. Helm!Goto(p, "new") /\ outcome' = [outcome EXCEPT ![p] = "none"]
        BY <1>9 DEF Helm!Crash
    <2> QED
        BY <1>e, <1>s, <2>1, HelmArrives
  <1>10. CASE Helm!Uninstall(p)
    <2>1. \/ Helm!Goto(p, "uninstalling") /\ outcome' = [outcome EXCEPT ![p] = "none"]
          \/ Helm!Return(p, "error") \/ Helm!Return(p, "panic")
        BY <1>10 DEF Helm!Uninstall
    <2> QED
        BY <1>e, <1>s, <2>1, HelmArrives
  <1> QED
      BY <1>1, <1>2, <1>3, <1>4, <1>5, <1>6, <1>7, <1>8, <1>9, <1>10 DEF HelmAction, Helm!Step

\* A pending release stays attended.
LEMMA StaysAttended ==
  ASSUME Helm!TypeOK, NEW p \in Programs, HelmAction(p), Attended
  PROVE  Attended'
  <1> USE DEF Helm!Working
  <1>r. release \in Helm!Records
      BY HelmTypesByName
  <1>q. \A q \in Programs \ {p} : at'[q] = at[q] /\ (q \in torn => q \in torn')
      BY OthersKnow
  <1>1. ASSUME release' = release, torn \subseteq torn',
               \/ at[p] \notin Helm!Working \/ ~Helm!Mine(p) \/ p \in torn'
        PROVE  Attended'
    <2> SUFFICES ASSUME release.status = "pending"
                 PROVE  /\ release.by \in Programs
                        /\ release.by \in torn' \/ at'[release.by] \in Helm!Working
        BY <1>1 DEF Attended
    <2>1. /\ release.by \in Programs
          /\ release.by \in torn \/ at[release.by] \in Helm!Working
        BY DEF Attended
    <2>2. CASE release.by = p
        BY <1>1, <2>1, <2>2 DEF Helm!Mine
    <2>3. CASE release.by # p
        BY <1>q, <2>1, <2>3
    <2> QED
        BY <2>2, <2>3
  <1>2. ASSUME \/ release'.status # "pending"
               \/ release'.by = p /\ (at'[p] \in Helm!Working \/ p \in torn')
        PROVE  Attended'
      BY <1>2 DEF Attended
  <1>3. ASSUME NEW r, NEW l \in Helm!Working, Helm!Begin(p, r, l), r.by = p PROVE Attended'
    <2>1. l \in Stations
        BY DEF Stations
    <2>2. release' = r /\ (Helm!Goto(p, l) \/ p \in torn')
        BY <1>3 DEF Helm!Begin, Helm!Write
    <2> QED
        BY <1>2, <1>3, <2>1, <2>2, HelmArrives
  <1>4. CASE Helm!NewHelper(p)
    <2>1. at[p] = "new" /\ release' = release /\ torn' = torn
        BY <1>4 DEF Helm!NewHelper, Helm!cluster
    <2> QED
        BY <1>1, <2>1
  <1>5. CASE \/ Helm!InitApplyOperator(p)
             \/ \E o \in {"upgrade", "uninstall", "chart"} : Helm!InitOperator(p, o)
    <2>1. at[p] = "idle" /\ release' = release /\ torn' = torn
        BY <1>5 DEF Helm!InitApplyOperator, Helm!InitOperator, Helm!cluster
    <2> QED
        BY <1>1, <2>1
  <1>6. CASE \E s \in Namespaces : Helm!Apply(p, s)
    <2>1. at[p] = "idle" /\ release' = release /\ torn' = torn
        BY <1>6 DEF Helm!Apply, Helm!MayBegin, Helm!cluster
    <2> QED
        BY <1>1, <2>1
  <1>7. CASE Helm!Get(p)
    <2>1. at[p] = "get" /\ release' = release /\ torn' = torn
        BY <1>7 DEF Helm!Get, Helm!cluster
    <2> QED
        BY <1>1, <2>1
  <1>8. CASE Helm!Install(p)
    <2>1. CASE Helm!Begin(p, [status |-> "pending", space |-> wanted[p], by |-> p], "installing")
        BY <1>3, <2>1
    <2>2. CASE \E c : Helm!Refuse(p, c)
        BY <1>1, <1>8, <2>2 DEF Helm!Install, Helm!Refuse, Helm!Keep
    <2> QED
        BY <1>8, <2>1, <2>2 DEF Helm!Install
  <1>9. CASE Helm!Upgrade(p)
    <2>1. CASE Helm!Begin(p, [release EXCEPT !.status = "pending", !.by = p], "upgrading")
      <3>1. [release EXCEPT !.status = "pending", !.by = p].by = p
          BY <1>r DEF Helm!Records
      <3> QED
          BY <1>3, <2>1, <3>1
    <2>2. CASE \/ \E c : Helm!Refuse(p, c)
               \/ Helm!Return(p, "panic") /\ Helm!Keep /\ UNCHANGED <<overdue, torn, failures>>
        BY <1>1, <1>9, <2>2 DEF Helm!Upgrade, Helm!Refuse, Helm!Keep
    <2> QED
        BY <1>9, <2>1, <2>2 DEF Helm!Upgrade
  <1>10. CASE Helm!Finish(p)
    <2>1. PICK st \in {"deployed", "failed"} : Helm!Record(p, st) \/ Helm!RecordFails(p, st)
        BY <1>10 DEF Helm!Finish
    <2>2. [release EXCEPT !.status = st].status # "pending"
        BY <1>r DEF Helm!Records
    <2>3. \/ release' = [release EXCEPT !.status = st]
          \/ release' = release /\ torn \subseteq torn' /\ (~Helm!Mine(p) \/ p \in torn')
        BY <2>1 DEF Helm!Record, Helm!RecordFails, Helm!Write, Helm!Keep
    <2> QED
        BY <1>1, <1>2, <2>2, <2>3
  <1>11. CASE Helm!EndUninstall(p)
    <2>1. /\ at[p] = "uninstalling" /\ torn \subseteq torn'
          /\ release' = release \/ release' = Helm!NoRelease
        BY <1>11 DEF Helm!EndUninstall
    <2>2. Helm!NoRelease.status # "pending"
        BY DEF Helm!NoRelease
    <2> QED
        BY <1>1, <1>2, <2>1, <2>2
  <1>12. CASE Helm!Crash(p)
    <2>1. release' = release /\ torn \subseteq torn' /\ (at[p] \in Helm!Working => p \in torn')
        BY <1>12 DEF Helm!Crash, Helm!Keep
    <2> QED
        BY <1>1, <2>1
  <1>13. CASE Helm!Uninstall(p)
    <2>1. /\ at[p] = "idle" /\ torn' = torn
          /\ release' = release \/ release' = [release EXCEPT !.status = "uninstalling"]
        BY <1>13 DEF Helm!Uninstall, Helm!MayBegin, Helm!Write, Helm!Keep
    <2>2. [release EXCEPT !.status = "uninstalling"].status # "pending"
        BY <1>r DEF Helm!Records
    <2> QED
        BY <1>1, <1>2, <2>1, <2>2
  <1> QED
      BY <1>4, <1>5, <1>6, <1>7, <1>8, <1>9, <1>10, <1>11, <1>12, <1>13
         DEF HelmAction, Helm!Step

\* What a program knows depends on these variables only.
LEMMA KnowsStays ==
  ASSUME NEW q \in Programs, Knows(q), at'[q] = at[q], wanted'[q] = wanted[q],
         found'[q] = found[q], outcome'[q] = outcome[q], q \in torn => q \in torn',
         q \in alone' => q \in alone /\ release' = release /\ places \subseteq places'
  PROVE  Knows(q)'
  BY DEF Knows

\* The late end of an operation that timed out.
LEMMA LagKeepsInv ==
  ASSUME ReleaseInv, NEW l \in overdue, Helm!Lag(l)
  PROVE  ReleaseInv'
  <1>1. /\ UNCHANGED <<operators, at, wanted, found, outcome, torn>>
        /\ overdue' \subseteq overdue
        /\ \/ release' = [release EXCEPT !.status = "deployed"] /\ alone' = {}
           \/ release' = release /\ alone' = alone
        /\ places' \in {places, places \union {l.space}}
      BY DEF Helm!Lag, Helm!Keep, Helm!helper
  <1>2. release \in Helm!Records /\ l.space \in Spaces /\ places \subseteq Spaces
    <2>1. overdue \subseteq Remainders /\ release \in Helm!Records /\ places \subseteq Spaces
        BY HelmTypesByName DEF ReleaseInv
    <2> QED
        BY <2>1 DEF Remainders
  <1>3. release' \in Helm!Records /\ places' \subseteq Spaces
      BY <1>1, <1>2 DEF Helm!Records
  <1>4. Helm!TypeOK'
      BY <1>1, <1>3 DEF ReleaseInv, Helm!TypeOK, Spaces
  <1>5. Known'
    <2>1. ASSUME NEW q \in Programs PROVE Knows(q)'
        BY <1>1, KnowsStays DEF ReleaseInv, Known
    <2> QED
        BY <1>1, <2>1 DEF ReleaseInv, Known
  <1>6. [release EXCEPT !.status = "deployed"].status # "pending"
      BY <1>2 DEF Helm!Records
  <1>7. Attended'
      BY <1>1, <1>6 DEF ReleaseInv, Attended
  <1> QED
      BY <1>4, <1>5, <1>7 DEF ReleaseInv

\* Releases, from the first state on.
LEMMA HelmAlways == Spec => []ReleaseInv
  <1>1. Init => ReleaseInv
    <2> SUFFICES ASSUME Helm!Init PROVE ReleaseInv
        BY DEF Init
    <2>1. Helm!TypeOK
        BY DEF Helm!Init, Helm!NoRelease, Helm!TypeOK, Helm!Records
    <2>2. Known /\ Attended
        BY DEF Helm!Init, Helm!NoRelease, Known, Knows, Attended, Helm!Working
    <2> QED
        BY <2>1, <2>2 DEF ReleaseInv
  <1>2. ReleaseInv /\ [Next]_vars => ReleaseInv'
    <2>1. ASSUME ReleaseInv, UNCHANGED helmVars PROVE ReleaseInv'
      <3>1. UNCHANGED <<release, places, at, wanted, found, outcome, alone, torn>>
          BY <2>1 DEF helmVars
      <3>2. Helm!TypeOK'
          BY <2>1 DEF ReleaseInv, helmVars, Helm!TypeOK
      <3>3. Known'
          BY <2>1, <3>1, KnowsStays DEF ReleaseInv, Known
      <3>4. Attended'
          BY <2>1, <3>1 DEF ReleaseInv, Attended
      <3> QED
          BY <3>2, <3>3, <3>4 DEF ReleaseInv
    <2>2. ASSUME ReleaseInv, NEW p \in Programs, HelmAction(p) PROVE ReleaseInv'
      <3>1. Helm!TypeOK' /\ Attended'
          BY <2>2, HelmTypes, StaysAttended DEF ReleaseInv
      <3>2. Knows(p)' /\ (outcome'[p] = "ok" => at'[p] = "idle")
          BY <2>2, OwnStepKnown DEF ReleaseInv, Known
      <3>3. ASSUME NEW q \in Programs \ {p}
            PROVE  Knows(q)' /\ (outcome'[q] = "ok" => at'[q] = "idle")
        <4>1. Knows(q) /\ (outcome[q] = "ok" => at[q] = "idle") /\ Helm!TypeOK
            BY <2>2 DEF ReleaseInv, Known
        <4> QED
            BY <2>2, <4>1, OthersKnow, KnowsStays
      <3> QED
          BY <3>1, <3>2, <3>3 DEF ReleaseInv, Known
    <2>3. Helm!Next => (\E p \in Programs : HelmAction(p)) \/ (\E l \in overdue : Helm!Lag(l))
        BY DEF Helm!Next, Helm!Persist, HelmAction
    <2>4. ReleaseInv /\ Helm!Next => ReleaseInv'
        BY <2>2, <2>3, LagKeepsInv
    <2> QED
        BY <2>1, <2>4
           DEF Next, vars, HelmStep, MongoStep, MailStep, SshStep, AccountsStep
  <1> QED
      BY <1>1, <1>2, PTL DEF Spec

\* An Apply that returned no error, and that nobody interfered with, has put its
\* resources into the namespace it was given, and the record is its own.
THEOREM QuietAppliesAreExact == Spec => []QuietApplyIsExact
  <1>1. ReleaseInv => QuietApplyIsExact
      BY DEF ReleaseInv, Known, Knows, QuietApplyIsExact, Helm!QuietApplyIsExact
  <1> QED
      BY <1>1, HelmAlways, PTL

\* A release is pending only while some program works on it, unless that program
\* crashed over it or a write of its record failed.
THEOREM OnlyTearsLeavePending == Spec => []PendingIsAttended
  <1>1. ReleaseInv => PendingIsAttended
      BY DEF ReleaseInv, Attended, PendingIsAttended, Helm!PendingIsAttended
  <1> QED
      BY <1>1, HelmAlways, PTL
-----------------------------------------------------------------------------
(* The users of Keycloak. *)

\* The answer that w has is true.
AnswerIsTrue(w) ==
    /\ response[w] = "notfound" => "user" \notin facts
    /\ response[w] \in {"true", "false"} => (response[w] = "true" <=> "role" \in facts)
    /\ response[w] = "nil" =>
        /\ request[w].adds \subseteq facts
        /\ request[w].drops \intersect facts = {}
        /\ request[w].op \in Accounts!Lookups => "user" \in facts

AccountInv ==
    /\ Accounts!TypeOK
    /\ Accounts!RequestInv
    /\ \A w \in still : AnswerIsTrue(w)

\* An answer is true as long as the realm stays the same.
LEMMA TruthStays ==
  ASSUME NEW w, AnswerIsTrue(w), response'[w] = response[w], request'[w] = request[w],
         facts' = facts
  PROVE  AnswerIsTrue(w)'
  BY DEF AnswerIsTrue

\* A request that RequestInv allows.
Allowed(o, needs, adds, drops) ==
    /\ o \in Accounts!OpNames
    /\ needs \subseteq Accounts!Facts /\ adds \subseteq Accounts!Facts
    /\ drops \subseteq Accounts!Facts
    /\ adds \intersect drops = {}
    /\ o \in Accounts!Lookups \union {"HasClientRole"} => adds = {} /\ drops = {}

\* A request that is sent is well formed, and its sender has no answer yet.
LEMMA RequestsKeepTruth ==
  ASSUME AccountInv, NEW w \in Askers, NEW o, NEW needs, NEW adds, NEW drops,
         Allowed(o, needs, adds, drops), Accounts!Request(w, o, needs, adds, drops)
  PROVE  AccountInv'
  <1>0. /\ o \in Accounts!OpNames
        /\ needs \in SUBSET Accounts!Facts /\ adds \in SUBSET Accounts!Facts
        /\ drops \in SUBSET Accounts!Facts
        /\ adds \intersect drops = {}
        /\ o \in Accounts!Lookups \union {"HasClientRole"} => adds = {} /\ drops = {}
      BY DEF Allowed
  <1>1. PICK r : r = [op |-> o, needs |-> needs, adds |-> adds, drops |-> drops]
      OBVIOUS
  <1>2. /\ r \in [op : Accounts!OpNames, needs : SUBSET Accounts!Facts, adds : SUBSET Accounts!Facts,
              drops : SUBSET Accounts!Facts]
        /\ r.op = o /\ r.adds = adds /\ r.drops = drops
      BY <1>0, <1>1
  <1>3. /\ request' = [request EXCEPT ![w] = r]
        /\ response' = [response EXCEPT ![w] = "none"]
        /\ turn' = [turn EXCEPT ![w] = "sent"]
        /\ still' = still \union {w} /\ UNCHANGED <<valid, token, facts>>
        /\ sending' \in {[sending EXCEPT ![w] = token], [sending EXCEPT ![w] = "torn"]}
      BY <1>1 DEF Accounts!Request, Accounts!Turn
  <1>4. Accounts!TypeOK'
      BY <1>2, <1>3 DEF AccountInv, Accounts!TypeOK
  <1>5. Accounts!RequestInv'
      BY <1>0, <1>2, <1>3 DEF AccountInv, Accounts!TypeOK, Accounts!RequestInv
  <1>6. ASSUME NEW v \in still' PROVE AnswerIsTrue(v)'
    <2>1. CASE v = w
        BY <1>3, <2>1 DEF AccountInv, Accounts!TypeOK, AnswerIsTrue
    <2>2. CASE v # w
        BY <1>3, <1>6, <2>2, TruthStays DEF AccountInv, Accounts!TypeOK
    <2> QED
        BY <2>1, <2>2
  <1> QED
      BY <1>4, <1>5, <1>6 DEF AccountInv

\* All operations but the logins are such requests.
LEMMA OperationsAreRequests ==
  ASSUME AccountInv, NEW w \in Askers, Accounts!Operation(w),
         ~Accounts!LoginAdmin(w), ~Accounts!LoginServiceAccount(w), ~Accounts!CheckLoginUser(w)
  PROVE  AccountInv'
  <1>1. CASE Accounts!CreateUser(w)
    <2>1. Allowed("CreateUser", {}, {"user"}, {})
        BY DEF Allowed, Accounts!Lookups, Accounts!OpNames, Accounts!Creations, Accounts!Facts
    <2> QED
        BY <1>1, <2>1, RequestsKeepTruth, Zenon DEF Accounts!CreateUser
  <1>2. CASE Accounts!UpdateUser(w)
    <2>1. Allowed("UpdateUser", {"user"}, {}, {})
        BY DEF Allowed, Accounts!Lookups, Accounts!OpNames, Accounts!Creations, Accounts!Facts
    <2> QED
        BY <1>2, <2>1, RequestsKeepTruth, Zenon DEF Accounts!UpdateUser
  <1>3. CASE Accounts!SetPassword(w)
    <2>1. Allowed("SetPassword", {"user"}, {"password"}, {})
        BY DEF Allowed, Accounts!Lookups, Accounts!OpNames, Accounts!Creations, Accounts!Facts
    <2> QED
        BY <1>3, <2>1, RequestsKeepTruth, Zenon DEF Accounts!SetPassword
  <1>4. CASE Accounts!DeleteUser(w)
    <2>1. Allowed("DeleteUser", {"user"}, {}, {"user", "password", "role", "realmRole"})
        BY DEF Allowed, Accounts!Lookups, Accounts!OpNames, Accounts!Creations, Accounts!Facts
    <2> QED
        BY <1>4, <2>1, RequestsKeepTruth, Zenon DEF Accounts!DeleteUser
  <1>5. CASE Accounts!ExecuteActionsEmail(w)
    <2>1. Allowed("ExecuteActionsEmail", {"user"}, {}, {})
        BY DEF Allowed, Accounts!Lookups, Accounts!OpNames, Accounts!Creations, Accounts!Facts
    <2> QED
        BY <1>5, <2>1, RequestsKeepTruth, Zenon DEF Accounts!ExecuteActionsEmail
  <1>6. CASE Accounts!LogoutUserSession(w)
    <2>1. Allowed("LogoutUserSession", {"user"}, {}, {})
        BY DEF Allowed, Accounts!Lookups, Accounts!OpNames, Accounts!Creations, Accounts!Facts
    <2> QED
        BY <1>6, <2>1, RequestsKeepTruth, Zenon DEF Accounts!LogoutUserSession
  <1>7. CASE Accounts!GetUser(w)
    <2>1. Allowed("GetUser", {}, {}, {})
        BY DEF Allowed, Accounts!Lookups, Accounts!OpNames, Accounts!Creations, Accounts!Facts
    <2> QED
        BY <1>7, <2>1, RequestsKeepTruth, Zenon DEF Accounts!GetUser
  <1>8. CASE Accounts!GetUserByEmail(w)
    <2>1. Allowed("GetUserByEmail", {}, {}, {})
        BY DEF Allowed, Accounts!Lookups, Accounts!OpNames, Accounts!Creations, Accounts!Facts
    <2> QED
        BY <1>8, <2>1, RequestsKeepTruth, Zenon DEF Accounts!GetUserByEmail
  <1>9. CASE Accounts!CreateClient(w)
    <2>1. Allowed("CreateClient", {}, {"client"}, {})
        BY DEF Allowed, Accounts!Lookups, Accounts!OpNames, Accounts!Creations, Accounts!Facts
    <2> QED
        BY <1>9, <2>1, RequestsKeepTruth, Zenon DEF Accounts!CreateClient
  <1>10. CASE Accounts!GetClients(w)
    <2>1. Allowed("GetClients", {}, {}, {})
        BY DEF Allowed, Accounts!Lookups, Accounts!OpNames, Accounts!Creations, Accounts!Facts
    <2> QED
        BY <1>10, <2>1, RequestsKeepTruth, Zenon DEF Accounts!GetClients
  <1>11. CASE Accounts!GetClientSecret(w)
    <2>1. Allowed("GetClientSecret", {"client"}, {}, {})
        BY DEF Allowed, Accounts!Lookups, Accounts!OpNames, Accounts!Creations, Accounts!Facts
    <2> QED
        BY <1>11, <2>1, RequestsKeepTruth, Zenon DEF Accounts!GetClientSecret
  <1>12. CASE Accounts!CreateClientProtocolMapper(w)
    <2>1. Allowed("CreateClientProtocolMapper", {"client"}, {"mapper"}, {})
        BY DEF Allowed, Accounts!Lookups, Accounts!OpNames, Accounts!Creations, Accounts!Facts
    <2> QED
        BY <1>12, <2>1, RequestsKeepTruth, Zenon DEF Accounts!CreateClientProtocolMapper
  <1>13. CASE Accounts!GetClientRole(w)
    <2>1. Allowed("GetClientRole", {"client"}, {}, {})
        BY DEF Allowed, Accounts!Lookups, Accounts!OpNames, Accounts!Creations, Accounts!Facts
    <2> QED
        BY <1>13, <2>1, RequestsKeepTruth, Zenon DEF Accounts!GetClientRole
  <1>14. CASE Accounts!AddClientRolesToUser(w)
    <2>1. Allowed("AddClientRolesToUser", {"user", "client"}, {"role"}, {})
        BY DEF Allowed, Accounts!Lookups, Accounts!OpNames, Accounts!Creations, Accounts!Facts
    <2> QED
        BY <1>14, <2>1, RequestsKeepTruth, Zenon DEF Accounts!AddClientRolesToUser
  <1>15. CASE Accounts!DeleteClientRolesFromUser(w)
    <2>1. Allowed("DeleteClientRolesFromUser", {"user", "client"}, {}, {"role"})
        BY DEF Allowed, Accounts!Lookups, Accounts!OpNames, Accounts!Creations, Accounts!Facts
    <2> QED
        BY <1>15, <2>1, RequestsKeepTruth, Zenon DEF Accounts!DeleteClientRolesFromUser
  <1>16. CASE Accounts!GetRealmRole(w)
    <2>1. Allowed("GetRealmRole", {}, {}, {})
        BY DEF Allowed, Accounts!Lookups, Accounts!OpNames, Accounts!Creations, Accounts!Facts
    <2> QED
        BY <1>16, <2>1, RequestsKeepTruth, Zenon DEF Accounts!GetRealmRole
  <1>17. CASE Accounts!AddRealmRoleToUser(w)
    <2>1. Allowed("AddRealmRoleToUser", {"user"}, {"realmRole"}, {})
        BY DEF Allowed, Accounts!Lookups, Accounts!OpNames, Accounts!Creations, Accounts!Facts
    <2> QED
        BY <1>17, <2>1, RequestsKeepTruth, Zenon DEF Accounts!AddRealmRoleToUser
  <1>18. CASE Accounts!HasClientRole(w)
    <2>1. Allowed("HasClientRole", {"user", "client"}, {}, {})
        BY DEF Allowed, Accounts!Lookups, Accounts!OpNames, Accounts!Creations, Accounts!Facts
    <2> QED
        BY <1>18, <2>1, RequestsKeepTruth, Zenon DEF Accounts!HasClientRole
  <1>19. CASE Accounts!GetComponent(w)
    <2>1. Allowed("GetComponent", {}, {}, {})
        BY DEF Allowed, Accounts!Lookups, Accounts!OpNames, Accounts!Creations, Accounts!Facts
    <2> QED
        BY <1>19, <2>1, RequestsKeepTruth, Zenon DEF Accounts!GetComponent
  <1> QED
      BY <1>1, <1>2, <1>3, <1>4, <1>5, <1>6, <1>7, <1>8, <1>9, <1>10,
         <1>11, <1>12, <1>13, <1>14, <1>15, <1>16, <1>17, <1>18, <1>19 DEF Accounts!Operation
\* A login that begins, and CheckLoginUser, ask nothing of the realm that could
\* turn false.
LEMMA LoginsKeepTruth ==
  ASSUME AccountInv, NEW w \in Askers,
         Accounts!LoginAdmin(w) \/ Accounts!LoginServiceAccount(w) \/ Accounts!CheckLoginUser(w)
  PROVE  AccountInv'
  <1>1. PICK r : r = Accounts!NoRequest
      OBVIOUS
  <1>2. /\ r \in [op : Accounts!OpNames, needs : SUBSET Accounts!Facts,
                  adds : SUBSET Accounts!Facts, drops : SUBSET Accounts!Facts]
        /\ r.op = "none" /\ r.adds = {} /\ r.drops = {}
      BY <1>1 DEF Accounts!NoRequest, Accounts!OpNames
  <1>3. /\ request' = [request EXCEPT ![w] = r]
        /\ UNCHANGED <<valid, token, facts, sending, still>>
        /\ turn' \in {[turn EXCEPT ![w] = "store"], [turn EXCEPT ![w] = "idle"]}
        /\ response' \in {response, [response EXCEPT ![w] = "error"],
                                    [response EXCEPT ![w] = "nil"]}
      BY <1>1 DEF Accounts!LoginAdmin, Accounts!LoginServiceAccount, Accounts!CheckLoginUser,
         Accounts!Login, Accounts!Turn, Accounts!Respond
  <1>4. Accounts!TypeOK'
      BY <1>2, <1>3 DEF AccountInv, Accounts!TypeOK
  <1>5. Accounts!RequestInv'
      BY <1>1, <1>2, <1>3 DEF AccountInv, Accounts!TypeOK, Accounts!RequestInv, Accounts!Lookups
  <1>6. ASSUME NEW v \in still' PROVE AnswerIsTrue(v)'
    <2>1. CASE v = w
      <3>1. request'[w] = r /\ response'[w] \in {response[w], "error", "nil"} /\ facts' = facts
          BY <1>3 DEF AccountInv, Accounts!TypeOK
      <3>2. w \in still /\ AnswerIsTrue(w)
          BY <1>3, <1>6, <2>1 DEF AccountInv
      <3> QED
          BY <1>2, <2>1, <3>1, <3>2 DEF AnswerIsTrue, Accounts!Lookups
    <2>2. CASE v # w
        BY <1>3, <1>6, <2>2, TruthStays DEF AccountInv, Accounts!TypeOK
    <2> QED
        BY <2>1, <2>2
  <1> QED
      BY <1>4, <1>5, <1>6 DEF AccountInv

\* The end of a login answers nothing about the realm.
LEMMA TokensKeepTruth ==
  ASSUME AccountInv, NEW w \in Askers, Accounts!StoreToken(w)
  PROVE  AccountInv'
  <1>1. /\ turn[w] = "store" /\ token' = "live"
        /\ turn' = [turn EXCEPT ![w] = "idle"]
        /\ response' = [response EXCEPT ![w] = "nil"]
        /\ UNCHANGED <<valid, facts, sending, request, still>>
      BY DEF Accounts!StoreToken, Accounts!Respond, Accounts!Turn
  <1>2. Accounts!TypeOK'
      BY <1>1 DEF AccountInv, Accounts!TypeOK
  <1>3. Accounts!RequestInv'
      BY <1>1 DEF AccountInv, Accounts!TypeOK, Accounts!RequestInv
  <1>4. ASSUME NEW v \in still' PROVE AnswerIsTrue(v)'
    <2>1. CASE v = w
      <3>1. request[w] = Accounts!NoRequest
          BY <1>1 DEF AccountInv, Accounts!RequestInv
      <3>2. request'[w].op = "none" /\ request'[w].adds = {} /\ request'[w].drops = {}
          BY <1>1, <3>1 DEF Accounts!NoRequest
      <3>3. response'[w] = "nil"
          BY <1>1 DEF AccountInv, Accounts!TypeOK
      <3> QED
          BY <2>1, <3>2, <3>3 DEF AnswerIsTrue, Accounts!Lookups
    <2>2. CASE v # w
        BY <1>1, <1>4, <2>2, TruthStays DEF AccountInv, Accounts!TypeOK
    <2> QED
        BY <2>1, <2>2
  <1> QED
      BY <1>2, <1>3, <1>4 DEF AccountInv

\* An answer is true when it is given, and what makes the answers of others stale
\* takes them out of still.
LEMMA ServersTellTheTruth ==
  ASSUME AccountInv, NEW w \in Askers, Accounts!Serve(w)
  PROVE  AccountInv'
  <1>1. /\ turn' = [turn EXCEPT ![w] = "idle"]
        /\ UNCHANGED <<valid, token, sending, request>>
        /\ turn[w] = "sent"
      BY DEF Accounts!Serve, Accounts!Respond, Accounts!Turn
  <1>2. PICK a \in {"error", "nil", "notfound", "true", "false"} :
            response' = [response EXCEPT ![w] = a]
      BY DEF Accounts!Serve, Accounts!Respond, Accounts!Outcome
  <1>3. /\ request[w].adds \intersect request[w].drops = {}
        /\ request[w].op \in Accounts!Lookups \union {"HasClientRole"} =>
               request[w].adds = {} /\ request[w].drops = {}
        /\ request[w].adds \subseteq Accounts!Facts
      BY DEF AccountInv, Accounts!TypeOK, Accounts!RequestInv
  <1>4. \/ UNCHANGED <<facts, still>>
        \/ /\ facts' = (facts \ request[w].drops) \union request[w].adds
           /\ still' = IF facts' = facts THEN still ELSE still \intersect {w}
      BY DEF Accounts!Serve, Accounts!Effect
  <1>5. /\ still' \subseteq still
        /\ \A v \in still' \ {w} : facts' = facts
      BY <1>4
  <1>6. facts' \subseteq Accounts!Facts
      BY <1>3, <1>4 DEF AccountInv, Accounts!TypeOK
  <1>7. Accounts!TypeOK'
      BY <1>1, <1>2, <1>5, <1>6 DEF AccountInv, Accounts!TypeOK
  <1>8. Accounts!RequestInv'
      BY <1>1 DEF AccountInv, Accounts!TypeOK, Accounts!RequestInv
  <1>9. AnswerIsTrue(w)'
    <2>1. response'[w] = a /\ request'[w] = request[w]
        BY <1>1, <1>2 DEF AccountInv, Accounts!TypeOK
    <2>2. CASE a = "error"
        BY <2>1, <2>2 DEF AnswerIsTrue
    <2>3. CASE a # "error"
      <3>1. /\ response' = [response EXCEPT ![w] = Accounts!Outcome(w, TRUE)]
            /\ facts' = (facts \ request[w].drops) \union request[w].adds
        <4>1. Accounts!Outcome(w, FALSE) = "error"
            BY DEF Accounts!Outcome
        <4>2. response' # [response EXCEPT ![w] = "error"]
            BY <2>1, <2>3 DEF AccountInv, Accounts!TypeOK
        <4> QED
            BY <4>1, <4>2 DEF Accounts!Serve, Accounts!Effect, Accounts!Respond
      <3>2. a = Accounts!Outcome(w, TRUE)
          BY <2>1, <3>1 DEF AccountInv, Accounts!TypeOK
      <3>3. CASE request[w].op \in Accounts!Lookups
        <4>1. a = (IF "user" \in facts THEN "nil" ELSE "notfound") /\ facts' = facts
            BY <1>3, <3>1, <3>2, <3>3 DEF Accounts!Outcome, Accounts!Lookups
        <4> QED
            BY <1>3, <2>1, <3>3, <4>1 DEF AnswerIsTrue
      <3>4. CASE request[w].op = "HasClientRole"
        <4>1. a = (IF "role" \in facts THEN "true" ELSE "false") /\ facts' = facts
            BY <1>3, <3>1, <3>2, <3>4 DEF Accounts!Outcome, Accounts!Lookups
        <4> QED
            BY <2>1, <4>1 DEF AnswerIsTrue
      <3>5. CASE request[w].op \notin Accounts!Lookups \union {"HasClientRole"}
        <4>1. a = "nil"
            BY <3>2, <3>5 DEF Accounts!Outcome
        <4>2. request[w].adds \subseteq facts' /\ request[w].drops \intersect facts' = {}
            BY <1>3, <3>1
        <4> QED
            BY <2>1, <3>5, <4>1, <4>2 DEF AnswerIsTrue
      <3> QED
          BY <3>3, <3>4, <3>5
    <2> QED
        BY <2>2, <2>3
  <1>10. ASSUME NEW v \in still' \ {w} PROVE AnswerIsTrue(v)'
    <2>1. v \in still /\ facts' = facts
        BY <1>5, <1>10
    <2> QED
        BY <1>1, <1>2, <2>1, TruthStays DEF AccountInv, Accounts!TypeOK
  <1> QED
      BY <1>7, <1>8, <1>9, <1>10 DEF AccountInv

\* Every step of the goroutines and of the server keeps the invariant.
LEMMA AccountNext ==
  ASSUME AccountInv, Accounts!Next
  PROVE  AccountInv'
  <1>1. ASSUME UNCHANGED <<facts, turn, sending, request, response, still>>,
               token' \in {token, "expired"}, valid' \subseteq valid
        PROVE  AccountInv'
    <2>1. Accounts!TypeOK' /\ Accounts!RequestInv'
        BY <1>1 DEF AccountInv, Accounts!TypeOK, Accounts!RequestInv
    <2>2. \A v \in still' : AnswerIsTrue(v)'
        BY <1>1, TruthStays DEF AccountInv
    <2> QED
        BY <2>1, <2>2 DEF AccountInv
  <1>2. CASE \E c \in SUBSET {"user", "service"} : Accounts!SetKeycloakClient(c)
      BY <1>1, <1>2 DEF Accounts!SetKeycloakClient, Accounts!own
  <1>3. CASE Accounts!Expire \/ Accounts!PasswordExpires
      BY <1>1, <1>3 DEF Accounts!Expire, Accounts!PasswordExpires, Accounts!own
  <1>4. CASE \E w \in Askers \ Patient : Accounts!Operation(w)
      BY <1>4, OperationsAreRequests, LoginsKeepTruth
  <1>5. CASE \E w \in Patient : Accounts!Persist(w)
    <2>1. PICK w \in Patient : Accounts!Persist(w)
        BY <1>5
    <2>2. w \in Askers
        BY PatientAssumption
    <2>3. \/ Accounts!LoginServiceAccount(w) \/ Accounts!LoginAdmin(w)
          \/ Accounts!Request(w, "GetUser", {}, {}, {})
        BY <2>1 DEF Accounts!Persist, Accounts!GetUser
    <2>4. Allowed("GetUser", {}, {}, {})
        BY DEF Allowed, Accounts!Lookups, Accounts!OpNames, Accounts!Creations, Accounts!Facts
    <2> QED
        BY <2>2, <2>3, <2>4, LoginsKeepTruth, RequestsKeepTruth, Zenon
  <1>6. CASE \E w \in Askers : Accounts!Proceed(w)
      BY <1>6, TokensKeepTruth, ServersTellTheTruth DEF Accounts!Proceed
  <1> QED
      BY <1>2, <1>3, <1>4, <1>5, <1>6 DEF Accounts!Next

\* The accounts of any reachable state of the Keycloak users.
LEMMA AccountsAlways == Spec => []AccountInv
  <1>1. Init => AccountInv
    <2> SUFFICES ASSUME Accounts!Init PROVE AccountInv
        BY DEF Init
    <2>1. PICK r : r = Accounts!NoRequest
        OBVIOUS
    <2>2. /\ r \in [op : Accounts!OpNames, needs : SUBSET Accounts!Facts,
                    adds : SUBSET Accounts!Facts, drops : SUBSET Accounts!Facts]
          /\ r.op = "none" /\ r.adds = {} /\ r.drops = {}
        BY <2>1 DEF Accounts!NoRequest, Accounts!OpNames
    <2>3. request = [w \in Askers |-> r]
        BY <2>1 DEF Accounts!Init
    <2>4. facts \subseteq Accounts!Facts
        BY DEF Accounts!Init, Accounts!Facts
    <2>5. Accounts!TypeOK
        BY <2>2, <2>3, <2>4 DEF Accounts!Init, Accounts!TypeOK
    <2>6. Accounts!RequestInv
        BY <2>1, <2>2, <2>3 DEF Accounts!RequestInv
    <2>7. still = {}
        BY DEF Accounts!Init
    <2> QED
        BY <2>5, <2>6, <2>7 DEF AccountInv
  <1>2. AccountInv /\ [Next]_vars => AccountInv'
    <2>1. ASSUME AccountInv, UNCHANGED accountVars PROVE AccountInv'
      <3>1. UNCHANGED <<valid, token, facts, turn, sending, request, response, still>>
          BY <2>1 DEF accountVars
      <3>2. Accounts!TypeOK' /\ Accounts!RequestInv'
          BY <2>1, <3>1 DEF AccountInv, Accounts!TypeOK, Accounts!RequestInv
      <3>3. \A v \in still' : AnswerIsTrue(v)'
          BY <2>1, <3>1, TruthStays DEF AccountInv
      <3> QED
          BY <3>2, <3>3 DEF AccountInv
    <2> QED
        BY <2>1, AccountNext
           DEF Next, vars, HelmStep, MongoStep, MailStep, SshStep, AccountsStep
  <1> QED
      BY <1>1, <1>2, PTL DEF Spec

\* "Not found" is never an expired or torn token in disguise, and nil means that the
\* realm is as was asked, until somebody else changes it.
THEOREM AnswersStayTrue == Spec => []AnswersAreTrue
  <1>1. AccountInv => AnswersAreTrue
      BY DEF AccountInv, AnswerIsTrue, AnswersAreTrue, Accounts!AnswersAreTrue
  <1> QED
      BY <1>1, AccountsAlways, PTL
-----------------------------------------------------------------------------
(* The documents and files of MongoDB. *)

Sequence == Seq(Mongo!Writes)

\* The writes that are left after the first one of those that were left.
LEMMA RestOfTail ==
  ASSUME NEW s \in Sequence, NEW t \in Sequence, NEW n \in 0..Len(s), Mongo!Rest(t, s, n), t # <<>>
  PROVE  /\ n + 1 \in 0..Len(s)
         /\ Head(t) = s[n + 1]
         /\ Tail(t) \in Sequence
         /\ Mongo!Rest(Tail(t), s, n + 1)
  <1>1. /\ Len(t) = Len(s) - n /\ Len(t) \in Nat /\ Len(s) \in Nat /\ Len(t) # 0
        /\ \A i \in 1..Len(t) : t[i] = s[n + i]
      BY DEF Mongo!Rest, Sequence
  <1>2. Head(t) = t[1] /\ Tail(t) \in Sequence /\ Len(Tail(t)) = Len(t) - 1
      BY DEF Sequence
  <1>3. \A i \in 1..Len(t) - 1 : Tail(t)[i] = t[i + 1]
      BY <1>1 DEF Sequence
  <1>4. \A i \in 1..Len(t) - 1 : t[i + 1] = s[n + 1 + i]
      BY <1>1
  <1> QED
      BY <1>1, <1>2, <1>3, <1>4 DEF Mongo!Rest

\* At first everything is left; in the end, nothing.
LEMMA RestEnds ==
  ASSUME NEW s \in Sequence
  PROVE  /\ Mongo!Rest(s, s, 0)
         /\ \A n \in 0..Len(s) : Mongo!Rest(<<>>, s, n) => n = Len(s)
  BY DEF Mongo!Rest, Sequence

\* What a write makes of the documents D.
After(w, D) ==
    IF w[1] \in {"put", "set"} THEN D \union {w[2]}
    ELSE IF w[1] = "drop" THEN D \ {w[2]} ELSE D

\* One more write leaves one more of them settled: it decides on its document, and
\* on the others nothing changes.
LEMMA OneMoreSettled ==
  ASSUME NEW s, NEW n \in Nat, NEW D, Mongo!Settled(s, n, D)
  PROVE  Mongo!Settled(s, n + 1, After(s[n + 1], D))
  <1> DEFINE E == After(s[n + 1], D)
  <1> SUFFICES ASSUME NEW i \in 1..n + 1, \A j \in i + 1..n + 1 : s[j][2] # s[i][2]
               PROVE  /\ s[i][1] \in {"put", "set"} => s[i][2] \in E
                      /\ s[i][1] = "drop" => s[i][2] \notin E
      BY DEF Mongo!Settled
  <1>1. CASE i = n + 1
      BY <1>1 DEF After
  <1>2. CASE i # n + 1
    <2>1. i \in 1..n /\ n + 1 \in i + 1..n + 1 /\ \A j \in i + 1..n : j \in i + 1..n + 1
        BY <1>2
    <2>2. s[n + 1][2] # s[i][2] /\ \A j \in i + 1..n : s[j][2] # s[i][2]
        BY <2>1
    <2>3. /\ s[i][1] \in {"put", "set"} => s[i][2] \in D
          /\ s[i][1] = "drop" => s[i][2] \notin D
        BY <2>1, <2>2 DEF Mongo!Settled
    <2> QED
        BY <2>2, <2>3 DEF After
  <1> QED
      BY <1>1, <1>2

\* Nothing has to be settled before the first write.
LEMMA NothingToSettle ==
  ASSUME NEW s, NEW D
  PROVE  Mongo!Settled(s, 0, D)
  BY DEF Mongo!Settled

Midway(u) ==
    /\ doing[u] = asked[u].op /\ u \notin failed
    /\ \E n \in 0..Len(asked[u].writes) :
        /\ Mongo!Rest(todo[u], asked[u].writes, n)
        /\ u \in calm => Mongo!Settled(asked[u].writes, n, docs)

Kept(u) ==
    /\ u \in failed => asked[u].op \in {"Get", "UploadFile"}
    /\ u \in calm \ failed =>
        /\ Mongo!Settled(asked[u].writes, Len(asked[u].writes), docs)
        /\ asked[u].op = "UploadFile" => Mongo!File(u, Parts) \in files

Stands(u) ==
    /\ doing[u] \notin {"none", "UploadFile"} => Midway(u)
    /\ doing[u] = "UploadFile" => asked[u].op = "UploadFile"
    /\ asked[u].op = "UploadFile" => asked[u].writes = <<>>
    /\ doing[u] # "none" => result[u] = "none"
    /\ result[u] = "nil" => Kept(u)

StoreInv == Mongo!TypeOK /\ \A u \in Users : Stands(u)

\* A goroutine stands where it stood as long as nobody else writes, and what it
\* thinks is done is forgotten when somebody does.
LEMMA StandsStill ==
  ASSUME NEW u, Stands(u),
         doing'[u] = doing[u], todo'[u] = todo[u], asked'[u] = asked[u], result'[u] = result[u],
         u \in failed' <=> u \in failed,
         u \in calm' => u \in calm /\ docs' = docs /\ files \subseteq files'
  PROVE  Stands(u)'
  <1>1. ASSUME Midway(u) PROVE Midway(u)'
      BY <1>1 DEF Midway
  <1>2. ASSUME Kept(u) PROVE Kept(u)'
      BY <1>2 DEF Kept, Mongo!File
  <1> QED
      BY <1>1, <1>2 DEF Stands
\* An operation on the collection, and its writes.
Requested(o, writes) ==
    o \in Mongo!OpNames \ {"none", "UploadFile"} /\ writes \in Sequence

\* An operation that begins has everything to do, or has failed.
LEMMA RequestsStand ==
  ASSUME StoreInv, NEW u \in Users, NEW o, NEW writes, Requested(o, writes),
         Mongo!NewCollCli(u, o, writes)
  PROVE  StoreInv'
  <1>1. o \in Mongo!OpNames /\ o \notin {"none", "UploadFile"} /\ writes \in Sequence
      BY DEF Requested
  <1>2. PICK r : r = [op |-> o, writes |-> writes]
      OBVIOUS
  <1>3. r \in [op : Mongo!OpNames, writes : Sequence] /\ r.op = o /\ r.writes = writes
      BY <1>1, <1>2
  <1>4. /\ asked' = [asked EXCEPT ![u] = r] /\ calm' = calm \union {u}
        /\ UNCHANGED <<client, docs, files, late, parts>>
      BY <1>2 DEF Mongo!NewCollCli, Mongo!Begin
  <1>5. \/ /\ doing' = [doing EXCEPT ![u] = o]
           /\ todo' = [todo EXCEPT ![u] = writes]
           /\ result' = [result EXCEPT ![u] = "none"]
           /\ failed' = failed \ {u}
        \/ /\ doing' = [doing EXCEPT ![u] = "none"]
           /\ todo' = [todo EXCEPT ![u] = <<>>]
           /\ result' = [result EXCEPT ![u] = IF o = "Get" THEN "nil" ELSE "error"]
           /\ failed' = failed \union {u}
        \/ /\ doing' = [doing EXCEPT ![u] = "none"]
           /\ todo' = [todo EXCEPT ![u] = <<>>]
           /\ result' = [result EXCEPT ![u] = "error"]
           /\ failed' = failed \ {u}
      BY DEF Mongo!NewCollCli, Mongo!Return
  <1>6. Mongo!TypeOK'
    <2>1. <<>> \in Sequence /\ "none" \in Mongo!OpNames
        BY DEF Sequence, Mongo!OpNames
    <2>2. todo' \in [Users -> Sequence]
        BY <1>1, <1>5, <2>1 DEF StoreInv, Mongo!TypeOK, Sequence
    <2>3. doing' \in [Users -> Mongo!OpNames]
        BY <1>1, <1>5, <2>1 DEF StoreInv, Mongo!TypeOK
    <2>4. result' \in [Users -> {"none", "nil", "error"}] /\ failed' \subseteq Users
        BY <1>5 DEF StoreInv, Mongo!TypeOK
    <2>5. asked' \in [Users -> [op : Mongo!OpNames, writes : Sequence]] /\ calm' \subseteq Users
        BY <1>3, <1>4 DEF StoreInv, Mongo!TypeOK, Sequence
    <2> QED
        BY <1>4, <2>2, <2>3, <2>4, <2>5 DEF StoreInv, Mongo!TypeOK, Sequence
  <1>7. asked'[u] = r
      BY <1>4 DEF StoreInv, Mongo!TypeOK
  <1>8. Stands(u)'
    <2>1. CASE /\ doing'[u] = o /\ todo'[u] = writes /\ result'[u] = "none" /\ u \notin failed'
      <3>1. Mongo!Rest(writes, writes, 0) /\ Mongo!Settled(writes, 0, docs') /\ 0 \in 0..Len(writes)
          BY <1>1, RestEnds, NothingToSettle DEF Sequence
      <3>2. Midway(u)'
          BY <1>3, <1>7, <2>1, <3>1 DEF Midway
      <3> QED
          BY <1>1, <1>3, <1>7, <2>1, <3>2 DEF Stands
    <2>2. CASE doing'[u] = "none" /\ result'[u] = "error"
        BY <1>1, <1>3, <1>7, <2>2 DEF Stands
    <2>3. CASE doing'[u] = "none" /\ o = "Get" /\ result'[u] = "nil" /\ u \in failed'
        BY <1>1, <1>3, <1>7, <2>3 DEF Stands, Kept
    <2> QED
        BY <1>5, <2>1, <2>2, <2>3 DEF StoreInv, Mongo!TypeOK
  <1>9. ASSUME NEW v \in Users \ {u} PROVE Stands(v)'
    <2>1. Stands(v)
        BY DEF StoreInv
    <2>2. /\ doing'[v] = doing[v] /\ todo'[v] = todo[v] /\ asked'[v] = asked[v]
          /\ result'[v] = result[v] /\ (v \in failed' <=> v \in failed)
          /\ v \in calm' => v \in calm /\ docs' = docs /\ files \subseteq files'
        BY <1>4, <1>5 DEF StoreInv, Mongo!TypeOK
    <2> QED
        BY <2>1, <2>2, StandsStill
  <1> QED
      BY <1>6, <1>8, <1>9 DEF StoreInv

\* The server makes the next write, or refuses it.
LEMMA ServedStand ==
  ASSUME StoreInv, NEW u \in Users, Mongo!Serve(u)
  PROVE  StoreInv'
  <1>1. PICK s, t : s = asked[u].writes /\ t = todo[u]
      OBVIOUS
  <1>2. /\ s \in Sequence /\ t \in Sequence /\ t # <<>>
        /\ doing[u] \notin {"none", "UploadFile"} /\ Stands(u) /\ Midway(u)
        /\ asked' = asked
        /\ UNCHANGED <<client, files, late, parts>>
    <2>1. Stands(u)
        BY DEF StoreInv
    <2> QED
        BY <1>1, <2>1 DEF Mongo!Serve, Sequence, Stands, StoreInv, Mongo!TypeOK
  <1>3. PICK n \in 0..Len(s) :
            Mongo!Rest(t, s, n) /\ (u \in calm => Mongo!Settled(s, n, docs))
      BY <1>1, <1>2, Zenon DEF Midway
  <1>4. /\ n \in Nat /\ n + 1 \in 0..Len(s) /\ Head(t) = s[n + 1]
        /\ Tail(t) \in Sequence /\ Mongo!Rest(Tail(t), s, n + 1)
      BY <1>2, <1>3, RestOfTail
  <1>5. PICK w : w = Head(t)
      OBVIOUS
  <1>6. w \in Mongo!Writes
      BY <1>2, <1>5 DEF Sequence
  <1>7. CASE /\ docs' = Mongo!Made(w)
             /\ calm' = calm \intersect {u}
             /\ todo' = [todo EXCEPT ![u] = Tail(@)]
             /\ UNCHANGED <<doing, result, failed>>
    <2>1. docs' = After(s[n + 1], docs)
        BY <1>4, <1>5, <1>7 DEF Mongo!Made, After
    <2>2. docs' \subseteq Docs
        BY <1>6, <1>7 DEF Mongo!Made, Mongo!Writes, StoreInv, Mongo!TypeOK
    <2>3. todo'[u] = Tail(t) /\ todo' \in [Users -> Sequence]
        BY <1>1, <1>4, <1>7 DEF StoreInv, Mongo!TypeOK, Sequence
    <2>4. Mongo!TypeOK'
        BY <1>2, <1>7, <2>2, <2>3 DEF StoreInv, Mongo!TypeOK, Sequence
    <2>5. Stands(u)'
      <3>1. u \in calm => Mongo!Settled(s, n + 1, docs')
          BY <1>3, <1>4, <2>1, OneMoreSettled
      <3>2. asked'[u].writes = s
          BY <1>1, <1>2
      <3>3. \E m \in 0..Len(s) : /\ Mongo!Rest(todo'[u], s, m)
                                 /\ u \in calm' => Mongo!Settled(s, m, docs')
          BY <1>4, <1>7, <2>3, <3>1
      <3>4. Midway(u)'
          BY <1>2, <1>7, <3>2, <3>3, Zenon DEF Midway
      <3> QED
          BY <1>2, <1>7, <3>4, Zenon DEF Stands
    <2>6. ASSUME NEW v \in Users \ {u} PROVE Stands(v)'
      <3>1. Stands(v)
          BY DEF StoreInv
      <3>2. todo'[v] = todo[v] /\ v \notin calm'
          BY <1>7 DEF StoreInv, Mongo!TypeOK
      <3> QED
          BY <1>2, <1>7, <3>1, <3>2, StandsStill
    <2> QED
        BY <2>4, <2>5, <2>6 DEF StoreInv
  <1>8. CASE /\ Mongo!Return(u, "error") /\ failed' = failed \union {u}
             /\ UNCHANGED <<docs, calm>>
    <2>1. /\ doing' = [doing EXCEPT ![u] = "none"] /\ todo' = [todo EXCEPT ![u] = <<>>]
          /\ result' = [result EXCEPT ![u] = "error"]
        BY <1>8 DEF Mongo!Return
    <2>2. Mongo!TypeOK'
      <3>1. <<>> \in Sequence /\ "none" \in Mongo!OpNames
          BY DEF Sequence, Mongo!OpNames
      <3> QED
          BY <1>2, <1>8, <2>1, <3>1 DEF StoreInv, Mongo!TypeOK, Sequence
    <2>3. Stands(u)'
      <3>1. doing'[u] = "none" /\ result'[u] = "error" /\ asked'[u] = asked[u]
          BY <1>2, <2>1 DEF StoreInv, Mongo!TypeOK
      <3> QED
          BY <1>2, <3>1 DEF Stands
    <2>4. ASSUME NEW v \in Users \ {u} PROVE Stands(v)'
      <3>1. Stands(v)
          BY DEF StoreInv
      <3>2. /\ doing'[v] = doing[v] /\ todo'[v] = todo[v] /\ result'[v] = result[v]
            /\ (v \in failed' <=> v \in failed)
          BY <1>8, <2>1 DEF StoreInv, Mongo!TypeOK
      <3> QED
          BY <1>2, <1>8, <3>1, <3>2, StandsStill
    <2> QED
        BY <2>2, <2>3, <2>4 DEF StoreInv
  <1> QED
      BY <1>1, <1>5, <1>7, <1>8 DEF Mongo!Serve
\* A goroutine whose operation returns stands as before with its result; the others
\* do not notice.
LEMMA ReturnsStand ==
  ASSUME StoreInv, NEW u \in Users, NEW r \in {"nil", "error"}, Mongo!Return(u, r),
         failed' \in {failed, failed \union {u}}, calm' = calm, docs' = docs, asked' = asked,
         files \subseteq files', client' = client, parts' = parts,
         files' \subseteq [by : Users, parts : 0..Parts], late' \subseteq Sequence,
         r = "nil" => Kept(u)'
  PROVE  StoreInv'
  <1>1. /\ doing' = [doing EXCEPT ![u] = "none"] /\ todo' = [todo EXCEPT ![u] = <<>>]
        /\ result' = [result EXCEPT ![u] = r]
      BY DEF Mongo!Return
  <1>2. Mongo!TypeOK'
    <2>1. <<>> \in Sequence /\ "none" \in Mongo!OpNames
        BY DEF Sequence, Mongo!OpNames
    <2> QED
        BY <1>1, <2>1 DEF StoreInv, Mongo!TypeOK, Sequence
  <1>3. Stands(u)'
    <2>1. doing'[u] = "none" /\ result'[u] = r /\ asked'[u] = asked[u] /\ Stands(u)
        BY <1>1 DEF StoreInv, Mongo!TypeOK
    <2> QED
        BY <2>1 DEF Stands
  <1>4. ASSUME NEW v \in Users \ {u} PROVE Stands(v)'
    <2>1. Stands(v)
        BY DEF StoreInv
    <2>2. /\ doing'[v] = doing[v] /\ todo'[v] = todo[v] /\ result'[v] = result[v]
          /\ (v \in failed' <=> v \in failed)
        BY <1>1 DEF StoreInv, Mongo!TypeOK
    <2> QED
        BY <2>1, <2>2, StandsStill
  <1> QED
      BY <1>2, <1>3, <1>4 DEF StoreInv

\* When nothing is left, everything is settled; who gives up says so, but in Get.
LEMMA AnswersStand ==
  ASSUME StoreInv, NEW u \in Users, Mongo!Answer(u) \/ Mongo!TimeOut(u)
  PROVE  StoreInv'
  <1>1. /\ doing[u] \notin {"none", "UploadFile"} /\ Stands(u) /\ Midway(u)
        /\ UNCHANGED <<client, docs, files, parts, asked, calm>>
    <2>1. Stands(u)
        BY DEF StoreInv
    <2> QED
        BY <2>1 DEF Mongo!Answer, Mongo!TimeOut, Stands
  <1>2. asked[u].op # "UploadFile" /\ files' \subseteq [by : Users, parts : 0..Parts]
      BY <1>1 DEF Midway, StoreInv, Mongo!TypeOK
  <1>3. CASE Mongo!Answer(u)
    <2>1. PICK s : s = asked[u].writes /\ s \in Sequence
        BY DEF StoreInv, Mongo!TypeOK, Sequence
    <2>2. todo[u] = <<>> /\ UNCHANGED <<failed, late>> /\ Mongo!Return(u, "nil")
        BY <1>3 DEF Mongo!Answer
    <2>3. PICK n \in 0..Len(s) :
              Mongo!Rest(<<>>, s, n) /\ (u \in calm => Mongo!Settled(s, n, docs))
        BY <1>1, <2>1, <2>2, Zenon DEF Midway
    <2>4. n = Len(s)
        BY <2>1, <2>3, RestEnds
    <2>5. /\ u \in calm => Mongo!Settled(s, Len(s), docs)
          /\ u \notin failed
        BY <1>1, <2>3, <2>4 DEF Midway
    <2>6. Kept(u)'
        BY <1>1, <1>2, <2>1, <2>2, <2>5, Zenon DEF Kept
    <2>7. late' \subseteq Sequence
        BY <2>2 DEF StoreInv, Mongo!TypeOK, Sequence
    <2> QED
        BY <1>1, <1>2, <2>2, <2>6, <2>7, ReturnsStand
  <1>4. CASE Mongo!TimeOut(u)
    <2>1. PICK r \in {"nil", "error"} : Mongo!Return(u, r) /\ (r = "nil" => doing[u] = "Get")
        BY <1>4 DEF Mongo!TimeOut
    <2>2. failed' = failed \union {u} /\ late' \in {late, late \union {todo[u]}}
        BY <1>4 DEF Mongo!TimeOut, Mongo!Trouble
    <2>3. r = "nil" => Kept(u)'
        BY <1>1, <2>1, <2>2 DEF Kept, Midway
    <2>4. late' \subseteq Sequence
        BY <2>2 DEF StoreInv, Mongo!TypeOK, Sequence
    <2> QED
        BY <1>1, <1>2, <2>1, <2>2, <2>3, <2>4, ReturnsStand
  <1> QED
      BY <1>3, <1>4

\* An upload that goes on, or ends with its file stored, or with a failure that
\* nobody is told of.
LEMMA CopiesStand ==
  ASSUME StoreInv, NEW u \in Users, Mongo!Copy(u)
  PROVE  StoreInv'
  <1>1. /\ doing[u] = "UploadFile" /\ Stands(u) /\ asked[u].op = "UploadFile"
        /\ asked[u].writes = <<>>
        /\ UNCHANGED <<client, docs, late, asked, calm>>
        /\ parts[u] \in 0..Parts
    <2>1. Stands(u)
        BY DEF StoreInv
    <2> QED
        BY <2>1 DEF Mongo!Copy, Stands, StoreInv, Mongo!TypeOK
  <1>2. late' \subseteq Sequence
      BY <1>1 DEF StoreInv, Mongo!TypeOK, Sequence
  <1>3. CASE /\ parts[u] < Parts /\ parts' = [parts EXCEPT ![u] = @ + 1]
             /\ UNCHANGED <<files, doing, todo, result, failed>>
    <2>1. parts' \in [Users -> 0..Parts]
        BY <1>1, <1>3, PartsAssumption DEF StoreInv, Mongo!TypeOK
    <2>2. Mongo!TypeOK'
        BY <1>1, <1>3, <2>1 DEF StoreInv, Mongo!TypeOK
    <2>3. ASSUME NEW v \in Users PROVE Stands(v)'
        BY <1>1, <1>3, StandsStill DEF StoreInv
    <2> QED
        BY <2>2, <2>3 DEF StoreInv
  <1>4. ASSUME NEW n \in 0..Parts, files' \in {files, files \union {Mongo!File(u, n)}}
        PROVE  files \subseteq files' /\ files' \subseteq [by : Users, parts : 0..Parts]
      BY <1>4 DEF StoreInv, Mongo!TypeOK, Mongo!File
  <1>5. CASE /\ parts[u] = Parts /\ files' = files \union {Mongo!File(u, Parts)}
             /\ Mongo!Return(u, "nil") /\ UNCHANGED <<parts, failed>>
    <2>1. files \subseteq files' /\ files' \subseteq [by : Users, parts : 0..Parts]
        BY <1>1, <1>4, <1>5
    <2>2. Mongo!File(u, Parts) \in files'
        BY <1>5
    <2>3. Mongo!Settled(<<>>, Len(<<>>), docs)
        BY NothingToSettle
    <2>4. Kept(u)'
        BY <1>1, <2>2, <2>3 DEF Kept, Mongo!File
    <2> QED
        BY <1>1, <1>2, <1>5, <2>1, <2>4, ReturnsStand
  <1>6. CASE /\ Mongo!Trouble(u) /\ files' \in {files, files \union {Mongo!File(u, parts[u])}}
             /\ Mongo!Return(u, "nil") /\ UNCHANGED parts
    <2>1. files \subseteq files' /\ files' \subseteq [by : Users, parts : 0..Parts]
        BY <1>1, <1>4, <1>6
    <2>2. failed' = failed \union {u}
        BY <1>6 DEF Mongo!Trouble
    <2>3. Kept(u)'
        BY <1>1, <2>2 DEF Kept
    <2> QED
        BY <1>1, <1>2, <1>6, <2>1, <2>2, <2>3, ReturnsStand
  <1> QED
      BY <1>3, <1>5, <1>6 DEF Mongo!Copy
\* An upload that begins, or has failed already.
LEMMA UploadsStand ==
  ASSUME StoreInv, NEW u \in Users, Mongo!UploadFile(u)
  PROVE  StoreInv'
  <1>1. PICK r : r = [op |-> "UploadFile", writes |-> <<>>]
      OBVIOUS
  <1>2. r \in [op : Mongo!OpNames, writes : Sequence] /\ r.op = "UploadFile" /\ r.writes = <<>>
      BY <1>1 DEF Sequence, Mongo!OpNames
  <1>3. /\ asked' = [asked EXCEPT ![u] = r] /\ calm' = calm \union {u}
        /\ parts' = [parts EXCEPT ![u] = 0]
        /\ UNCHANGED <<client, docs, files, late>>
      BY <1>1 DEF Mongo!UploadFile, Mongo!Begin
  <1>4. \/ /\ doing' = [doing EXCEPT ![u] = "UploadFile"]
           /\ result' = [result EXCEPT ![u] = "none"]
           /\ failed' = failed \ {u} /\ todo' = todo
        \/ /\ doing' = [doing EXCEPT ![u] = "none"]
           /\ todo' = [todo EXCEPT ![u] = <<>>]
           /\ result' = [result EXCEPT ![u] = "nil"]
           /\ failed' = failed \union {u}
      BY DEF Mongo!UploadFile, Mongo!Return
  <1>5. Mongo!TypeOK'
    <2>1. <<>> \in Sequence /\ "none" \in Mongo!OpNames /\ "UploadFile" \in Mongo!OpNames
        BY DEF Sequence, Mongo!OpNames
    <2>2. todo' \in [Users -> Sequence]
        BY <1>4, <2>1 DEF StoreInv, Mongo!TypeOK, Sequence
    <2>3. doing' \in [Users -> Mongo!OpNames]
        BY <1>4, <2>1 DEF StoreInv, Mongo!TypeOK
    <2>4. result' \in [Users -> {"none", "nil", "error"}] /\ failed' \subseteq Users
        BY <1>4 DEF StoreInv, Mongo!TypeOK
    <2>5. asked' \in [Users -> [op : Mongo!OpNames, writes : Sequence]] /\ calm' \subseteq Users
        BY <1>2, <1>3 DEF StoreInv, Mongo!TypeOK, Sequence
    <2>6. parts' \in [Users -> 0..Parts]
        BY <1>3, PartsAssumption DEF StoreInv, Mongo!TypeOK
    <2> QED
        BY <1>3, <2>2, <2>3, <2>4, <2>5, <2>6 DEF StoreInv, Mongo!TypeOK, Sequence
  <1>6. Stands(u)'
    <2>1. asked'[u] = r
        BY <1>3 DEF StoreInv, Mongo!TypeOK
    <2>2. \/ doing'[u] = "UploadFile" /\ result'[u] = "none"
          \/ doing'[u] = "none" /\ result'[u] = "nil" /\ u \in failed'
        BY <1>4 DEF StoreInv, Mongo!TypeOK
    <2> QED
        BY <1>2, <2>1, <2>2 DEF Stands, Kept
  <1>7. ASSUME NEW v \in Users \ {u} PROVE Stands(v)'
    <2>1. Stands(v)
        BY DEF StoreInv
    <2>2. /\ doing'[v] = doing[v] /\ todo'[v] = todo[v] /\ asked'[v] = asked[v]
          /\ result'[v] = result[v] /\ (v \in failed' <=> v \in failed)
          /\ v \in calm' => v \in calm /\ docs' = docs /\ files \subseteq files'
        BY <1>3, <1>4 DEF StoreInv, Mongo!TypeOK
    <2> QED
        BY <2>1, <2>2, StandsStill
  <1> QED
      BY <1>5, <1>6, <1>7 DEF StoreInv

\* A file that is deleted is no more what some upload promised.
LEMMA DeletesStand ==
  ASSUME StoreInv, NEW u \in Users, NEW f, Mongo!DeleteFile(u, f)
  PROVE  StoreInv'
  <1>1. PICK r : r = [op |-> "DeleteFile", writes |-> <<>>]
      OBVIOUS
  <1>2. r \in [op : Mongo!OpNames, writes : Sequence] /\ r.op = "DeleteFile" /\ r.writes = <<>>
      BY <1>1 DEF Sequence, Mongo!OpNames
  <1>3. /\ asked' = [asked EXCEPT ![u] = r] /\ calm' = {u}
        /\ doing' = [doing EXCEPT ![u] = "none"] /\ todo' = [todo EXCEPT ![u] = <<>>]
        /\ UNCHANGED <<client, docs, late, parts>>
      BY <1>1 DEF Mongo!DeleteFile, Mongo!Return
  <1>4. /\ files' \subseteq files
        /\ \/ result' = [result EXCEPT ![u] = "nil"] /\ failed' = failed \ {u}
           \/ result' = [result EXCEPT ![u] = "error"] /\ failed' = failed \union {u}
      BY DEF Mongo!DeleteFile, Mongo!Return, Mongo!Trouble
  <1>5. Mongo!TypeOK'
    <2>1. <<>> \in Sequence /\ "none" \in Mongo!OpNames
        BY DEF Sequence, Mongo!OpNames
    <2>2. todo' \in [Users -> Sequence] /\ doing' \in [Users -> Mongo!OpNames]
        BY <1>3, <2>1 DEF StoreInv, Mongo!TypeOK, Sequence
    <2>3. result' \in [Users -> {"none", "nil", "error"}] /\ failed' \subseteq Users
        BY <1>4 DEF StoreInv, Mongo!TypeOK
    <2>4. asked' \in [Users -> [op : Mongo!OpNames, writes : Sequence]] /\ calm' \subseteq Users
        BY <1>2, <1>3 DEF StoreInv, Mongo!TypeOK, Sequence
    <2> QED
        BY <1>3, <1>4, <2>2, <2>3, <2>4 DEF StoreInv, Mongo!TypeOK, Sequence
  <1>6. Stands(u)'
    <2>1. asked'[u] = r /\ doing'[u] = "none"
        BY <1>3 DEF StoreInv, Mongo!TypeOK
    <2>2. \/ result'[u] = "nil" /\ u \notin failed'
          \/ result'[u] = "error"
        BY <1>4 DEF StoreInv, Mongo!TypeOK
    <2>3. Mongo!Settled(<<>>, Len(<<>>), docs')
        BY NothingToSettle
    <2> QED
        BY <1>2, <2>1, <2>2, <2>3 DEF Stands, Kept
  <1>7. ASSUME NEW v \in Users \ {u} PROVE Stands(v)'
    <2>1. Stands(v)
        BY DEF StoreInv
    <2>2. /\ doing'[v] = doing[v] /\ todo'[v] = todo[v] /\ asked'[v] = asked[v]
          /\ result'[v] = result[v] /\ (v \in failed' <=> v \in failed) /\ v \notin calm'
        BY <1>3, <1>4 DEF StoreInv, Mongo!TypeOK
    <2> QED
        BY <2>1, <2>2, StandsStill
  <1> QED
      BY <1>5, <1>6, <1>7 DEF StoreInv

\* A write of a caller that gave up disturbs everybody's, or is refused.
LEMMA LateStand ==
  ASSUME StoreInv, NEW s \in late, Mongo!ServeLate(s)
  PROVE  StoreInv'
  <1>1. /\ UNCHANGED <<client, files, doing, todo, parts, result, asked, failed>>
        /\ s \in Sequence
      BY DEF Mongo!ServeLate, Mongo!user, StoreInv, Mongo!TypeOK, Sequence
  <1>2. \/ late' = late \ {s} /\ UNCHANGED <<docs, calm>>
        \/ /\ s # <<>> /\ late' = (late \ {s}) \union {Tail(s)}
           /\ docs' = Mongo!Made(Head(s)) /\ calm' = {}
      BY DEF Mongo!ServeLate
  <1>3. s # <<>> => Head(s) \in Mongo!Writes /\ Tail(s) \in Sequence
      BY <1>1 DEF Sequence
  <1>4. docs' \subseteq Docs
    <2>1. ASSUME NEW w \in Mongo!Writes PROVE Mongo!Made(w) \subseteq Docs
        BY DEF Mongo!Made, Mongo!Writes, StoreInv, Mongo!TypeOK
    <2> QED
        BY <1>2, <1>3, <2>1 DEF StoreInv, Mongo!TypeOK
  <1>5. late' \subseteq Sequence /\ calm' \subseteq calm
      BY <1>2, <1>3 DEF StoreInv, Mongo!TypeOK, Sequence
  <1>6. Mongo!TypeOK'
      BY <1>1, <1>4, <1>5 DEF StoreInv, Mongo!TypeOK, Sequence
  <1>7. ASSUME NEW v \in Users PROVE Stands(v)'
    <2>1. Stands(v)
        BY DEF StoreInv
    <2> QED
        BY <1>1, <1>2, <2>1, StandsStill
  <1> QED
      BY <1>6, <1>7 DEF StoreInv

\* Every operation on the collection is a request, with writes of documents.
LEMMA OperationsStand ==
  ASSUME StoreInv, NEW u \in Users, Mongo!Operation(u)
  PROVE  StoreInv'
  <1>1. ASSUME NEW d \in Docs
        PROVE  /\ Mongo!Put(d) \in Mongo!Writes /\ Mongo!Set(d) \in Mongo!Writes
               /\ Mongo!Touch(d) \in Mongo!Writes /\ Mongo!Drop(d) \in Mongo!Writes
      BY DEF Mongo!Put, Mongo!Set, Mongo!Touch, Mongo!Drop, Mongo!Writes
  <1>2. /\ <<>> \in Sequence
        /\ \A v \in Mongo!Writes : <<v>> \in Sequence
        /\ \A v, w \in Mongo!Writes : <<v, w>> \in Sequence
      BY DEF Sequence
  <1>3. ASSUME NEW o \in {"Get", "GetCount", "GetQueryCursor", "Aggregate", "GetAllCollections",
                          "CreateExpirationIndex"},
               Mongo!NewCollCli(u, o, <<>>)
        PROVE  StoreInv'
    <2>1. Requested(o, <<>>)
        BY <1>2 DEF Requested, Mongo!OpNames
    <2> QED
        BY <1>3, <2>1, RequestsStand, Zenon
  <1>4. ASSUME NEW o \in {"Insert", "UpdateOne", "DeleteOne"}, NEW w \in Mongo!Writes,
               Mongo!NewCollCli(u, o, <<w>>)
        PROVE  StoreInv'
    <2>1. Requested(o, <<w>>)
        BY <1>2 DEF Requested, Mongo!OpNames
    <2> QED
        BY <1>4, <2>1, RequestsStand, Zenon
  <1>5. ASSUME NEW o \in {"InsertMany", "UpdateMany", "DeleteAll", "BulkWrite"},
               NEW v \in Mongo!Writes, NEW w \in Mongo!Writes,
               Mongo!NewCollCli(u, o, <<v, w>>)
        PROVE  StoreInv'
    <2>1. Requested(o, <<v, w>>)
        BY <1>2 DEF Requested, Mongo!OpNames
    <2> QED
        BY <1>5, <2>1, RequestsStand, Zenon
  <1>6. ASSUME NEW d \in Docs,
               \/ Mongo!Insert(u, d) \/ Mongo!DeleteOne(u, d)
               \/ Mongo!UpdateOne(u, Mongo!Set(d)) \/ Mongo!UpdateOne(u, Mongo!Touch(d))
        PROVE  StoreInv'
      BY <1>1, <1>4, <1>6, Zenon DEF Mongo!Insert, Mongo!DeleteOne, Mongo!UpdateOne
  <1>7. ASSUME NEW d \in Docs, NEW e \in Docs,
               \/ Mongo!InsertMany(u, d, e) \/ Mongo!UpdateMany(u, d, e)
               \/ Mongo!DeleteAll(u, d, e) \/ Mongo!BulkWrite(u, d, e)
        PROVE  StoreInv'
      BY <1>1, <1>5, <1>7, Zenon
         DEF Mongo!InsertMany, Mongo!UpdateMany, Mongo!DeleteAll, Mongo!BulkWrite
  <1>8. CASE \/ Mongo!Get(u) \/ Mongo!GetCount(u) \/ Mongo!GetQueryCursor(u) \/ Mongo!Aggregate(u)
             \/ Mongo!GetAllCollections(u) \/ Mongo!CreateExpirationIndex(u)
      BY <1>3, <1>8, Zenon DEF Mongo!Get, Mongo!GetCount, Mongo!GetQueryCursor, Mongo!Aggregate,
         Mongo!GetAllCollections, Mongo!CreateExpirationIndex
  <1>9. CASE Mongo!UploadFile(u) \/ \E f \in files : Mongo!DeleteFile(u, f)
      BY <1>9, UploadsStand, DeletesStand
  <1> QED
      BY <1>6, <1>7, <1>8, <1>9 DEF Mongo!Operation

\* The store of any reachable state of the Mongo helper.
LEMMA StoreAlways == Spec => []StoreInv
  <1>1. Init => StoreInv
    <2> SUFFICES ASSUME Mongo!Init PROVE StoreInv
        BY DEF Init
    <2>1. PICK r : r = [op |-> "none", writes |-> <<>>]
        OBVIOUS
    <2>2. /\ r \in [op : Mongo!OpNames, writes : Sequence] /\ r.op = "none"
          /\ <<>> \in Sequence /\ "none" \in Mongo!OpNames
        BY <2>1 DEF Sequence, Mongo!OpNames
    <2>3. asked = [u \in Users |-> r]
        BY <2>1 DEF Mongo!Init
    <2>4. Mongo!TypeOK
        BY <2>2, <2>3, PartsAssumption DEF Mongo!Init, Mongo!TypeOK, Sequence
    <2>5. \A u \in Users : Stands(u)
        BY <2>2, <2>3 DEF Mongo!Init, Stands
    <2> QED
        BY <2>4, <2>5 DEF StoreInv
  <1>2. StoreInv /\ [Next]_vars => StoreInv'
    <2>1. ASSUME StoreInv,
                 UNCHANGED <<docs, files, late, doing, todo, parts, result, asked, failed, calm>>,
                 client' \in {client, "open", "closed"}
          PROVE  StoreInv'
      <3>1. Mongo!TypeOK'
          BY <2>1 DEF StoreInv, Mongo!TypeOK
      <3>2. \A u \in Users : Stands(u)'
          BY <2>1, StandsStill DEF StoreInv
      <3> QED
          BY <3>1, <3>2 DEF StoreInv
    <2>2. ASSUME StoreInv, Mongo!Next PROVE StoreInv'
      <3>1. CASE Mongo!SetMongoClient
          BY <2>1, <2>2, <3>1 DEF Mongo!SetMongoClient, Mongo!user
      <3>2. CASE Mongo!Close
          BY <2>1, <2>2, <3>2 DEF Mongo!Close, Mongo!user
      <3>3. ASSUME NEW u \in Users,
                   \/ Mongo!Operation(u) \/ Mongo!Serve(u) \/ Mongo!Answer(u)
                   \/ Mongo!TimeOut(u) \/ Mongo!Copy(u)
            PROVE  StoreInv'
          BY <2>2, <3>3, OperationsStand, ServedStand, AnswersStand, CopiesStand
      <3>4. CASE \E s \in late : Mongo!ServeLate(s)
          BY <2>2, <3>4, LateStand
      <3> QED
          BY <2>2, <3>1, <3>2, <3>3, <3>4 DEF Mongo!Next
    <2>3. ASSUME StoreInv, UNCHANGED mongoVars PROVE StoreInv'
        BY <2>1, <2>3 DEF mongoVars
    <2> QED
        BY <2>2, <2>3
           DEF Next, vars, HelmStep, MongoStep, MailStep, SshStep, AccountsStep
  <1> QED
      BY <1>1, <1>2, PTL DEF Spec

\* Nil means done but in Get and UploadFile, however the requests of the goroutines
\* and what their callers gave up interleave.
THEOREM NilIsKept == Spec => []NilMeansDone
  <1>1. StoreInv => NilMeansDone
      BY DEF StoreInv, Stands, Kept, NilMeansDone, Mongo!NilMeansDone
  <1> QED
      BY <1>1, StoreAlways, PTL
=============================================================================
