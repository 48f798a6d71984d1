------------------------------- MODULE Mailer -------------------------------
(***************************************************************************)
(* pkg/email/v2: a helper is built from its options, and Send dials the    *)
(* relay up to Count + 1 times.  The relay may offer STARTTLS at one time  *)
(* and not at another, refuse, or accept the message and lose the answer.  *)
(***************************************************************************)
EXTENDS Integers

CONSTANTS
    Counts,     \* values of Retry.Count, which is any integer
    MaxSends    \* bound: messages sent

TLSValues == {"none", "opportunistic", "mandatory", "", "other"}

VARIABLES
    tls, auth, count,   \* the options
    local,      \* Host is localhost, 127.0.0.1 or ::1
    policy,     \* go-mail's TLS policy, "unset" before SetClient
    plain,      \* its authentication: "no", "PLAIN" or "PLAIN-NOENC"
    phase,      \* "none", "new", "ready", "invalid", "send"
    trial,      \* trials made for the message
    copies,     \* copies of the message the relay has accepted
    lost,       \* accepted, but the answer was lost
    clear,      \* history: what ever went over an unencrypted link
    reply,      \* of the latest Send: "none", "nil", "error"
    sends

options == <<tls, auth, count, local>>
vars == <<options, policy, plain, phase, trial, copies, lost, clear, reply, sends>>

\* The defaults of genDefaultOptions.
Init ==
    /\ tls = "mandatory"
    /\ auth = FALSE
    /\ count = 3
    /\ local = FALSE
    /\ policy = "unset"
    /\ plain = "no"
    /\ phase = "none"
    /\ trial = 0
    /\ copies = 0
    /\ lost = 0
    /\ clear = {}
    /\ reply = "none"
    /\ sends = 0

-----------------------------------------------------------------------------

\* NewHelper: options override the defaults.
NewHelper(t, a, c, l) ==
    /\ phase = "none"
    /\ tls' = t
    /\ auth' = a
    /\ count' = c
    /\ local' = l
    /\ phase' = "new"
    /\ UNCHANGED <<policy, plain, trial, copies, lost, clear, reply, sends>>

Validate(t) == t \in {"none", "opportunistic", "mandatory", ""}

\* Faulty variant: an unset policy is go-mail's zero value.
PolicyUnset(t) ==
    CASE t = "opportunistic" -> "TLSOpportunistic"
      [] t = "mandatory" -> "TLSMandatory"
      [] OTHER -> "NoTLS"

Policy(t) ==
    CASE t = "none" -> "NoTLS"
      [] t = "opportunistic" -> "TLSOpportunistic"
      [] OTHER -> "TLSMandatory"

\* SetClient: an unknown policy, or a host or port that go-mail refuses, is an
\* error, and there is no helper.
SetClient ==
    /\ phase = "new"
    /\ \/ /\ Validate(tls)
          /\ policy' = Policy(tls)
          /\ plain' = IF ~auth THEN "no"
                      ELSE IF Policy(tls) = "NoTLS" THEN "PLAIN-NOENC" ELSE "PLAIN"
          /\ phase' = "ready"
       \/ phase' = "invalid" /\ UNCHANGED <<policy, plain>>
    /\ UNCHANGED <<options, trial, copies, lost, clear, reply, sends>>

\* Send builds the message; an address that cannot be parsed is an error.
Send ==
    /\ phase = "ready"
    /\ sends < MaxSends
    /\ sends' = sends + 1
    /\ trial' = 0
    /\ copies' = 0
    /\ lost' = 0
    /\ \/ phase' = "send" /\ reply' = "none"
       \/ reply' = "error" /\ UNCHANGED phase
    /\ UNCHANGED <<options, policy, plain, clear>>

\* The link of one dial: STARTTLS, if it is wanted and offered.
Link(offered) == IF policy # "NoTLS" /\ offered THEN "encrypted" ELSE "clear"

\* The dial gets as far as the credentials and the message: a mandatory STARTTLS
\* succeeded, and PLAIN gives credentials to an unencrypted link only if it leads
\* to the host itself.
Passes(offered) ==
    /\ policy = "TLSMandatory" => Link(offered) = "encrypted"
    /\ plain = "PLAIN" => Link(offered) = "encrypted" \/ local

\* What can then be read on the way.
Exposed(offered) ==
    IF Passes(offered) /\ Link(offered) = "clear"
    THEN {"message"} \union (IF auth THEN {"password"} ELSE {}) ELSE {}

\* Faulty variant: a trial more.
MoreTrials == trial <= count + 1

Trials == trial <= count

\* DialAndSend: the relay accepts, accepts and is not heard, or refuses, be it the
\* connection, the credentials or the message.
DialAndSend(offered) ==
    /\ phase = "send"
    /\ Trials
    /\ trial' = trial + 1
    /\ \/ /\ Passes(offered)
          /\ copies' = copies + 1
          /\ clear' = clear \union Exposed(offered)
          /\ \/ phase' = "ready" /\ reply' = "nil" /\ UNCHANGED lost
             \/ lost' = lost + 1 /\ UNCHANGED <<phase, reply>>
       \/ /\ clear' \in {clear \union some : some \in SUBSET Exposed(offered)}
          /\ UNCHANGED <<phase, copies, lost, reply>>
    /\ UNCHANGED <<options, policy, plain, sends>>

\* The loop is over, without a trial if Count is negative.
SendFailed ==
    /\ phase = "send"
    /\ ~Trials
    /\ phase' = "ready"
    /\ reply' = "error"
    /\ UNCHANGED <<options, policy, plain, trial, copies, lost, clear, sends>>

Next ==
    \/ \E t \in TLSValues, a, l \in BOOLEAN, c \in Counts : NewHelper(t, a, c, l)
    \/ SetClient
    \/ Send
    \/ \E offered \in BOOLEAN : DialAndSend(offered)
    \/ SendFailed

Spec == Init /\ [][Next]_vars

-----------------------------------------------------------------------------

\* The trials that Count allows.
MostTrials == IF count < 0 THEN 0 ELSE count + 1

\* The options stay what they were, and the loop makes Count + 1 trials at most.
TypeOK ==
    /\ tls \in TLSValues /\ {auth, local} \subseteq BOOLEAN /\ count \in Counts \union {3}
    /\ policy \in {"unset", "NoTLS", "TLSOpportunistic", "TLSMandatory"}
    /\ plain \in {"no", "PLAIN", "PLAIN-NOENC"}
    /\ phase \in {"none", "new", "ready", "invalid", "send"}
    /\ trial \in 0..MostTrials
    /\ copies \in Nat /\ lost \in 0..copies
    /\ clear \subseteq {"message", "password"}
    /\ reply \in {"none", "nil", "error"}

\* A nil error means that the relay has the message, an error that no trial is
\* left; and every copy but one is owed to an answer that was lost.  A message
\* reported as failed may thus have arrived Count + 1 times.
SendIsAccounted ==
    /\ reply = "nil" => copies = lost + 1
    /\ reply = "error" => copies = lost /\ trial \in {0, count + 1}
    /\ copies <= MostTrials

\* Nothing is downgraded silently: a message goes unencrypted only where TLS
\* "none" or "opportunistic" was asked for, and a password only with "none" or,
\* with "opportunistic", to a relay on the host itself, whatever the relay offers
\* from one dial to the next.
ClearIsAskedFor ==
    /\ "message" \in clear => tls \in {"none", "opportunistic"}
    /\ "password" \in clear => tls = "none" \/ (tls = "opportunistic" /\ local)
-----------------------------------------------------------------------------

\* A message under way has had no answer, and each of its copies has cost a trial.
SendInv ==
    /\ copies <= trial
    /\ phase = "send" => reply = "none" /\ copies = lost
    /\ phase \in {"none", "new", "invalid"} => trial = 0 /\ reply = "none"

\* go-mail has the policy and the authentication that the options ask for.
PolicyInv ==
    /\ phase \in {"none", "new", "invalid"} => clear = {}
    /\ phase \in {"ready", "send"} =>
        /\ Validate(tls)
        /\ policy = Policy(tls)
        /\ auth => plain = IF policy = "NoTLS" THEN "PLAIN-NOENC" ELSE "PLAIN"
=============================================================================
