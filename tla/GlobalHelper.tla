---------------------------- MODULE GlobalHelper ----------------------------
(***************************************************************************)
(* The package-level helper of pkg/openstack/v2 (and, with one constructor *)
(* only, of the other packages): NewGlobalHelper builds it under a         *)
(* sync.Once, GetGlobalHelper reads the package variable without any       *)
(* synchronisation.  The error of the build is a local variable of the     *)
(* caller that happened to run it.                                         *)
(***************************************************************************)
EXTENDS Naturals

CONSTANTS
    Callers,    \* goroutines that use the package
    NoHelper,   \* the nil pointer
    NeverBuilt, \* the verdict that there will be no helper
    MaxCalls    \* bound: constructor calls one goroutine makes

Ctors == {"full", "withoutDns"}

Helpers == [by : Callers, ctor : Ctors]

ASSUME HelpersAssumption ==
    /\ NoHelper \notin Helpers
    /\ NeverBuilt \notin Helpers \union {NoHelper}
ASSUME MaxCallsAssumption == MaxCalls \in Nat

VARIABLES
    once,       \* the sync.Once: "new", "running" (f is executing), "done"
    helper,     \* the package variable
    pc,         \* where each goroutine is
    ctor,       \* the constructor each goroutine called
    err,        \* the local variable err of each goroutine's call
    last,       \* what each goroutine's latest call returned ("none": no call yet)
    got,        \* what each goroutine's latest GetGlobalHelper returned
    calls,      \* constructor calls made
    failures    \* history: how many builds ended in an error

vars == <<once, helper, pc, ctor, err, last, got, calls, failures>>

Init ==
    /\ once = "new"
    /\ helper = NoHelper
    /\ pc = [c \in Callers |-> "idle"]
    /\ ctor = [c \in Callers |-> "full"]
    /\ err = [c \in Callers |-> "nil"]
    /\ last = [c \in Callers |-> "none"]
    /\ got = [c \in Callers |-> NoHelper]
    /\ calls = [c \in Callers |-> 0]
    /\ failures = 0

-----------------------------------------------------------------------------

\* A constructor is called: var err error, then once.Do.
Call(c, k) ==
    /\ pc[c] = "idle"
    /\ calls[c] < MaxCalls
    /\ calls' = [calls EXCEPT ![c] = @ + 1]
    /\ pc' = [pc EXCEPT ![c] = "do"]
    /\ ctor' = [ctor EXCEPT ![c] = k]
    /\ err' = [err EXCEPT ![c] = "nil"]
    /\ UNCHANGED <<once, helper, last, got, failures>>

NewGlobalHelper(c) == Call(c, "full")

NewGlobalHelperWithoutDnsService(c) == Call(c, "withoutDns")

\* Faulty variant: a second goroutine may enter f while it runs.
OnceEnterTwice(c) ==
    /\ pc[c] = "do"
    /\ once # "done"
    /\ once' = "running"
    /\ pc' = [pc EXCEPT ![c] = "build"]
    /\ UNCHANGED <<helper, ctor, err, last, got, calls, failures>>

\* sync.Once lets the first goroutine run f ...
OnceEnter(c) ==
    /\ pc[c] = "do"
    /\ once = "new"
    /\ once' = "running"
    /\ pc' = [pc EXCEPT ![c] = "build"]
    /\ UNCHANGED <<helper, ctor, err, last, got, calls, failures>>

\* Faulty variant: others pass while f is still running.
OnceSkipEarly(c) ==
    /\ pc[c] = "do"
    /\ once # "new"
    /\ pc' = [pc EXCEPT ![c] = "return"]
    /\ UNCHANGED <<once, helper, ctor, err, last, got, calls, failures>>

\* ... keeps the others waiting until f is over, and lets them pass then.
OnceSkip(c) ==
    /\ pc[c] = "do"
    /\ once = "done"
    /\ pc' = [pc EXCEPT ![c] = "return"]
    /\ UNCHANGED <<once, helper, ctor, err, last, got, calls, failures>>

\* helper, err = NewHelper(opts...): provider and service clients are created
\* in turn; the first error abandons the build and assigns nil to helper.
BuildOk(c, k) ==
    /\ pc[c] = "build"
    /\ ctor[c] = k
    /\ helper' = [by |-> c, ctor |-> k]
    /\ pc' = [pc EXCEPT ![c] = "assigned"]
    /\ UNCHANGED <<once, ctor, err, last, got, calls, failures>>

BuildFails(c, k) ==
    /\ pc[c] = "build"
    /\ ctor[c] = k
    /\ helper' = NoHelper
    /\ err' = [err EXCEPT ![c] = "error"]
    /\ failures' = failures + 1
    /\ pc' = [pc EXCEPT ![c] = "assigned"]
    /\ UNCHANGED <<once, ctor, last, got, calls>>

NewHelper(c) == BuildOk(c, "full") \/ BuildFails(c, "full")

NewHelperWithoutDnsService(c) ==
    BuildOk(c, "withoutDns") \/ BuildFails(c, "withoutDns")

\* Faulty variant: the sync.Once is never marked done.
OnceExitStuck(c) ==
    /\ pc[c] = "assigned"
    /\ pc' = [pc EXCEPT ![c] = "return"]
    /\ UNCHANGED <<once, helper, ctor, err, last, got, calls, failures>>

\* f is over: sync.Once is done whatever f did.
OnceExit(c) ==
    /\ pc[c] = "assigned"
    /\ once' = "done"
    /\ pc' = [pc EXCEPT ![c] = "return"]
    /\ UNCHANGED <<helper, ctor, err, last, got, calls, failures>>

\* The constructor returns the caller's own err.
Return(c) ==
    /\ pc[c] = "return"
    /\ last' = [last EXCEPT ![c] = err[c]]
    /\ pc' = [pc EXCEPT ![c] = "idle"]
    /\ UNCHANGED <<once, helper, ctor, err, got, calls, failures>>

\* A read of the package variable.  Only a goroutine that has returned from
\* once.Do is ordered after the assignment; any other may still read nil.
GetGlobalHelper(c) ==
    /\ pc[c] = "idle"
    /\ \E v \in {helper} \union (IF last[c] = "none" THEN {NoHelper} ELSE {}) :
           got' = [got EXCEPT ![c] = v]
    /\ UNCHANGED <<once, helper, pc, ctor, err, last, calls, failures>>

-----------------------------------------------------------------------------

\* The steps of one call that the goroutine takes without outside help.
Step(c) ==
    \/ OnceEnter(c)
    \/ OnceSkip(c)
    \/ OnceExit(c)
    \/ Return(c)

\* The build needs the answer of Keystone.  newProvider asks for it with
\* context.Background() over an HTTP client without a time-out.
Build(c) == NewHelper(c) \/ NewHelperWithoutDnsService(c)

Next == \E c \in Callers :
    \/ NewGlobalHelper(c)
    \/ NewGlobalHelperWithoutDnsService(c)
    \/ Step(c)
    \/ Build(c)
    \/ GetGlobalHelper(c)

Spec == Init /\ [][Next]_vars

\* A goroutine inside a constructor keeps running.  Nothing is assumed of the
\* build: a Keystone that accepts the connection and never answers keeps it.
FairSpec == Spec /\ \A c \in Callers : WF_vars(Step(c))

-----------------------------------------------------------------------------

\* What the package variable, the sync.Once and every goroutine's call can hold:
\* a helper always records who built it and with which constructor.
TypeOK ==
    /\ once \in {"new", "running", "done"}
    /\ helper \in Helpers \union {NoHelper}
    /\ pc \in [Callers -> {"idle", "do", "build", "assigned", "return"}]
    /\ ctor \in [Callers -> Ctors]
    /\ err \in [Callers -> {"nil", "error"}]
    /\ last \in [Callers -> {"none", "nil", "error"}]
    /\ got \in [Callers -> Helpers \union {NoHelper}]
    /\ calls \in [Callers -> 0..MaxCalls]
    /\ failures \in Nat

\* Once any call has returned, the fate of the helper is settled: it is there,
\* or the build failed, exactly one build ever did, and it will not be tried
\* again.  A nil error from NewGlobalHelper therefore means "somebody tried",
\* not "there is a helper".
ReturnMeansSettled ==
    \A c \in Callers : last[c] # "none" =>
        /\ once = "done"
        /\ failures = (IF helper = NoHelper THEN 1 ELSE 0)

\* The error of the build reaches one goroutine at most: no two calls, of the
\* same or of different goroutines, hold or have returned an error.
ErrorReachesOneCaller ==
    \A c, d \in Callers :
        /\ (err[c] = "error" \/ last[c] = "error")
        /\ (err[d] = "error" \/ last[d] = "error")
        => c = d

\* Goroutines that got a helper from GetGlobalHelper, at whatever moment of
\* whatever constructor call, share one and the same helper.
ReadersAgree ==
    \A c \in Callers : got[c] # NoHelper => got[c] = helper

\* The three together, at every moment: a call that has returned finds the
\* matter settled, one goroutine at most learns of a failure, and whoever reads
\* a helper reads the one that stays.
CallersAgree == ReturnMeansSettled /\ ErrorReachesOneCaller /\ ReadersAgree

\* What the package comment leads a caller to expect (email/v2: "for callers
\* that want a single app-wide sender configured at startup and reused via
\* GetGlobalHelper"): after a NewGlobalHelper without error there is a helper.
NilErrorMeansHelper ==
    \A c \in Callers : last[c] = "nil" => helper # NoHelper

BuildHangs == \E c \in Callers : <>[](pc[c] = "build")

\* A build that never ends is the only thing that can keep a constructor call
\* from returning: if it ends, with a helper or with an error, nobody is left
\* waiting on the sync.Once, neither the callers that queued up meanwhile nor
\* later ones.
CallReturns ==
    BuildHangs \/ \A c \in Callers : pc[c] = "do" ~> pc[c] = "idle"

-----------------------------------------------------------------------------

\* The cell a client sees: settled by the build, not by any of the calls.
CellValue ==
    IF failures > 0 THEN NeverBuilt ELSE helper

Cell == INSTANCE OnceCell WITH
    Values <- Helpers, Empty <- NoHelper, Failed <- NeverBuilt, cell <- CellValue

\* The package variable and its sync.Once implement a write-once cell.
ImplementsOnceCell == Cell!Spec

\* The inductive invariant behind the safety properties: f runs in at most one
\* goroutine, and the three phases of the sync.Once bound what it has done.
InFlight(c) == pc[c] \in {"build", "assigned"}

\* While the sync.Once is new nothing is built, while it runs one goroutine is
\* inside f, and once it is done the outcome stands; an error is held by one
\* goroutine and means that no helper will ever be there.
OnceInv ==
    /\ \A c, d \in Callers : InFlight(c) /\ InFlight(d) => c = d
    /\ \A c \in Callers :
        /\ InFlight(c) => once = "running"
        /\ pc[c] = "build" => helper = NoHelper /\ failures = 0
        /\ pc[c] = "assigned" =>
               failures = (IF helper = NoHelper THEN 1 ELSE 0)
        /\ pc[c] = "return" \/ last[c] # "none" => once = "done"
        /\ got[c] # NoHelper => got[c] = helper
    /\ once = "new" => helper = NoHelper /\ failures = 0
    /\ once = "done" => failures = (IF helper = NoHelper THEN 1 ELSE 0)
    /\ \A c \in Callers : err[c] = "error" \/ last[c] = "error" =>
        /\ helper = NoHelper
        /\ failures = 1
        /\ once # "new"
        /\ pc[c] # "build"
        /\ \A d \in Callers \ {c} :
               err[d] = "nil" /\ last[d] # "error" /\ pc[d] # "build"
=============================================================================
