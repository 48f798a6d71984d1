----------------------------- MODULE LeaseCron ------------------------------
(***************************************************************************)
(* The lease-guarded schedule of pkg/kubernetes.  Every replica of a       *)
(* program calls SetLeaseClient, SetLeaseCron and RunLeaseCron; client-go  *)
(* elects one of them over a Lease object and starts its schedule.         *)
(* SetLeaseCron drops the context that ends with the term, and its         *)
(* OnStoppedLeading does nothing: a schedule runs until its process ends.  *)
(* An update of the lease takes effect at the server at one time, and its  *)
(* answer arrives at another: rivals count from the first, a leader from   *)
(* the second.  The requests of a leader end with its renewal deadline;    *)
(* those of a candidate have none, and the clientset sets no time-out.     *)
(* Time passes in units of the retry period, five seconds.  A replica's    *)
(* clock never stands still: a suspended process is not modelled.          *)
(***************************************************************************)
EXTENDS Naturals

CONSTANTS
    Replicas,   \* processes that share the lease
    Nobody,     \* the holder of a lease that is free
    MaxLost,    \* bound: updates of the lease that fail, with or without effect
    MaxStops    \* bound: crashes of replicas and cancellations of their context

\* Faulty variant: the lease is as short as the time its holder keeps trying.
ShortLease == 4

LeaseDuration == 6
RenewDeadline == 3
RetryPeriod == 1

\* A holder that could not renew for that long gives up.
TermEnds == RetryPeriod + RenewDeadline

\* An answer that takes ten seconds or more is slow.
Slow == 2

VARIABLES
    holder,     \* the holder in the Lease object
    set,        \* what each replica has set: "client", "cron"
    stage,      \* "down", "idle", "acquire", "lead", "panic"
    unseen,     \* replicas that have not read the latest change of the lease
    age,        \* since the change it read last; a leader: since its latest answer
    sent,       \* replicas with an update under way that the server would accept
    made,       \* replicas whose update was accepted and whose answer is under way
    strays,     \* replicas with such an update under way that nobody waits for
    delay,      \* history: how long the answer to its latest update took, up to Slow
    spawned,    \* replicas whose OnStartedLeading goroutine has yet to run
    schedules,  \* how many schedules each replica runs: 0, 1 or 2 (and more)
    deposed,    \* history: replicas that lived on when a term of theirs ended
    lost, stops \* bounded events so far

local == <<set, stage, spawned, schedules, deposed>>
updates == <<sent, made, strays, delay>>
vars == <<holder, unseen, age, updates, local, lost, stops>>

Init ==
    /\ holder = Nobody
    /\ set = [r \in Replicas |-> {}]
    /\ stage = [r \in Replicas |-> "idle"]
    /\ unseen = Replicas
    /\ age = [r \in Replicas |-> 0]
    /\ sent = {} /\ made = {} /\ strays = {}
    /\ delay = [r \in Replicas |-> 0]
    /\ spawned = {}
    /\ schedules = [r \in Replicas |-> 0]
    /\ deposed = {}
    /\ lost = 0
    /\ stops = 0

-----------------------------------------------------------------------------

SetLeaseClient(r) ==
    /\ stage[r] = "idle"
    /\ set' = [set EXCEPT ![r] = @ \union {"client"}]
    /\ UNCHANGED <<holder, unseen, age, updates, stage, spawned, schedules, deposed, lost, stops>>

SetLeaseCron(r) ==
    /\ stage[r] = "idle"
    /\ set' = [set EXCEPT ![r] = @ \union {"cron"}]
    /\ UNCHANGED <<holder, unseen, age, updates, stage, spawned, schedules, deposed, lost, stops>>

\* Faulty variant: the schedule is started at once, before the lease is held.
RunAtOnce(r) ==
    /\ stage[r] = "idle"
    /\ set[r] = {"client", "cron"}
    /\ stage' = [stage EXCEPT ![r] = "acquire"]
    /\ unseen' = unseen \union {r}
    /\ spawned' = spawned \union {r}
    /\ UNCHANGED <<holder, age, updates, set, schedules, deposed, lost, stops>>

\* LeaseRun is leaderelection.RunOrDie: it panics without a lock or without
\* callbacks, and else begins to acquire, with nothing observed yet.
RunLeaseCron(r) ==
    /\ stage[r] = "idle"
    /\ \/ /\ set[r] = {"client", "cron"}
          /\ stage' = [stage EXCEPT ![r] = "acquire"]
          /\ unseen' = unseen \union {r}
          /\ UNCHANGED <<spawned, schedules>>
       \/ /\ set[r] # {"client", "cron"}
          /\ stage' = [stage EXCEPT ![r] = "panic"]
          /\ spawned' = spawned \ {r}
          /\ schedules' = [schedules EXCEPT ![r] = 0]
          /\ UNCHANGED unseen
    /\ UNCHANGED <<holder, age, updates, set, deposed, lost, stops>>

\* A read finds the lease changed, in another one's hands.
Observe(r) ==
    /\ stage[r] = "acquire"
    /\ r \in unseen
    /\ holder \notin {Nobody, r}
    /\ unseen' = unseen \ {r}
    /\ age' = [age EXCEPT ![r] = 0]
    /\ UNCHANGED <<holder, updates, local, lost, stops>>

\* The lease is free, its own, or has not changed for its whole duration.
MayTake(r) ==
    \/ holder \in {Nobody, r}
    \/ r \notin unseen /\ age[r] = LeaseDuration

\* A candidate, or a leader when it is time to renew, sends an update.
Request(r) ==
    /\ stage[r] = "acquire" \/ (stage[r] = "lead" /\ age[r] >= RetryPeriod)
    /\ r \notin sent \union made
    /\ MayTake(r)
    /\ sent' = sent \union {r}
    /\ UNCHANGED <<holder, unseen, age, made, strays, delay, local, lost, stops>>

\* The lease changes; the server refuses updates of what it was before, and those
\* who watch that watch in vain.
Becomes(h) ==
    /\ holder' = h
    /\ unseen' = Replicas
    /\ age' = [q \in Replicas |-> IF stage'[q] = "lead" THEN age[q] ELSE 0]
    /\ sent' = {}
    /\ strays' = {}

\* The update is made.
Land(r) ==
    /\ r \in sent
    /\ UNCHANGED <<local, lost, stops>>
    /\ Becomes(r)
    /\ made' = made \union {r}
    /\ delay' = [delay EXCEPT ![r] = 0]

\* Its answer arrives: the replica leads from now on, or goes on leading.
Answered(r) ==
    /\ r \in made
    /\ made' = made \ {r}
    /\ age' = [age EXCEPT ![r] = 0]
    /\ stage' = [stage EXCEPT ![r] = "lead"]
    /\ spawned' = IF stage[r] = "lead" THEN spawned ELSE spawned \union {r}
    /\ UNCHANGED <<holder, unseen, sent, strays, delay, set, schedules, deposed, lost, stops>>

\* The replica no longer waits for its update, which may be made all the same.
Abandon(r) ==
    /\ sent' = sent \ {r}
    /\ made' = made \ {r}
    /\ strays' = strays \union (sent \intersect {r})

\* The replica's run ends, and it forgets the times.
RunEnds(r) ==
    /\ Abandon(r)
    /\ unseen' = unseen \union {r}
    /\ age' = [age EXCEPT ![r] = 0]
    /\ delay' = [delay EXCEPT ![r] = 0]
    /\ UNCHANGED holder

RequestFails(r) ==
    /\ r \in sent \union made
    /\ lost < MaxLost
    /\ lost' = lost + 1
    /\ Abandon(r)
    /\ UNCHANGED <<holder, unseen, age, delay, local, stops>>

LandLate(r) ==
    /\ r \in strays
    /\ UNCHANGED <<made, delay, local, lost, stops>>
    /\ Becomes(r)

\* Faulty variant: the goroutine ends without calling the schedule.
StartNothing(r) ==
    /\ r \in spawned
    /\ spawned' = spawned \ {r}
    /\ UNCHANGED <<holder, unseen, age, updates, set, stage, schedules, deposed, lost, stops>>

\* OnStartedLeading: a goroutine of its own, that may come late.
OnStartedLeading(r) ==
    /\ r \in spawned
    /\ spawned' = spawned \ {r}
    /\ schedules' = [schedules EXCEPT ![r] = IF @ = 0 THEN 1 ELSE 2]
    /\ UNCHANGED <<holder, unseen, age, updates, set, stage, deposed, lost, stops>>

\* The term ends; OnStoppedLeading does nothing and RunLeaseCron returns.
\* ReleaseOnCancel: the lease is given up, if the request gets through.
OnStoppedLeading(r) ==
    /\ stage' = [stage EXCEPT ![r] = "idle"]
    /\ deposed' = deposed \union {r}
    /\ \/ /\ holder = r
          /\ Becomes(Nobody)
          /\ made' = made \ {r}
          /\ delay' = [delay EXCEPT ![r] = 0]
       \/ RunEnds(r)
    /\ UNCHANGED <<set, spawned, schedules, lost>>

RenewFails(r) ==
    /\ stage[r] = "lead"
    /\ age[r] = TermEnds
    /\ OnStoppedLeading(r)
    /\ UNCHANGED stops

\* The program cancels the context: a candidate just returns.
Cancel(r) ==
    /\ stops < MaxStops
    /\ stops' = stops + 1
    /\ \/ stage[r] = "lead" /\ OnStoppedLeading(r)
       \/ /\ stage[r] = "acquire"
          /\ stage' = [stage EXCEPT ![r] = "idle"]
          /\ RunEnds(r)
          /\ UNCHANGED <<set, spawned, schedules, deposed, lost>>

Crash(r) ==
    /\ stage[r] \notin {"down", "panic"}
    /\ stops < MaxStops
    /\ stops' = stops + 1
    /\ stage' = [stage EXCEPT ![r] = "down"]
    /\ spawned' = spawned \ {r}
    /\ schedules' = [schedules EXCEPT ![r] = 0]
    /\ deposed' = deposed \ {r}
    /\ set' = [set EXCEPT ![r] = {}]
    /\ RunEnds(r)
    /\ UNCHANGED lost

Restart(r) ==
    /\ stage[r] = "down"
    /\ stage' = [stage EXCEPT ![r] = "idle"]
    /\ UNCHANGED <<holder, unseen, age, updates, set, spawned, schedules, deposed, lost, stops>>

\* The replica's age matters: it leads, or waits for the lease it saw to run out.
Watches(r) == stage[r] = "lead" \/ (stage[r] = "acquire" /\ r \notin unseen)

\* Five seconds pass, unless a leader is due to give up.
Tick ==
    /\ \A r \in Replicas : stage[r] = "lead" => age[r] < TermEnds
    /\ age' = [r \in Replicas |->
           IF Watches(r) /\ age[r] < LeaseDuration THEN age[r] + 1 ELSE age[r]]
    /\ delay' = [r \in Replicas |->
           IF r \in made /\ delay[r] < Slow THEN delay[r] + 1 ELSE delay[r]]
    /\ UNCHANGED <<holder, unseen, sent, made, strays, local, lost, stops>>

-----------------------------------------------------------------------------

\* What a program does that sets both parts and then runs, again and again.
Program(r) ==
    \/ "client" \notin set[r] /\ SetLeaseClient(r)
    \/ "cron" \notin set[r] /\ SetLeaseCron(r)
    \/ set[r] = {"client", "cron"} /\ RunLeaseCron(r)
    \/ Restart(r)

Next ==
    \/ \E r \in Replicas :
        \/ SetLeaseClient(r) \/ SetLeaseCron(r) \/ RunLeaseCron(r)
        \/ Observe(r) \/ Request(r) \/ Land(r) \/ Answered(r)
        \/ RequestFails(r) \/ LandLate(r)
        \/ OnStartedLeading(r) \/ RenewFails(r)
        \/ Cancel(r) \/ Crash(r) \/ Restart(r)
    \/ Tick

Spec == Init /\ [][Next]_vars

-----------------------------------------------------------------------------

Leaders == {r \in Replicas : stage[r] = "lead"}

\* The variables have their types; a panic ended its process and its schedules.
TypeOK ==
    /\ holder \in Replicas \union {Nobody}
    /\ set \in [Replicas -> SUBSET {"client", "cron"}]
    /\ stage \in [Replicas -> {"down", "idle", "acquire", "lead", "panic"}]
    /\ unseen \subseteq Replicas
    /\ age \in [Replicas -> 0..LeaseDuration]
    /\ {sent, made, strays} \subseteq SUBSET Replicas
    /\ delay \in [Replicas -> 0..Slow]
    /\ spawned \subseteq Replicas
    /\ schedules \in [Replicas -> 0..2]
    /\ deposed \subseteq Replicas
    /\ lost \in 0..MaxLost
    /\ stops \in 0..MaxStops

\* The periods given to RunLeaseCron fit together: whoever takes the lease finds
\* the previous leader stepped down, lost answers, updates that come late, late
\* readers and crashes included, as long as the answers of the lease take less than
\* ten seconds.  A replica that leads beside another one does so after a slow answer:
\* it counts from there, and the other from the update.
OneLeader == \A q, r \in Leaders : q = r \/ Slow \in {delay[q], delay[r]}

\* A second schedule runs only beside one that outlived its term: each replica
\* that runs one without leading has been deposed and not restarted since, and
\* so has one that runs two.
SecondScheduleIsAnOldOne ==
    \A r \in Replicas :
        /\ schedules[r] > 0 /\ stage[r] # "lead" => r \in deposed
        /\ schedules[r] > 1 => r \in deposed

\* However the replicas crash, the schedule is run again in the end, unless all
\* of them ended in a panic.
ScheduleResumes ==
    (\A r \in Replicas : schedules[r] = 0) ~>
        \/ \E r \in Replicas : schedules[r] > 0
        \/ \A r \in Replicas : stage[r] = "panic"

-----------------------------------------------------------------------------

\* How long rivals may have been watching the lease that r has written.
Watched(r) == IF r \in made THEN delay[r] ELSE age[r] + delay[r]

\* The lease is safely in the hands of r: its name is in the Lease object, no
\* rival's update can overwrite it, and no candidate has watched it for too long.
Holds(r) ==
    /\ holder = r
    /\ sent \union strays \subseteq {r}
    /\ \A q \in Replicas \ {r} :
           stage[q] = "acquire" /\ q \notin unseen => age[q] <= Watched(r)

\* Why there is one leader: whoever leads, or waits for the answer that makes it
\* lead, holds the lease as long as its answers are prompt; the latest answer and
\* the time a leader goes without another take less together than the lease lasts.
LeaseInv ==
    /\ \A r \in Replicas : stage[r] = "lead" => age[r] <= TermEnds
    /\ \A r \in sent \union made : stage[r] \in {"acquire", "lead"}
    /\ \A r \in Replicas : (stage[r] = "lead" \/ r \in made) /\ delay[r] < Slow => Holds(r)

\* Where schedules come from: a goroutine to start one belongs to a leader or to
\* a replica that was deposed, and it is the second one only of the latter.
ScheduleInv ==
    \A r \in Replicas :
        /\ r \in spawned /\ stage[r] # "lead" => r \in deposed
        /\ r \in spawned /\ schedules[r] > 0 => r \in deposed
        /\ stage[r] \in {"down", "panic"} => r \notin spawned /\ schedules[r] = 0
=============================================================================
