-------------------------- MODULE AutomationProofs --------------------------
(***************************************************************************)
(* Safety of the automation plugin for every set of rules and any number   *)
(* of jobs, data events, loops and restarts.                               *)
(***************************************************************************)
EXTENDS Automation, FiniteSetTheorems, TLAPS

-----------------------------------------------------------------------------
(* Sequences *)

LEMMA RemoveAtType ==
  ASSUME NEW S, NEW s \in Seq(S), NEW i \in DOMAIN s
  PROVE  RemoveAt(s, i) \in Seq(S)
  BY DEF RemoveAt

LEMMA FrontType ==
  ASSUME NEW S, NEW s \in Seq(S), s # <<>>
  PROVE  Front(s) \in Seq(S)
  BY DEF Front

LEMMA AppendType ==
  ASSUME NEW S, NEW s \in Seq(S), NEW x \in S
  PROVE  Append(s, x) \in Seq(S) /\ Append(s, x) # <<>>
<1>1. Append(s, x) \in Seq(S) /\ Len(Append(s, x)) = Len(s) + 1 /\ Len(s) \in Nat
  OBVIOUS
<1>2. Len(<<>>) = 0
  OBVIOUS
<1> QED
  BY <1>1, <1>2

LEMMA SeqSubset ==
  ASSUME NEW S, NEW T, S \subseteq T
  PROVE  Seq(S) \subseteq Seq(T)
  OBVIOUS

\* Replacing one element by one of the same set.
LEMMA UpdateType ==
  ASSUME NEW S, NEW s \in Seq(S), NEW i \in DOMAIN s, NEW x \in S
  PROVE  /\ [s EXCEPT ![i] = x] \in Seq(S)
         /\ DOMAIN [s EXCEPT ![i] = x] = DOMAIN s
  OBVIOUS

-----------------------------------------------------------------------------
(* The copies of a rule that jobs, events and timeouts hold are not ahead of
   the executions that succeeded. *)

JobsOf(d) == {x \in Job : x.seen <= d[x.rule]}

EventsOf(d) ==
    {e \in Event : /\ DOMAIN e.seen = DOMAIN e.rules
                   /\ e.kind = "execute" => 1 \in DOMAIN e.rules
                   /\ \A k \in DOMAIN e.rules : e.seen[k] <= d[e.rules[k]]}

CopiesNotAhead ==
    /\ jobs \in Seq(JobsOf(done))
    /\ events \in Seq(EventsOf(done))
    /\ \A r \in Rules : cron[r] \in Seq(0..done[r])

AInv == TypeOK /\ CountNeverAhead /\ CopiesNotAhead

\* More successes leave the copies where they are.
LEMMA CopiesMonotone ==
  ASSUME NEW d \in [Rules -> Nat], NEW r \in Rules
  PROVE  /\ JobsOf(d) \subseteq JobsOf([d EXCEPT ![r] = @ + 1])
         /\ EventsOf(d) \subseteq EventsOf([d EXCEPT ![r] = @ + 1])
         /\ \A q \in Rules : 0..d[q] \subseteq 0..[d EXCEPT ![r] = @ + 1][q]
<1> DEFINE e == [d EXCEPT ![r] = @ + 1]
<1>1. \A q \in Rules : d[q] <= e[q] /\ d[q] \in Nat /\ e[q] \in Nat
  OBVIOUS
<1>2. JobsOf(d) \subseteq JobsOf(e)
  BY <1>1 DEF JobsOf, Job
<1>3. EventsOf(d) \subseteq EventsOf(e)
  <2> SUFFICES ASSUME NEW x \in EventsOf(d), NEW k \in DOMAIN x.rules
               PROVE  x.seen[k] <= e[x.rules[k]]
    BY DEF EventsOf
  <2>1. x.rules[k] \in Rules /\ x.seen[k] \in Nat /\ x.seen[k] <= d[x.rules[k]]
    BY DEF EventsOf, Event
  <2> QED
    BY <1>1, <2>1
<1>4. \A q \in Rules : 0..d[q] \subseteq 0..e[q]
  BY <1>1
<1> QED
  BY <1>2, <1>3, <1>4

\* The queue gets a job for a firing.
LEMMA NewJobType ==
  ASSUME NEW d \in [Rules -> Nat], NEW r \in Rules, NEW n \in Nat, n <= d[r]
  PROVE  NewJob(r, n) \in JobsOf(d)
  BY DEF NewJob, JobsOf, Job

LEMMA InitAInv == Init => AInv
<1> SUFFICES ASSUME Init PROVE AInv
  OBVIOUS
<1>1. \A S : <<>> \in Seq(S)
  OBVIOUS
<1>2. TypeOK
  <2>1. /\ rules \in [Rules -> {"absent", "active", "inactive"}]
        /\ count \in [Rules -> Nat] /\ done \in [Rules -> Nat]
        /\ cron \in [Rules -> Seq(Nat)]
    BY <1>1 DEF Init
  <2>2. jobs \in Seq(Job) /\ events \in Seq(Event) /\ loops \in Seq(Loop)
    BY <1>1 DEF Init
  <2>3. DOMAIN loops = {}
    BY DEF Init
  <2>4. scheduled \in SUBSET {r \in Rules : cron[r] # <<>>}
    BY DEF Init
  <2> QED
    BY <2>1, <2>2, <2>3, <2>4 DEF Init, TypeOK
<1>3. CopiesNotAhead
  BY <1>1 DEF Init, CopiesNotAhead
<1> QED
  BY <1>2, <1>3 DEF Init, AInv, CountNeverAhead

-----------------------------------------------------------------------------
(* Steps of the rules and the triggers *)

LEMMA UnregisterAInv ==
  ASSUME AInv, NEW r \in Rules, UnregisterFlow(r) \/ UnregisterTrigger(r)
  PROVE  AInv'
<1> USE DEF AInv
<1>1. CASE UnregisterFlow(r)
  BY <1>1 DEF UnregisterFlow, queueVars, triggerVars, TypeOK, CountNeverAhead, CopiesNotAhead
<1>2. CASE UnregisterTrigger(r)
  <2>1. /\ cron' \in [Rules -> Seq(Nat)]
        /\ \A q \in Rules : cron'[q] \in Seq(0..done[q])
    BY <1>2, FrontType DEF UnregisterTrigger, TypeOK, CopiesNotAhead
  <2>2. scheduled' \in SUBSET {q \in Rules : cron'[q] # <<>>}
    BY <1>2 DEF UnregisterTrigger, TypeOK
  <2> QED
    BY <1>2, <2>1, <2>2
    DEF UnregisterTrigger, queueVars, ruleVars, TypeOK, CountNeverAhead, CopiesNotAhead
<1> QED
  BY <1>1, <1>2

LEMMA ShutdownAInv ==
  ASSUME AInv, Shutdown
  PROVE  /\ cron' \in [Rules -> Seq(Nat)]
         /\ \A q \in Rules : cron'[q] \in Seq(0..done[q])
         /\ scheduled' \in SUBSET {q \in Rules : cron'[q] # <<>>}
  BY FrontType DEF AInv, Shutdown, TypeOK, CopiesNotAhead

\* New jobs, whose copies are not ahead, do not disturb the loops.
LEMMA JobsAppended ==
  ASSUME AInv, NEW new \in Seq(JobsOf(done)), jobs' = jobs \o new,
         UNCHANGED <<loops, done>>
  PROVE  /\ jobs' \in Seq(JobsOf(done)) /\ jobs' \in Seq(Job)
         /\ \A l \in DOMAIN loops' : loops'[l].at = "batch" => loops'[l].job \in DOMAIN jobs'
<1>1. jobs' \in Seq(JobsOf(done))
  BY DEF AInv, CopiesNotAhead
<1>2. JobsOf(done) \subseteq Job
  BY DEF JobsOf
<1>3. jobs' \in Seq(Job) /\ DOMAIN jobs \subseteq DOMAIN jobs'
  BY <1>1, <1>2 DEF AInv, TypeOK
<1> QED
  BY <1>1, <1>3 DEF AInv, TypeOK

LEMMA CronFiresAInv ==
  ASSUME AInv, NEW r \in Rules, NEW i \in DOMAIN cron[r], CronFires(r, i)
  PROVE  AInv'
<1> USE DEF AInv
<1>1. cron[r][i] \in 0..done[r] /\ done \in [Rules -> Nat] /\ cron[r] \in Seq(0..done[r])
  BY DEF CopiesNotAhead, TypeOK
<1>2. NewJob(r, cron[r][i]) \in JobsOf(done)
  BY <1>1, NewJobType
<1>3. /\ jobs' = jobs \o <<NewJob(r, cron[r][i])>>
      /\ <<NewJob(r, cron[r][i])>> \in Seq(JobsOf(done))
  BY <1>2 DEF CronFires, CopiesNotAhead
<1>4. /\ jobs' \in Seq(JobsOf(done)) /\ jobs' \in Seq(Job)
      /\ \A l \in DOMAIN loops' : loops'[l].at = "batch" => loops'[l].job \in DOMAIN jobs'
  BY <1>3, JobsAppended DEF CronFires, ruleVars
<1>5. /\ Append(RemoveAt(cron[r], i), cron[r][i]) \in Seq(0..done[r])
      /\ Append(RemoveAt(cron[r], i), cron[r][i]) # <<>>
  BY <1>1, RemoveAtType, AppendType
<1>6. /\ cron' \in [Rules -> Seq(Nat)]
      /\ \A q \in Rules : cron'[q] \in Seq(0..done[q])
      /\ cron'[r] # <<>> /\ \A q \in Rules \ {r} : cron'[q] = cron[q]
  <2>1. 0..done[r] \subseteq Nat
    BY <1>1
  <2>2. Append(RemoveAt(cron[r], i), cron[r][i]) \in Seq(Nat)
    BY <1>5, <2>1, SeqSubset
  <2>3. cron' = [cron EXCEPT ![r] = Append(RemoveAt(cron[r], i), cron[r][i])]
    BY DEF CronFires
  <2> HIDE DEF AInv
  <2>4. cron \in [Rules -> Seq(Nat)] /\ \A q \in Rules : cron[q] \in Seq(0..done[q])
    BY DEF AInv, TypeOK, CopiesNotAhead
  <2> QED
    BY <1>5, <2>2, <2>3, <2>4
<1>7. scheduled' \in SUBSET {q \in Rules : cron'[q] # <<>>}
  BY <1>6 DEF CronFires, TypeOK
<1> QED
  BY <1>4, <1>6, <1>7 DEF CronFires, ruleVars, TypeOK, CountNeverAhead, CopiesNotAhead

\* Events of EventsOf are well typed, and jobs of JobsOf.
LEMMA CopiesTyped ==
  ASSUME NEW d PROVE Seq(EventsOf(d)) \subseteq Seq(Event) /\ Seq(JobsOf(d)) \subseteq Seq(Job)
<1>1. EventsOf(d) \subseteq Event /\ JobsOf(d) \subseteq Job
  BY DEF EventsOf, JobsOf
<1> QED
  BY <1>1, SeqSubset

\* A further call awaits the storage, with copies that are not ahead.
LEMMA AwaitAInv ==
  ASSUME AInv, NEW rs \in Seq(Rules), NEW counts \in Seq(Nat), DOMAIN counts = DOMAIN rs,
         \A i \in DOMAIN rs : counts[i] <= done[rs[i]],
         NEW k \in {"queue", "execute", "arm"}, k = "execute" => 1 \in DOMAIN rs,
         NEW n \in Nat, Await(k, rs, counts, n)
  PROVE  events' \in Seq(Event) /\ events' \in Seq(EventsOf(done))
<1>1. CASE events' = events
  BY <1>1 DEF AInv, TypeOK, CopiesNotAhead
<1>2. CASE events' # events
  <2> DEFINE e == [kind |-> k, rules |-> rs, action |-> n, seen |-> counts]
  <2>1. e \in EventsOf(done)
    BY DEF EventsOf, Event
  <2>2. events' = Append(events, e)
    BY <1>2 DEF Await
  <2> HIDE DEF e
  <2>3. events' \in Seq(EventsOf(done))
    BY <2>1, <2>2, AppendType DEF AInv, CopiesNotAhead
  <2> QED
    BY <2>3, CopiesTyped
<1> QED
  BY <1>1, <1>2

\* The counts of listed rules are copies that are not ahead.
LEMMA ListedCounts ==
  ASSUME AInv, NEW S \in SUBSET Rules, NEW rs \in ByPriority(S)
  PROVE  /\ rs \in Seq(Rules)
         /\ [i \in DOMAIN rs |-> count[rs[i]]] \in Seq(Nat)
         /\ \A i \in DOMAIN rs : count[rs[i]] <= done[rs[i]]
<1>1. Cardinality(S) \in Nat
  BY FS_Subset, FS_CardinalityType, AutomationAssumption
<1>2. rs \in Seq(Rules)
  BY <1>1 DEF ByPriority
<1>3. \A i \in DOMAIN rs : rs[i] \in Rules
  BY <1>2
<1> QED
  BY <1>2, <1>3 DEF AInv, TypeOK, CountNeverAhead

LEMMA RegisterAInv ==
  ASSUME AInv, NEW r \in Rules, NEW s \in {"active", "inactive"}, RegisterRule(r, s)
  PROVE  AInv'
<1>1. /\ rules' \in [Rules -> {"absent", "active", "inactive"}]
      /\ count' \in [Rules -> Nat] /\ \A q \in Rules : count'[q] <= done'[q]
  BY DEF RegisterRule, AInv, TypeOK, CountNeverAhead
<1>2. events' \in Seq(Event) /\ events' \in Seq(EventsOf(done))
  <2>1. CASE Await("arm", <<r>>, <<0>>, 0)
    <3>1. /\ <<r>> \in Seq(Rules) /\ <<0>> \in Seq(Nat) /\ DOMAIN <<0>> = DOMAIN <<r>>
          /\ \A i \in DOMAIN <<r>> : <<0>>[i] <= done[<<r>>[i]]
      BY DEF AInv, TypeOK
    <3> QED
      BY <2>1, <3>1, AwaitAInv
  <2>2. CASE events' = events
    BY <2>2 DEF AInv, TypeOK, CopiesNotAhead
  <2> QED
    BY <2>1, <2>2 DEF RegisterRule
<1> QED
  BY <1>1, <1>2 DEF RegisterRule, queueVars, AInv, TypeOK, CountNeverAhead, CopiesNotAhead

LEMMA DataEventAInv ==
  ASSUME AInv, NEW type, NEW S \in SUBSET Rules, DataEvent(type, S)
  PROVE  AInv'
<1>1. PICK rs \in ByPriority(S) : Await("queue", rs, [i \in DOMAIN rs |-> count[rs[i]]], 0)
  BY DEF DataEvent
<1>2. events' \in Seq(Event) /\ events' \in Seq(EventsOf(done))
  <2> DEFINE counts == [i \in DOMAIN rs |-> count[rs[i]]]
  <2>1. /\ rs \in Seq(Rules) /\ counts \in Seq(Nat) /\ DOMAIN counts = DOMAIN rs
        /\ \A i \in DOMAIN rs : counts[i] <= done[rs[i]]
    BY ListedCounts
  <2> HIDE DEF counts
  <2> QED
    BY <1>1, <2>1, AwaitAInv DEF counts
<1> QED
  BY <1>2
  DEF DataEvent, queueVars, ruleVars, AInv, TypeOK, CountNeverAhead, CopiesNotAhead

LEMMA ExecuteAInv ==
  ASSUME AInv, NEW r \in Rules, Execute(r)
  PROVE  AInv'
<1>1. /\ <<r>> \in Seq(Rules) /\ <<count[r]>> \in Seq(Nat)
      /\ DOMAIN <<count[r]>> = DOMAIN <<r>> /\ 1 \in DOMAIN <<r>>
      /\ \A i \in DOMAIN <<r>> : <<count[r]>>[i] <= done[<<r>>[i]]
  BY DEF AInv, TypeOK, CountNeverAhead
<1>2. Await("execute", <<r>>, <<count[r]>>, 1)
  BY DEF Execute
<1>3. events' \in Seq(Event) /\ events' \in Seq(EventsOf(done))
  BY <1>1, <1>2, AwaitAInv
<1> QED
  BY <1>3
  DEF Execute, queueVars, ruleVars, AInv, TypeOK, CountNeverAhead, CopiesNotAhead

\* An event is handled.
LEMMA EventRemoved ==
  ASSUME AInv, NEW i \in DOMAIN events, events' = RemoveAt(events, i)
  PROVE  events' \in Seq(Event) /\ events' \in Seq(EventsOf(done))
  BY RemoveAtType DEF AInv, TypeOK, CopiesNotAhead

LEMMA QueueFiringAInv ==
  ASSUME AInv, NEW i \in DOMAIN events, QueueFiring(i)
  PROVE  AInv'
<1> DEFINE e == events[i]
           new == [k \in DOMAIN e.rules |-> NewJob(e.rules[k], e.seen[k])]
<1>1. e \in EventsOf(done) /\ done \in [Rules -> Nat]
  BY DEF AInv, CopiesNotAhead, TypeOK
<1>2. e.rules \in Seq(Rules) /\ e.seen \in Seq(Nat) /\ DOMAIN e.seen = DOMAIN e.rules
  BY <1>1 DEF EventsOf, Event
<1>3. ASSUME NEW k \in DOMAIN e.rules PROVE NewJob(e.rules[k], e.seen[k]) \in JobsOf(done)
  <2>1. e.rules[k] \in Rules /\ e.seen[k] \in Nat /\ e.seen[k] <= done[e.rules[k]]
    BY <1>1, <1>2 DEF EventsOf
  <2> QED
    BY <1>1, <2>1, NewJobType
<1>4. new \in Seq(JobsOf(done))
  BY <1>2, <1>3
<1>5. /\ jobs' \in Seq(JobsOf(done)) /\ jobs' \in Seq(Job)
      /\ \A l \in DOMAIN loops' : loops'[l].at = "batch" => loops'[l].job \in DOMAIN jobs'
  BY <1>4, JobsAppended DEF QueueFiring, ruleVars
<1>6. events' \in Seq(Event) /\ events' \in Seq(EventsOf(done))
  BY EventRemoved DEF QueueFiring
<1> QED
  BY <1>5, <1>6
  DEF QueueFiring, ruleVars, AInv, TypeOK, CountNeverAhead, CopiesNotAhead

\* The timeouts that are armed hold the copies of the call that arms them.
LEMMA ArmAInv ==
  ASSUME AInv, NEW i \in DOMAIN events, ArmTriggers(i)
  PROVE  AInv'
<1> DEFINE e == events[i]
           At(r) == {k \in DOMAIN e.rules : e.rules[k] = r}
<1>1. e \in EventsOf(done) /\ done \in [Rules -> Nat]
  BY DEF AInv, CopiesNotAhead, TypeOK
<1>2. e.rules \in Seq(Rules) /\ e.seen \in Seq(Nat) /\ DOMAIN e.seen = DOMAIN e.rules
  BY <1>1 DEF EventsOf, Event
<1>3. ASSUME NEW q \in Rules
      PROVE  /\ cron'[q] \in Seq(Nat) /\ cron'[q] \in Seq(0..done[q])
             /\ At(q) # {} => cron'[q] # <<>>
             /\ At(q) = {} => cron'[q] = cron[q]
  <2>1. cron[q] \in Seq(Nat) /\ cron[q] \in Seq(0..done[q]) /\ done[q] \in Nat
    BY DEF AInv, TypeOK, CopiesNotAhead
  <2>2. CASE At(q) = {}
    BY <2>1, <2>2 DEF ArmTriggers
  <2>3. CASE At(q) # {}
    <3>1. PICK k : k = CHOOSE m \in At(q) : TRUE
      OBVIOUS
    <3>2. k \in DOMAIN e.rules /\ e.rules[k] = q
      BY <2>3, <3>1
    <3>3. e.seen[k] \in Nat /\ e.seen[k] \in 0..done[q]
      <4>1. e.seen[k] <= done[e.rules[k]]
        BY <1>1, <3>2 DEF EventsOf
      <4>2. e.seen[k] \in Nat
        BY <1>2, <3>2
      <4> QED
        BY <2>1, <3>2, <4>1, <4>2
    <3>4. cron'[q] = Append(cron[q], e.seen[k])
      BY <2>3, <3>1 DEF ArmTriggers
    <3> QED
      BY <2>1, <2>3, <3>3, <3>4, AppendType
  <2> QED
    BY <2>2, <2>3
<1>4. cron' \in [Rules -> Seq(Nat)]
  BY <1>3 DEF ArmTriggers
<1>5. scheduled' \in SUBSET {q \in Rules : cron'[q] # <<>>}
  <2> SUFFICES ASSUME NEW q \in scheduled' PROVE q \in Rules /\ cron'[q] # <<>>
    OBVIOUS
  <2>1. CASE q \in scheduled
    BY <1>3, <2>1 DEF AInv, TypeOK
  <2>2. CASE q \in ToSet(e.rules)
    <3>1. PICK k \in DOMAIN e.rules : e.rules[k] = q
      BY <2>2 DEF ToSet
    <3>2. q \in Rules /\ At(q) # {}
      BY <1>2, <3>1
    <3> QED
      BY <1>3, <3>2
  <2> QED
    BY <2>1, <2>2 DEF ArmTriggers
<1>6. events' \in Seq(Event) /\ events' \in Seq(EventsOf(done))
  BY EventRemoved DEF ArmTriggers
<1> QED
  BY <1>3, <1>4, <1>5, <1>6
  DEF ArmTriggers, queueVars, ruleVars, AInv, TypeOK, CountNeverAhead, CopiesNotAhead

-----------------------------------------------------------------------------
(* The stats of an execution *)

LEMMA StatsAInv ==
  ASSUME AInv, NEW r \in Rules, NEW n \in Nat, n <= done[r], Stats(r, n)
  PROVE  /\ rules' = rules
         /\ count' \in [Rules -> Nat] /\ done' \in [Rules -> Nat]
         /\ CountNeverAhead'
         /\ Seq(JobsOf(done)) \subseteq Seq(JobsOf(done'))
         /\ Seq(EventsOf(done)) \subseteq Seq(EventsOf(done'))
         /\ \A q \in Rules : Seq(0..done[q]) \subseteq Seq(0..done'[q])
<1>1. done \in [Rules -> Nat] /\ done' = [done EXCEPT ![r] = @ + 1]
  BY DEF Stats, AInv, TypeOK
<1>2. /\ JobsOf(done) \subseteq JobsOf(done')
      /\ EventsOf(done) \subseteq EventsOf(done')
      /\ \A q \in Rules : 0..done[q] \subseteq 0..done'[q]
  BY <1>1, CopiesMonotone
<1>3. count' \in [Rules -> Nat] /\ \A q \in Rules : count'[q] <= done'[q]
  BY <1>1 DEF Stats, AInv, TypeOK, CountNeverAhead
<1>4. /\ Seq(JobsOf(done)) \subseteq Seq(JobsOf(done'))
      /\ Seq(EventsOf(done)) \subseteq Seq(EventsOf(done'))
  BY <1>2, SeqSubset
<1>5. \A q \in Rules : Seq(0..done[q]) \subseteq Seq(0..done'[q])
  BY <1>2, SeqSubset
<1>6. done' \in [Rules -> Nat] /\ rules' = rules
  BY <1>1 DEF Stats
<1> QED
  BY <1>3, <1>4, <1>5, <1>6 DEF CountNeverAhead

LEMMA DirectAInv ==
  ASSUME AInv, NEW i \in DOMAIN events, DirectAction(i) \/ DirectFails(i) \/ DirectEnds(i)
  PROVE  AInv'
<1>1. events[i] \in EventsOf(done) /\ events[i] \in Event
  BY DEF AInv, CopiesNotAhead, EventsOf
<1>2. CASE DirectAction(i)
  <2> DEFINE x == [events[i] EXCEPT !.action = @ + 1]
  <2>1. x \in EventsOf(done)
    BY <1>1 DEF EventsOf, Event
  <2>2. events' = [events EXCEPT ![i] = x]
    BY <1>2 DEF DirectAction
  <2> HIDE DEF x
  <2>3. events' \in Seq(EventsOf(done))
    BY <2>1, <2>2, UpdateType DEF AInv, CopiesNotAhead
  <2>4. events' \in Seq(Event)
    BY <2>3, CopiesTyped
  <2> QED
    BY <1>2, <2>3, <2>4
    DEF DirectAction, queueVars, ruleVars, AInv, TypeOK, CountNeverAhead, CopiesNotAhead
<1>3. CASE DirectFails(i)
  BY <1>3, EventRemoved
  DEF DirectFails, queueVars, ruleVars, AInv, TypeOK, CountNeverAhead, CopiesNotAhead
<1>4. CASE DirectEnds(i)
  <2>1. events[i].rules[1] \in Rules /\ events[i].seen[1] \in Nat
        /\ events[i].seen[1] <= done[events[i].rules[1]]
    BY <1>1, <1>4 DEF DirectEnds, EventsOf, Event
  <2>2. Stats(events[i].rules[1], events[i].seen[1])
    BY <1>4 DEF DirectEnds
  <2>3. events' \in Seq(Event) /\ events' \in Seq(EventsOf(done))
    BY <1>4, EventRemoved DEF DirectEnds
  <2> QED
    BY <1>4, <2>1, <2>2, <2>3, StatsAInv
    DEF DirectEnds, queueVars, AInv, TypeOK, CopiesNotAhead
<1> QED
  BY <1>2, <1>3, <1>4

-----------------------------------------------------------------------------
(* Steps of the worker *)

\* After a step that only moves loops and jobs AInv needs this much.
LEMMA WorkerAInv ==
  ASSUME AInv, UNCHANGED <<ruleVars, triggerVars>>,
         jobs' \in Seq(JobsOf(done)), loops' \in Seq(Loop),
         processing' \in BOOLEAN, timer' \in Nat,
         \A l \in DOMAIN loops' : loops'[l].at = "batch" => loops'[l].job \in DOMAIN jobs'
  PROVE  AInv'
<1>1. jobs' \in Seq(Job)
  BY CopiesTyped
<1> QED
  BY <1>1 DEF ruleVars, triggerVars, AInv, TypeOK, CountNeverAhead, CopiesNotAhead

LEMMA IdleType == Idle \in Loop /\ [Idle EXCEPT !.at = "off"] \in Loop
                  /\ Idle.at # "batch" /\ [Idle EXCEPT !.at = "off"].at # "batch"
  BY DEF Idle, Loop

\* A loop at rest has no job; the other loops are where they were.
LEMMA RestType ==
  ASSUME AInv, NEW l \in DOMAIN loops, Rest(l)
  PROVE  /\ loops' \in Seq(Loop) /\ timer' \in Nat /\ DOMAIN loops' = DOMAIN loops
         /\ loops'[l].at # "batch"
         /\ \A m \in DOMAIN loops : m # l => loops'[m] = loops[m]
<1>1. loops \in Seq(Loop) /\ timer \in Nat /\ l \in Nat
  BY DEF AInv, TypeOK
<1>2. PICK x \in Loop : x.at # "batch" /\ loops' = [loops EXCEPT ![l] = x]
  BY IdleType DEF Rest
<1>3. timer' \in Nat
  BY <1>1 DEF Rest
<1> QED
  BY <1>1, <1>2, <1>3, UpdateType

\* A job that is given another status, due and attempts stays one of JobsOf.
LEMMA JobUpdated ==
  ASSUME AInv, NEW j \in DOMAIN jobs, NEW x,
         x \in Job, x.rule = jobs[j].rule, x.seen = jobs[j].seen
  PROVE  /\ [jobs EXCEPT ![j] = x] \in Seq(JobsOf(done))
         /\ DOMAIN [jobs EXCEPT ![j] = x] = DOMAIN jobs
<1>1. jobs \in Seq(JobsOf(done)) /\ jobs[j] \in JobsOf(done)
  BY DEF AInv, CopiesNotAhead
<1>2. x \in JobsOf(done)
  BY <1>1 DEF JobsOf
<1> QED
  BY <1>1, <1>2, UpdateType

\* A failed job waits for another attempt, or is given up.
LEMMA FailedType ==
  ASSUME AInv, NEW j \in DOMAIN jobs, Failed(j)
  PROVE  jobs' \in Seq(JobsOf(done)) /\ DOMAIN jobs' = DOMAIN jobs
<1> DEFINE x == [jobs[j] EXCEPT !.status = IF jobs[j].attempts < MaxAttempts
                                           THEN "delayed" ELSE "failed",
                                !.due = FALSE]
<1>1. jobs[j] \in Job
  BY DEF AInv, TypeOK
<1>2. x \in Job /\ x.rule = jobs[j].rule /\ x.seen = jobs[j].seen
  BY <1>1 DEF Job
<1>3. jobs' = [jobs EXCEPT ![j] = x]
  BY DEF Failed, AInv, TypeOK
<1> HIDE DEF x
<1> QED
  BY <1>2, <1>3, JobUpdated

\* A loop takes its next job, waits, or is done with one.
LEMMA LoopAInv ==
  ASSUME AInv, NEW l \in DOMAIN loops, LoopStep(l)
  PROVE  AInv'
<1>1. /\ loops \in Seq(Loop) /\ loops[l] \in Loop /\ jobs \in Seq(Job)
      /\ loops[l].at = "batch" => loops[l].job \in DOMAIN jobs
      /\ jobs \in Seq(JobsOf(done)) /\ processing \in BOOLEAN /\ timer \in Nat
      /\ \A m \in DOMAIN loops : loops[m].at = "batch" => loops[m].job \in DOMAIN jobs
  BY DEF AInv, TypeOK, CopiesNotAhead
<1>2. CASE TickIdle(l)
  BY <1>1, <1>2, RestType, WorkerAInv DEF TickIdle, ruleVars, triggerVars
<1>3. ASSUME NEW j \in DOMAIN jobs, Tick(l, j) PROVE AInv'
  <2> DEFINE x == [jobs[j] EXCEPT !.status = "processing", !.attempts = @ + 1]
             y == [at |-> "batch", job |-> j, action |-> 1]
  <2>0. jobs[j] \in Job /\ j \in Nat /\ jobs[j].attempts + 1 \in Nat
    <3>1. jobs[j] \in Job /\ j \in Nat
      BY <1>1
    <3> QED
      BY <3>1 DEF Job
  <2>1. x \in Job /\ x.rule = jobs[j].rule /\ x.seen = jobs[j].seen /\ y \in Loop
    BY <2>0 DEF Job, Loop
  <2>2. jobs' = [jobs EXCEPT ![j] = x] /\ loops' = [loops EXCEPT ![l] = y]
    BY <1>1, <1>3 DEF Tick
  <2>3. y.job = j
    OBVIOUS
  <2> HIDE DEF x, y
  <2>4. jobs' \in Seq(JobsOf(done)) /\ DOMAIN jobs' = DOMAIN jobs
    BY <2>1, <2>2, JobUpdated
  <2>5. loops' \in Seq(Loop) /\ DOMAIN loops' = DOMAIN loops
    BY <1>1, <2>1, <2>2, UpdateType
  <2>6. \A m \in DOMAIN loops' : loops'[m].at = "batch" => loops'[m].job \in DOMAIN jobs'
    BY <1>1, <2>2, <2>3, <2>4, <2>5
  <2> QED
    BY <1>1, <1>3, <2>4, <2>5, <2>6, WorkerAInv DEF Tick
<1>4. CASE ActionDone(l)
  <2> DEFINE y == [loops[l] EXCEPT !.action = @ + 1]
  <2>0. loops[l] \in Loop /\ loops[l].action + 1 \in Nat
    BY <1>1 DEF Loop
  <2>1. y \in Loop /\ y.job = loops[l].job /\ y.at = loops[l].at
    BY <2>0 DEF Loop
  <2>2. loops' = [loops EXCEPT ![l] = y] /\ jobs' = jobs
    BY <1>4 DEF ActionDone
  <2> HIDE DEF y
  <2>3. loops' \in Seq(Loop) /\ DOMAIN loops' = DOMAIN loops
    BY <1>1, <2>1, <2>2, UpdateType
  <2>4. \A m \in DOMAIN loops' : loops'[m].at = "batch" => loops'[m].job \in DOMAIN jobs'
    BY <1>1, <2>1, <2>2, <2>3
  <2> QED
    BY <1>1, <1>4, <2>2, <2>3, <2>4, WorkerAInv DEF ActionDone
<1>5. CASE ActionFails(l)
  <2>1. jobs' \in Seq(JobsOf(done)) /\ DOMAIN jobs' = DOMAIN jobs
    BY <1>1, <1>5, FailedType DEF ActionFails
  <2> QED
    BY <1>1, <1>5, <2>1, RestType, WorkerAInv DEF ActionFails
<1>6. CASE BatchEnds(l)
  <2> DEFINE j == loops[l].job
  <2>1. j \in DOMAIN jobs /\ jobs[j] \in Job /\ jobs[j] \in JobsOf(done)
    BY <1>1, <1>6 DEF BatchEnds
  <2>2. jobs[j].rule \in Rules /\ jobs[j].seen \in Nat /\ jobs[j].seen <= done[jobs[j].rule]
    BY <2>1 DEF JobsOf, Job
  <2>3. jobs' \in Seq(JobsOf(done)) /\ DOMAIN jobs' = DOMAIN jobs
    <3>1. CASE Failed(j)
      BY <2>1, <3>1, FailedType
    <3>2. CASE jobs' = [jobs EXCEPT ![j].status = "completed"]
      <4> DEFINE x == [jobs[j] EXCEPT !.status = "completed"]
      <4>1. x \in Job /\ x.rule = jobs[j].rule /\ x.seen = jobs[j].seen
        BY <2>1 DEF Job
      <4>2. jobs' = [jobs EXCEPT ![j] = x]
        BY <3>2
      <4> HIDE DEF x
      <4> QED
        BY <2>1, <4>1, <4>2, JobUpdated
    <3> QED
      BY <1>6, <3>1, <3>2 DEF BatchEnds
  <2>4. /\ rules' = rules /\ count' \in [Rules -> Nat] /\ done' \in [Rules -> Nat]
        /\ CountNeverAhead'
        /\ Seq(JobsOf(done)) \subseteq Seq(JobsOf(done'))
        /\ Seq(EventsOf(done)) \subseteq Seq(EventsOf(done'))
        /\ \A q \in Rules : Seq(0..done[q]) \subseteq Seq(0..done'[q])
    BY <1>6, <2>2, StatsAInv DEF BatchEnds
  <2>5. /\ loops' \in Seq(Loop) /\ timer' \in Nat /\ DOMAIN loops' = DOMAIN loops
        /\ \A m \in DOMAIN loops' : loops'[m].at = "batch" => loops'[m].job \in DOMAIN jobs'
    <3>1. Rest(l)
      BY <1>6 DEF BatchEnds
    <3> QED
      BY <1>1, <2>3, <3>1, RestType
  <2>6. jobs' \in Seq(Job)
    BY <2>3, CopiesTyped
  <2> QED
    BY <1>1, <1>6, <2>3, <2>4, <2>5, <2>6
    DEF BatchEnds, triggerVars, AInv, TypeOK, CopiesNotAhead
<1> QED
  BY <1>2, <1>3, <1>4, <1>5, <1>6 DEF LoopStep

LEMMA BackoffAInv ==
  ASSUME AInv, NEW j \in DOMAIN jobs, BackoffEnds(j)
  PROVE  AInv'
<1> DEFINE x == [jobs[j] EXCEPT !.due = TRUE]
<1>0. jobs[j] \in Job
  BY DEF AInv, TypeOK
<1>1. x \in Job /\ x.rule = jobs[j].rule /\ x.seen = jobs[j].seen
  BY <1>0 DEF Job
<1>2. jobs' = [jobs EXCEPT ![j] = x]
  BY DEF BackoffEnds
<1> HIDE DEF x
<1>3. jobs' \in Seq(JobsOf(done)) /\ DOMAIN jobs' = DOMAIN jobs
  BY <1>1, <1>2, JobUpdated
<1> QED
  BY <1>3, WorkerAInv DEF BackoffEnds, AInv, TypeOK

LEMMA StartStopAInv ==
  ASSUME AInv, Start \/ Stop \/ Destroy
  PROVE  AInv'
<1>1. /\ loops \in Seq(Loop) /\ jobs \in Seq(Job) /\ jobs \in Seq(JobsOf(done))
      /\ \A m \in DOMAIN loops : loops[m].at = "batch" => loops[m].job \in DOMAIN jobs
      /\ count \in [Rules -> Nat] /\ done \in [Rules -> Nat]
      /\ \A q \in Rules : count[q] <= done[q]
  BY DEF AInv, TypeOK, CountNeverAhead, CopiesNotAhead
<1>2. CASE Start
  <2>1. loops' \in Seq(Loop) /\ loops' = Append(loops, Idle) /\ Len(loops) + 1 \in Nat
    BY <1>1, <1>2, IdleType, AppendType DEF Start
  <2>2. \A m \in DOMAIN loops' : loops'[m].at = "batch" => loops'[m].job \in DOMAIN jobs'
    <3> SUFFICES ASSUME NEW m \in DOMAIN loops', loops'[m].at = "batch"
                 PROVE  loops'[m].job \in DOMAIN jobs'
      OBVIOUS
    <3>1. m \in DOMAIN loops /\ loops'[m] = loops[m]
      BY <1>1, <2>1, IdleType
    <3> QED
      BY <1>1, <1>2, <3>1 DEF Start
  <2>3. events' \in Seq(Event) /\ events' \in Seq(EventsOf(done))
    <3>1. PICK rs \in ByPriority(Active("scheduled")) :
              Await("arm", rs, [i \in DOMAIN rs |-> count[rs[i]]], 0)
      BY <1>2 DEF Start
    <3> DEFINE counts == [i \in DOMAIN rs |-> count[rs[i]]]
    <3>2. Active("scheduled") \in SUBSET Rules
      BY DEF Active
    <3>3. /\ rs \in Seq(Rules) /\ counts \in Seq(Nat) /\ DOMAIN counts = DOMAIN rs
          /\ \A i \in DOMAIN rs : counts[i] <= done[rs[i]]
      BY <3>1, <3>2, ListedCounts
    <3> HIDE DEF counts
    <3> QED
      BY <3>1, <3>3, AwaitAInv DEF counts
  <2> QED
    BY <1>2, <2>1, <2>2, <2>3
    DEF Start, ruleVars, AInv, TypeOK, CountNeverAhead, CopiesNotAhead
<1>3. CASE Stop
  <2>1. /\ cron' \in [Rules -> Seq(Nat)]
        /\ \A q \in Rules : cron'[q] \in Seq(0..done[q])
        /\ scheduled' \in SUBSET {q \in Rules : cron'[q] # <<>>}
    BY <1>3, ShutdownAInv DEF Stop
  <2>2. ASSUME NEW m \in DOMAIN loops
        PROVE  /\ loops'[m] \in Loop
               /\ loops'[m].at = "batch" => loops'[m] = loops[m]
    <3>1. loops[m] \in Loop
      BY <1>1
    <3>2. loops'[m] = IF m = timer /\ loops[m].at = "timer"
                      THEN [loops[m] EXCEPT !.at = "off"] ELSE loops[m]
      BY <1>3 DEF Stop
    <3> QED
      BY <3>1, <3>2 DEF Loop
  <2>3. loops' \in Seq(Loop) /\ DOMAIN loops' = DOMAIN loops
    <3>1. DOMAIN loops' = 1..Len(loops) /\ DOMAIN loops = 1..Len(loops) /\ Len(loops) \in Nat
      BY <1>1, <1>3 DEF Stop
    <3>2. loops' = [m \in 1..Len(loops) |-> loops'[m]]
      BY <1>1, <1>3 DEF Stop
    <3> QED
      BY <2>2, <3>1, <3>2
  <2>4. \A m \in DOMAIN loops' : loops'[m].at = "batch" => loops'[m].job \in DOMAIN jobs'
    BY <1>1, <1>3, <2>2, <2>3 DEF Stop
  <2> QED
    BY <1>3, <2>1, <2>3, <2>4
    DEF Stop, ruleVars, AInv, TypeOK, CountNeverAhead, CopiesNotAhead
<1>4. CASE Destroy
  BY <1>4, ShutdownAInv
  DEF Destroy, queueVars, ruleVars, AInv, TypeOK, CountNeverAhead, CopiesNotAhead
<1> QED
  BY <1>2, <1>3, <1>4

LEMMA StepAInv == AInv /\ [Next]_vars => AInv'
<1> SUFFICES ASSUME AInv, [Next]_vars PROVE AInv'
  OBVIOUS
<1>1. CASE RuleStep
  <2>1. ASSUME NEW r \in Rules, NEW S \in SUBSET Rules, DataEvent(TriggerType[r], S)
        PROVE  AInv'
    BY <2>1, DataEventAInv
  <2>2. ASSUME NEW i \in DOMAIN events,
               ArmTriggers(i) \/ QueueFiring(i)
                   \/ DirectAction(i) \/ DirectFails(i) \/ DirectEnds(i)
        PROVE  AInv'
    BY <2>2, ArmAInv, QueueFiringAInv, DirectAInv
  <2> QED
    BY <1>1, <2>1, <2>2, RegisterAInv, UnregisterAInv, ExecuteAInv, CronFiresAInv DEF RuleStep
<1>2. CASE Start \/ Stop \/ Destroy
  BY <1>2, StartStopAInv
<1>3. CASE \E l \in DOMAIN loops : LoopStep(l)
  BY <1>3, LoopAInv
<1>4. CASE \E j \in DOMAIN jobs : BackoffEnds(j)
  BY <1>4, BackoffAInv
<1>5. CASE UNCHANGED vars
  BY <1>5 DEF vars, AInv, TypeOK, CountNeverAhead, CopiesNotAhead
<1> QED
  BY <1>1, <1>2, <1>3, <1>4, <1>5 DEF Next

(* The program is type correct. *)
THEOREM AutomationTypes == Spec => []TypeOK
<1>1. AInv => TypeOK
  BY DEF AInv
<1> QED
  BY InitAInv, StepAInv, <1>1, PTL DEF Spec

(* However events, jobs and direct calls overlap, executionCount never counts
   an execution that has not succeeded: it is written from a copy of the rule,
   and no copy is ahead. *)
THEOREM CountsOnlySuccesses == Spec => []CountNeverAhead
<1>1. AInv => CountNeverAhead
  BY DEF AInv
<1> QED
  BY InitAInv, StepAInv, <1>1, PTL DEF Spec

-----------------------------------------------------------------------------
(* No job is executed by two loops *)

\* Appending jobs that are not being processed.
LEMMA AppendedOneLoop ==
  ASSUME TypeOK, OneLoopPerJob, NEW new \in Seq(Job),
         \A k \in DOMAIN new : new[k].status = "pending",
         jobs' = jobs \o new, loops' = loops
  PROVE  OneLoopPerJob'
<1>1. jobs \in Seq(Job) /\ \A l \in DOMAIN loops : loops[l].at = "batch" => loops[l].job \in DOMAIN jobs
  BY DEF TypeOK
<1>2. ASSUME NEW j \in DOMAIN jobs'
      PROVE  jobs'[j].status = "processing" <=>
               \E l \in DOMAIN loops : loops[l].at = "batch" /\ loops[l].job = j
  <2>1. CASE j \in DOMAIN jobs
    <3>1. jobs'[j] = jobs[j]
      BY <1>1, <2>1
    <3> QED
      BY <2>1, <3>1 DEF OneLoopPerJob
  <2>2. CASE j \notin DOMAIN jobs
    <3>1. PICK k \in DOMAIN new : jobs'[j] = new[k]
      BY <1>1, <2>2
    <3> QED
      BY <1>1, <2>2, <3>1
  <2> QED
    BY <2>1, <2>2
<1> QED
  BY <1>2 DEF OneLoopPerJob

HasJob(l, j) == loops[l].at = "batch" /\ loops[l].job = j

\* No job's mark changes, and every loop has the job it had.
LEMMA SameLoops ==
  ASSUME OneLoopPerJob, DOMAIN jobs' = DOMAIN jobs,
         \A j \in DOMAIN jobs : jobs'[j].status = "processing" <=> jobs[j].status = "processing",
         DOMAIN loops \subseteq DOMAIN loops',
         \A l \in DOMAIN loops' : loops'[l].at = "batch" =>
            l \in DOMAIN loops /\ loops[l].at = "batch" /\ loops'[l].job = loops[l].job,
         \A l \in DOMAIN loops : loops[l].at = "batch" =>
            loops'[l].at = "batch" /\ loops'[l].job = loops[l].job
  PROVE  OneLoopPerJob'
  BY DEF OneLoopPerJob

\* Loop l lets its job go, and the job's mark with it.
LEMMA Released ==
  ASSUME OneLoopPerJob, NEW l \in DOMAIN loops, loops[l].at = "batch",
         NEW j, loops[l].job = j, DOMAIN jobs' = DOMAIN jobs,
         j \in DOMAIN jobs, jobs'[j].status # "processing",
         \A k \in DOMAIN jobs : k # j => jobs'[k] = jobs[k],
         DOMAIN loops' = DOMAIN loops, loops'[l].at # "batch",
         \A m \in DOMAIN loops : m # l => loops'[m] = loops[m]
  PROVE  OneLoopPerJob'
<1>1. \A m \in DOMAIN loops' : \A k : HasJob(m, k)' <=> HasJob(m, k) /\ m # l
  BY DEF HasJob
<1>2. \A m \in DOMAIN loops : m # l /\ loops[m].at = "batch" => loops[m].job # j
  BY DEF OneLoopPerJob
<1> QED
  BY <1>1, <1>2 DEF OneLoopPerJob, HasJob

\* A failed job is processed no more, and the others are not touched.
LEMMA FailedStatus ==
  ASSUME TypeOK, NEW j \in DOMAIN jobs, Failed(j)
  PROVE  /\ DOMAIN jobs' = DOMAIN jobs /\ jobs'[j].status # "processing"
         /\ \A k \in DOMAIN jobs : k # j => jobs'[k] = jobs[k]
<1>1. jobs[j] \in Job
  BY DEF TypeOK
<1> QED
  BY <1>1 DEF Failed, Job, TypeOK

\* A loop that takes a job marks it, so that no other takes it.
LEMMA LoopOneLoop ==
  ASSUME AInv, OneLoopPerJob, NEW l \in DOMAIN loops, LoopStep(l)
  PROVE  OneLoopPerJob'
<1>1. /\ loops \in Seq(Loop) /\ loops[l] \in Loop /\ jobs \in Seq(Job) /\ TypeOK
      /\ loops[l].at = "batch" => loops[l].job \in DOMAIN jobs
  BY DEF AInv, TypeOK
<1>2. CASE TickIdle(l)
  BY <1>1, <1>2, RestType, SameLoops DEF TickIdle
<1>3. ASSUME NEW j \in DOMAIN jobs, Tick(l, j) PROVE OneLoopPerJob'
  <2>1. jobs[j].status # "processing"
    BY <1>3 DEF Tick, Best, Due
  <2>2. \A m \in DOMAIN loops : ~HasJob(m, j) /\ ~(loops[l].at = "batch")
    BY <1>3, <2>1 DEF OneLoopPerJob, HasJob, Tick
  <2>3. /\ DOMAIN loops' = DOMAIN loops
        /\ loops'[l].at = "batch" /\ loops'[l].job = j
        /\ \A m \in DOMAIN loops : m # l => loops'[m] = loops[m]
    BY <1>1, <1>3 DEF Tick
  <2>4. /\ DOMAIN jobs' = DOMAIN jobs /\ jobs'[j].status = "processing"
        /\ \A k \in DOMAIN jobs : k # j => jobs'[k] = jobs[k]
    <3>1. jobs[j] \in Job
      BY <1>1
    <3> QED
      BY <1>1, <1>3, <3>1 DEF Tick, Job
  <2> QED
    BY <2>2, <2>3, <2>4 DEF OneLoopPerJob, HasJob
<1>4. CASE ActionDone(l)
  <2>1. /\ DOMAIN loops' = DOMAIN loops
        /\ \A m \in DOMAIN loops : loops'[m].at = loops[m].at /\ loops'[m].job = loops[m].job
    BY <1>1, <1>4 DEF ActionDone, Loop
  <2> QED
    BY <1>4, <2>1, SameLoops DEF ActionDone
<1>5. CASE ActionFails(l)
  BY <1>1, <1>5, FailedStatus, RestType, Released DEF ActionFails
<1>6. CASE BatchEnds(l)
  <2> DEFINE j == loops[l].job
  <2>1. j \in DOMAIN jobs /\ loops[l].at = "batch" /\ jobs[j] \in Job
    BY <1>1, <1>6 DEF BatchEnds
  <2>2. /\ DOMAIN jobs' = DOMAIN jobs /\ jobs'[j].status # "processing"
        /\ \A k \in DOMAIN jobs : k # j => jobs'[k] = jobs[k]
    <3>1. CASE Failed(j)
      BY <1>1, <2>1, <3>1, FailedStatus
    <3>2. CASE jobs' = [jobs EXCEPT ![j].status = "completed"]
      BY <1>1, <2>1, <3>2 DEF Job
    <3> QED
      BY <1>6, <3>1, <3>2 DEF BatchEnds
  <2>3. Rest(l)
    BY <1>6 DEF BatchEnds
  <2> QED
    BY <2>1, <2>2, <2>3, RestType, Released
<1> QED
  BY <1>2, <1>3, <1>4, <1>5, <1>6 DEF LoopStep

LEMMA StepOneLoop == AInv /\ OneLoopPerJob /\ [Next]_vars => OneLoopPerJob'
<1> SUFFICES ASSUME AInv, OneLoopPerJob, [Next]_vars PROVE OneLoopPerJob'
  OBVIOUS
<1>1. TypeOK /\ jobs \in Seq(Job) /\ loops \in Seq(Loop)
  BY DEF AInv, TypeOK
<1>2. ASSUME UNCHANGED <<jobs, loops>> PROVE OneLoopPerJob'
  BY <1>2 DEF OneLoopPerJob
<1>3. ASSUME NEW r \in Rules, NEW i \in DOMAIN cron[r], CronFires(r, i)
      PROVE  OneLoopPerJob'
  <2> DEFINE new == <<NewJob(r, cron[r][i])>>
  <2>1. cron[r][i] \in Nat
    BY DEF AInv, TypeOK
  <2>2. new \in Seq(Job) /\ \A k \in DOMAIN new : new[k].status = "pending"
    BY <2>1 DEF NewJob, Job
  <2>3. jobs' = jobs \o new /\ loops' = loops
    BY <1>1, <1>3 DEF CronFires
  <2> QED
    BY <1>1, <2>2, <2>3, AppendedOneLoop
<1>4. ASSUME NEW i \in DOMAIN events, QueueFiring(i) PROVE OneLoopPerJob'
  <2> DEFINE e == events[i]
             new == [k \in DOMAIN e.rules |-> NewJob(e.rules[k], e.seen[k])]
  <2>1. e \in EventsOf(done)
    BY DEF AInv, CopiesNotAhead
  <2>2. e.rules \in Seq(Rules) /\ e.seen \in Seq(Nat) /\ DOMAIN e.seen = DOMAIN e.rules
    BY <2>1 DEF EventsOf, Event
  <2>3. \A k \in DOMAIN e.rules : NewJob(e.rules[k], e.seen[k]) \in Job
                                  /\ NewJob(e.rules[k], e.seen[k]).status = "pending"
    BY <2>2 DEF NewJob, Job
  <2>4. new \in Seq(Job) /\ \A k \in DOMAIN new : new[k].status = "pending"
    BY <2>2, <2>3
  <2> QED
    BY <1>1, <1>4, <2>4, AppendedOneLoop DEF QueueFiring
<1>5. CASE RuleStep
  BY <1>2, <1>3, <1>4, <1>5
  DEF RuleStep, RegisterRule, ArmTriggers, UnregisterFlow, UnregisterTrigger, Execute, DataEvent,
      DirectAction, DirectFails, DirectEnds, queueVars
<1>6. CASE Start
  BY <1>1, <1>6, SameLoops, IdleType DEF Start
<1>7. CASE Stop
  BY <1>1, <1>7, SameLoops DEF Stop, Loop
<1>8. CASE Destroy \/ UNCHANGED vars
  BY <1>2, <1>8 DEF Destroy, queueVars, vars
<1>9. CASE \E l \in DOMAIN loops : LoopStep(l)
  BY <1>9, LoopOneLoop
<1>10. ASSUME NEW j \in DOMAIN jobs, BackoffEnds(j) PROVE OneLoopPerJob'
  <2>1. jobs[j] \in Job
    BY <1>1
  <2>2. /\ DOMAIN jobs' = DOMAIN jobs
        /\ \A k \in DOMAIN jobs : jobs'[k].status = jobs[k].status
    BY <1>1, <1>10, <2>1 DEF BackoffEnds, Job
  <2> QED
    BY <1>10, <2>2, SameLoops DEF BackoffEnds
<1> QED
  BY <1>5, <1>6, <1>7, <1>8, <1>9, <1>10 DEF Next

(* However often the plugin is stopped and started, and whatever its loops
   wait for, a job is executed by one loop at a time. *)
THEOREM JobsHaveOneLoop == Spec => []OneLoopPerJob
<1>1. Init => OneLoopPerJob
  BY DEF Init, OneLoopPerJob
<1> QED
  BY InitAInv, StepAInv, <1>1, StepOneLoop, PTL DEF Spec


-----------------------------------------------------------------------------
(* The life of a job: it is tried until it succeeds or MaxAttempts tries have
   failed, and an ended job is never touched again. *)

Ended == {"completed", "failed"}

\* What one step may make of job x: y. A loop takes a job that is due; its
\* handler succeeds, or throws and leaves it to a backoff or gives it up; a
\* backoff ends.
Moves(x, y) ==
    \/ y = x
    \/ /\ x.status \in {"pending", "delayed"} /\ x.due
       /\ y = [x EXCEPT !.status = "processing", !.attempts = @ + 1]
    \/ x.status = "processing" /\ y = [x EXCEPT !.status = "completed"]
    \/ /\ x.status = "processing" /\ x.attempts < MaxAttempts
       /\ y = [x EXCEPT !.status = "delayed", !.due = FALSE]
    \/ /\ x.status = "processing" /\ x.attempts >= MaxAttempts
       /\ y = [x EXCEPT !.status = "failed", !.due = FALSE]
    \/ x.status = "delayed" /\ ~x.due /\ y = [x EXCEPT !.due = TRUE]

\* Every job moves so, in its place, and those that are added are new.
JobsMoved ==
    /\ \A j \in DOMAIN jobs : j \in DOMAIN jobs' /\ Moves(jobs[j], jobs'[j])
    /\ \A j \in DOMAIN jobs' : j \notin DOMAIN jobs =>
          jobs'[j].status = "pending" /\ jobs'[j].attempts = 0

\* A job is tried at most MaxAttempts times, and it fails for good only when
\* that many tries have failed.
AttemptsTrue(x) ==
    /\ x.attempts <= MaxAttempts
    /\ x.status = "pending" <=> x.attempts = 0
    /\ x.status = "delayed" => x.attempts < MaxAttempts
    /\ x.status = "failed" => x.attempts = MaxAttempts

AttemptsCounted == \A j \in DOMAIN jobs : AttemptsTrue(jobs[j])

\* A job that completed or failed stays as it is, whatever loops are running.
EndedStays ==
    [][\A j \in DOMAIN jobs : jobs[j].status \in Ended =>
          j \in DOMAIN jobs' /\ jobs'[j] = jobs[j]]_vars

\* A worker that is running has a loop that ticks or executes a job.
WorkerGoesOn == processing => \E l \in DOMAIN loops : loops[l].at # "off"

\* Jobs join the Map after those that are there.
LEMMA AppendedMoved ==
  ASSUME TypeOK, NEW new \in Seq(Job),
         \A k \in DOMAIN new : new[k].status = "pending" /\ new[k].attempts = 0,
         jobs' = jobs \o new
  PROVE  JobsMoved
<1>1. jobs \in Seq(Job)
  BY DEF TypeOK
<1>2. \A j \in DOMAIN jobs : j \in DOMAIN jobs' /\ jobs'[j] = jobs[j]
  BY <1>1
<1>3. ASSUME NEW j \in DOMAIN jobs', j \notin DOMAIN jobs
      PROVE  jobs'[j].status = "pending" /\ jobs'[j].attempts = 0
  <2>1. PICK k \in DOMAIN new : jobs'[j] = new[k]
    BY <1>1, <1>3
  <2> QED
    BY <2>1
<1> QED
  BY <1>2, <1>3 DEF JobsMoved, Moves

\* One job moves.
LEMMA OneMoved ==
  ASSUME TypeOK, NEW j \in DOMAIN jobs, NEW y, jobs' = [jobs EXCEPT ![j] = y], Moves(jobs[j], y)
  PROVE  JobsMoved
<1>1. jobs \in Seq(Job)
  BY DEF TypeOK
<1>2. DOMAIN jobs' = DOMAIN jobs /\ jobs'[j] = y /\ \A k \in DOMAIN jobs : k # j => jobs'[k] = jobs[k]
  BY <1>1
<1>3. ASSUME NEW k \in DOMAIN jobs PROVE Moves(jobs[k], jobs'[k])
  <2>1. CASE k = j
    BY <1>2, <2>1
  <2>2. CASE k # j
    BY <1>2, <2>2 DEF Moves
  <2> QED
    BY <2>1, <2>2
<1> QED
  BY <1>2, <1>3 DEF JobsMoved

\* A handler that threw leaves its job to the backoff, or gives it up.
LEMMA FailedMoves ==
  ASSUME TypeOK, NEW j \in DOMAIN jobs, jobs[j].status = "processing", Failed(j)
  PROVE  JobsMoved
<1>1. PICK x, y : /\ x = jobs[j]
                  /\ y = [x EXCEPT !.status = IF x.attempts < MaxAttempts
                                              THEN "delayed" ELSE "failed",
                                   !.due = FALSE]
  OBVIOUS
<1>2. x \in Job /\ jobs \in Seq(Job)
  BY <1>1 DEF TypeOK
<1>3. jobs' = [jobs EXCEPT ![j] = y]
  BY <1>1, <1>2 DEF Failed
<1>4. Moves(x, y)
  <2>1. CASE x.attempts < MaxAttempts
    BY <1>1, <2>1 DEF Moves
  <2>2. CASE ~(x.attempts < MaxAttempts)
    <3>1. x.attempts >= MaxAttempts
      BY <1>2, <2>2, AutomationAssumption DEF Job
    <3> QED
      BY <1>1, <2>2, <3>1 DEF Moves
  <2> QED
    BY <2>1, <2>2
<1> QED
  BY <1>1, <1>3, <1>4, OneMoved

\* A loop moves the job it takes or has, which no other loop touches.
LEMMA LoopMoves ==
  ASSUME AInv, OneLoopPerJob, NEW l \in DOMAIN loops, LoopStep(l)
  PROVE  JobsMoved
<1>1. TypeOK /\ jobs \in Seq(Job) /\ (loops[l].at = "batch" => loops[l].job \in DOMAIN jobs)
  BY DEF AInv, TypeOK
<1>2. ASSUME UNCHANGED jobs PROVE JobsMoved
  BY <1>2 DEF JobsMoved, Moves
<1>3. ASSUME NEW j \in DOMAIN jobs, Tick(l, j) PROVE JobsMoved
  <2>1. PICK x, y : x = jobs[j] /\ y = [x EXCEPT !.status = "processing", !.attempts = @ + 1]
    OBVIOUS
  <2>2. jobs' = [jobs EXCEPT ![j] = y]
    BY <1>1, <1>3, <2>1 DEF Tick
  <2>3. x.status \in {"pending", "delayed"} /\ x.due
    BY <1>3, <2>1 DEF Tick, Best, Due
  <2> QED
    BY <1>1, <2>1, <2>2, <2>3, OneMoved DEF Moves
<1>4. ASSUME loops[l].at = "batch"
      PROVE  loops[l].job \in DOMAIN jobs /\ jobs[loops[l].job].status = "processing"
  BY <1>1, <1>4 DEF OneLoopPerJob
<1>5. CASE ActionFails(l)
  BY <1>1, <1>4, <1>5, FailedMoves DEF ActionFails
<1>6. CASE BatchEnds(l)
  <2>1. PICK j : j = loops[l].job
    OBVIOUS
  <2>2. j \in DOMAIN jobs /\ jobs[j].status = "processing"
    BY <1>4, <1>6, <2>1 DEF BatchEnds
  <2>3. CASE Failed(j)
    BY <1>1, <2>2, <2>3, FailedMoves
  <2>4. CASE jobs' = [jobs EXCEPT ![j].status = "completed"]
    <3>1. PICK x, y : x = jobs[j] /\ y = [x EXCEPT !.status = "completed"]
      OBVIOUS
    <3>2. jobs' = [jobs EXCEPT ![j] = y]
      BY <1>1, <2>4, <3>1
    <3> QED
      BY <1>1, <2>2, <3>1, <3>2, OneMoved DEF Moves
  <2> QED
    BY <1>6, <2>1, <2>3, <2>4 DEF BatchEnds
<1> QED
  BY <1>2, <1>3, <1>5, <1>6 DEF LoopStep, TickIdle, ActionDone

\* So does every step of the plugin.
LEMMA StepMoves == ASSUME AInv, OneLoopPerJob, [Next]_vars PROVE JobsMoved
<1>1. TypeOK /\ jobs \in Seq(Job)
  BY DEF AInv, TypeOK
<1>2. ASSUME UNCHANGED jobs PROVE JobsMoved
  BY <1>2 DEF JobsMoved, Moves
<1>3. ASSUME NEW r \in Rules, NEW i \in DOMAIN cron[r], CronFires(r, i)
      PROVE  JobsMoved
  <2>1. PICK n : n = cron[r][i]
    OBVIOUS
  <2>2. n \in Nat
    BY <2>1 DEF AInv, TypeOK
  <2>3. PICK b : b = NewJob(r, n)
    OBVIOUS
  <2>4. b \in Job /\ b.status = "pending" /\ b.attempts = 0
    BY <2>2, <2>3 DEF NewJob, Job
  <2>5. PICK new : new = <<b>>
    OBVIOUS
  <2>6. new \in Seq(Job) /\ \A k \in DOMAIN new : new[k].status = "pending" /\ new[k].attempts = 0
    BY <2>4, <2>5
  <2>7. jobs' = jobs \o new
    BY <1>1, <1>3, <2>1, <2>3, <2>5 DEF CronFires
  <2> QED
    BY <1>1, <2>6, <2>7, AppendedMoved
<1>4. ASSUME NEW i \in DOMAIN events, QueueFiring(i) PROVE JobsMoved
  <2> DEFINE e == events[i]
             new == [k \in DOMAIN e.rules |-> NewJob(e.rules[k], e.seen[k])]
  <2>1. e \in EventsOf(done)
    BY DEF AInv, CopiesNotAhead
  <2>2. e.rules \in Seq(Rules) /\ e.seen \in Seq(Nat) /\ DOMAIN e.seen = DOMAIN e.rules
    BY <2>1 DEF EventsOf, Event
  <2>3. \A k \in DOMAIN e.rules : /\ NewJob(e.rules[k], e.seen[k]) \in Job
                                  /\ NewJob(e.rules[k], e.seen[k]).status = "pending"
                                  /\ NewJob(e.rules[k], e.seen[k]).attempts = 0
    BY <2>2 DEF NewJob, Job
  <2>4. new \in Seq(Job) /\ \A k \in DOMAIN new : new[k].status = "pending" /\ new[k].attempts = 0
    BY <2>2, <2>3
  <2> QED
    BY <1>1, <1>4, <2>4, AppendedMoved DEF QueueFiring
<1>5. CASE RuleStep
  BY <1>2, <1>3, <1>4, <1>5
  DEF RuleStep, RegisterRule, ArmTriggers, UnregisterFlow, UnregisterTrigger, Execute, DataEvent,
      DirectAction, DirectFails, DirectEnds, queueVars
<1>6. CASE Start \/ Stop \/ Destroy \/ UNCHANGED vars
  BY <1>2, <1>6 DEF Start, Stop, Destroy, queueVars, vars
<1>7. CASE \E l \in DOMAIN loops : LoopStep(l)
  BY <1>7, LoopMoves
<1>8. ASSUME NEW j \in DOMAIN jobs, BackoffEnds(j) PROVE JobsMoved
  <2>1. PICK x, y : x = jobs[j] /\ y = [x EXCEPT !.due = TRUE]
    OBVIOUS
  <2>2. jobs' = [jobs EXCEPT ![j] = y]
    BY <1>1, <1>8, <2>1 DEF BackoffEnds
  <2> QED
    BY <1>1, <1>8, <2>1, <2>2, OneMoved DEF Moves, BackoffEnds
<1> QED
  BY <1>5, <1>6, <1>7, <1>8 DEF Next

\* A move counts the try it makes.
LEMMA MoveCounts ==
  ASSUME NEW x \in Job, NEW y, Moves(x, y), AttemptsTrue(x)
  PROVE  AttemptsTrue(y)
<1>1. x.attempts \in Nat /\ MaxAttempts \in Nat
  BY AutomationAssumption DEF Job
<1>2. /\ x.attempts <= MaxAttempts /\ (x.status = "pending" <=> x.attempts = 0)
      /\ (x.status = "delayed" => x.attempts < MaxAttempts)
  BY DEF AttemptsTrue
<1>3. CASE y = x
  BY <1>3
<1>4. CASE /\ x.status \in {"pending", "delayed"}
           /\ y = [x EXCEPT !.status = "processing", !.attempts = @ + 1]
  <2>1. y.status = "processing" /\ y.attempts = x.attempts + 1
    BY <1>4 DEF Job
  <2>2. x.attempts < MaxAttempts
    BY <1>1, <1>2, <1>4, AutomationAssumption
  <2> QED
    BY <1>1, <2>1, <2>2 DEF AttemptsTrue
<1>5. CASE x.status = "processing" /\ y = [x EXCEPT !.status = "completed"]
  <2>1. y.status = "completed" /\ y.attempts = x.attempts
    BY <1>5 DEF Job
  <2> QED
    BY <1>2, <1>5, <2>1 DEF AttemptsTrue
<1>6. CASE /\ x.status = "processing" /\ x.attempts < MaxAttempts
           /\ y = [x EXCEPT !.status = "delayed", !.due = FALSE]
  <2>1. y.status = "delayed" /\ y.attempts = x.attempts
    BY <1>6 DEF Job
  <2> QED
    BY <1>2, <1>6, <2>1 DEF AttemptsTrue
<1>7. CASE /\ x.status = "processing" /\ x.attempts >= MaxAttempts
           /\ y = [x EXCEPT !.status = "failed", !.due = FALSE]
  <2>1. y.status = "failed" /\ y.attempts = x.attempts
    BY <1>7 DEF Job
  <2>2. x.attempts = MaxAttempts
    BY <1>1, <1>2, <1>7
  <2> QED
    BY <1>2, <1>7, <2>1, <2>2 DEF AttemptsTrue
<1>8. CASE x.status = "delayed" /\ y = [x EXCEPT !.due = TRUE]
  <2>1. y.status = x.status /\ y.attempts = x.attempts
    BY <1>8 DEF Job
  <2> QED
    BY <2>1 DEF AttemptsTrue
<1> QED
  BY <1>3, <1>4, <1>5, <1>6, <1>7, <1>8 DEF Moves

\* An automation job is tried at most maxAttempts times, and is given up only
\* when that many tries have failed, also while the loops of a stopped and of
\* a restarted worker share the queue (queue.ts).
THEOREM JobsAreTriedEnough == Spec => []AttemptsCounted
<1>1. Init => AttemptsCounted
  BY DEF Init, AttemptsCounted
<1>2. AInv /\ OneLoopPerJob /\ AttemptsCounted /\ [Next]_vars => AttemptsCounted'
  <2>1. SUFFICES ASSUME AInv, OneLoopPerJob, AttemptsCounted, [Next]_vars, NEW j \in DOMAIN jobs'
                 PROVE  AttemptsTrue(jobs'[j])
    BY DEF AttemptsCounted, AttemptsTrue
  <2>2. JobsMoved
    BY <2>1, StepMoves
  <2>3. CASE j \in DOMAIN jobs
    <3>1. Moves(jobs[j], jobs'[j]) /\ AttemptsTrue(jobs[j])
      BY <2>1, <2>2, <2>3 DEF JobsMoved, AttemptsCounted
    <3>2. jobs[j] \in Job
      BY <2>1, <2>3 DEF AInv, TypeOK
    <3> QED
      BY <3>1, <3>2, MoveCounts
  <2>4. CASE j \notin DOMAIN jobs
    <3>1. jobs'[j].status = "pending" /\ jobs'[j].attempts = 0
      BY <2>2, <2>4 DEF JobsMoved
    <3> QED
      BY <3>1, AutomationAssumption DEF AttemptsTrue
  <2> QED
    BY <2>3, <2>4
<1>3. Init => OneLoopPerJob
  BY DEF Init, OneLoopPerJob
<1> QED
  BY <1>1, <1>2, <1>3, InitAInv, StepAInv, StepOneLoop, PTL DEF Spec

\* A job that completed or failed is never executed, retried or removed again,
\* whatever loops, backoffs and firings are under way (queue.ts).
THEOREM EndedJobsStay == Spec => EndedStays
<1>1. AInv /\ OneLoopPerJob /\ [Next]_vars =>
        [\A j \in DOMAIN jobs : jobs[j].status \in Ended =>
            j \in DOMAIN jobs' /\ jobs'[j] = jobs[j]]_vars
  <2>1. SUFFICES ASSUME AInv, OneLoopPerJob, [Next]_vars, NEW j \in DOMAIN jobs,
                        jobs[j].status \in Ended
                 PROVE  j \in DOMAIN jobs' /\ jobs'[j] = jobs[j]
    OBVIOUS
  <2>2. j \in DOMAIN jobs' /\ Moves(jobs[j], jobs'[j])
    BY <2>1, StepMoves DEF JobsMoved
  <2>3. jobs'[j] = jobs[j]
    BY <2>1, <2>2 DEF Moves, Ended
  <2> QED
    BY <2>2, <2>3
<1>2. Init => OneLoopPerJob
  BY DEF Init, OneLoopPerJob
<1> QED
  BY <1>1, <1>2, InitAInv, StepAInv, StepOneLoop, PTL DEF Spec, EndedStays

\* No step of a running worker leaves it without a loop: a loop ends its batch
\* or its idle tick with another tick, and the one that was started last is
\* there (queue.ts).
THEOREM RunningWorkerGoesOn == Spec => []WorkerGoesOn
<1>1. Init => WorkerGoesOn
  BY DEF Init, WorkerGoesOn
<1>2. AInv /\ WorkerGoesOn /\ [Next]_vars => WorkerGoesOn'
  <2>1. SUFFICES ASSUME AInv, WorkerGoesOn, [Next]_vars, processing'
                 PROVE  \E l \in DOMAIN loops' : loops'[l].at # "off"
    BY DEF WorkerGoesOn
  <2>2. loops \in Seq(Loop) /\ \A l \in DOMAIN loops : loops[l] \in Loop
    BY <2>1 DEF AInv, TypeOK
  <2>3. ASSUME UNCHANGED <<loops, processing>> PROVE \E l \in DOMAIN loops' : loops'[l].at # "off"
    BY <2>1, <2>3 DEF WorkerGoesOn
  <2>4. CASE Start
    <3>1. loops' = Append(loops, Idle)
      BY <2>4 DEF Start
    <3>2. Len(loops) + 1 \in DOMAIN loops' /\ loops'[Len(loops) + 1] = Idle
      BY <2>2, <3>1
    <3> QED
      BY <3>2 DEF Idle
  <2>5. CASE Stop
    BY <2>1, <2>5 DEF Stop
  <2>6. CASE Destroy \/ UNCHANGED vars
    BY <2>3, <2>6 DEF Destroy, queueVars, vars
  <2>7. CASE RuleStep
    BY <2>3, <2>7
    DEF RuleStep, RegisterRule, ArmTriggers, UnregisterFlow, UnregisterTrigger, Execute, DataEvent,
        CronFires, QueueFiring, DirectAction, DirectFails, DirectEnds, queueVars
  <2>8. ASSUME NEW l \in DOMAIN loops, LoopStep(l) PROVE \E m \in DOMAIN loops' : loops'[m].at # "off"
    <3>1. processing
      BY <2>1, <2>8 DEF LoopStep, TickIdle, Tick, ActionDone, ActionFails, BatchEnds
    <3>2. ASSUME Rest(l) PROVE l \in DOMAIN loops' /\ loops'[l].at # "off"
      BY <2>2, <3>1, <3>2 DEF Rest, Idle
    <3>3. ASSUME NEW j \in DOMAIN jobs, Tick(l, j) PROVE l \in DOMAIN loops' /\ loops'[l].at # "off"
      BY <2>2, <3>3 DEF Tick
    <3>4. ASSUME ActionDone(l) PROVE l \in DOMAIN loops' /\ loops'[l].at # "off"
      BY <2>2, <3>4 DEF ActionDone, Loop
    <3> QED
      BY <2>8, <3>2, <3>3, <3>4 DEF LoopStep, TickIdle, ActionFails, BatchEnds
  <2>9. CASE \E j \in DOMAIN jobs : BackoffEnds(j)
    BY <2>3, <2>9 DEF BackoffEnds
  <2> QED
    BY <2>1, <2>4, <2>5, <2>6, <2>7, <2>8, <2>9 DEF Next
<1> QED
  BY <1>1, <1>2, InitAInv, StepAInv, PTL DEF Spec

=============================================================================
