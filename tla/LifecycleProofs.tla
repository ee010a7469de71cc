-------------------------- MODULE LifecycleProofs --------------------------
(***************************************************************************)
(* Lifecycle: for any pools and any handlers, IInv is inductive; with it,  *)
(* no job is lost whatever the order of the starts and of the ends, and    *)
(* Run returns when the workers have ended.                                *)
(***************************************************************************)
EXTENDS Lifecycle, FiniteSetTheorems, TLAPS

\* A worker belongs to the pool of its stage, and the pools are finite.
LEMMA PoolFacts ==
  ASSUME ConstantsAssumption
  PROVE  /\ \A w \in Workers : StageOf(w) \in Stage /\ w \in Pool(StageOf(w))
         /\ \A s \in Stage : /\ Pool(s) \subseteq Workers /\ IsFiniteSet(Pool(s))
                             /\ \A w \in Pool(s) : StageOf(w) = s
         /\ IsFiniteSet(Workers)
<1>1. IsFiniteSet(StoryWorkers \cup EmailWorkers)
  BY FS_Union DEF ConstantsAssumption
<1> QED BY <1>1 DEF ConstantsAssumption, Workers, Stage, Pool, StageOf

\* One more, one less in a place.
LEMMA Counting ==
  ASSUME NEW f \in [Stage -> Nat], NEW s \in Stage
  PROVE  /\ More(f, s) \in [Stage -> Nat] /\ More(f, s)[s] = f[s] + 1
         /\ f[s] > 0 => Less(f, s) \in [Stage -> Nat]
         /\ Less(f, s)[s] = f[s] - 1
         /\ \A t \in Stage \ {s} : More(f, s)[t] = f[t] /\ Less(f, s)[t] = f[t]
BY DEF More, Less

\* The same, for both stages by name.
LEMMA CountingStages ==
  ASSUME NEW f \in [Stage -> Nat], NEW s \in Stage
  PROVE  /\ \/ s = "story" /\ More(f, s)["story"] = f["story"] + 1 /\ More(f, s)["email"] = f["email"]
            \/ s = "email" /\ More(f, s)["email"] = f["email"] + 1 /\ More(f, s)["story"] = f["story"]
         /\ \/ s = "story" /\ Less(f, s)["story"] = f["story"] - 1 /\ Less(f, s)["email"] = f["email"]
            \/ s = "email" /\ Less(f, s)["email"] = f["email"] - 1 /\ Less(f, s)["story"] = f["story"]
<1>1. CASE s = "story"
  BY <1>1, Counting DEF Stage
<1>2. CASE s = "email"
  BY <1>2, Counting DEF Stage
<1> QED
  BY <1>1, <1>2 DEF Stage

\* What a step of a worker changes.
LEMMA WorkerMoves ==
  ASSUME TypeOK, NEW w \in Workers, WorkerStep(w) \/ ReadFails(w) \/ Panic(w)
  PROVE  /\ Running /\ worker[w] \notin {"absent", "gone"}
         /\ UNCHANGED <<main, group, cancelled, http, scheduler, accepted>>
         /\ worker' = [worker EXCEPT ![w] = worker'[w]]
         /\ worker'[w] \in Place \ {"absent"}
         /\ IF worker'[w] = "gone" THEN wg' = Less(wg, StageOf(w)) ELSE wg' = wg
<1> USE DEF TypeOK, At, Goes, Gone, http, hist, redis, Place
<1>1. CASE Check(w)
  BY <1>1 DEF Check
<1>2. CASE Send(w) \/ ReadFails(w) \/ Receive(w)
  BY <1>2 DEF Send, ReadFails, Receive
<1>3. CASE Execute(w) \/ Panic(w)
  BY <1>3 DEF Execute, Panic
<1>4. CASE ScheduleRetry(w) \/ AckRetried(w) \/ AckDone(w) \/ Forward(w)
  BY <1>4 DEF ScheduleRetry, AckRetried, AckDone, Forward
<1> QED
  BY <1>1, <1>2, <1>3, <1>4 DEF WorkerStep

\* A worker that moves leaves the others where they are.
LEMMA WorkerLocal ==
  ASSUME TypeOK, NEW w \in Workers, worker' = [worker EXCEPT ![w] = worker'[w]]
  PROVE  \A v \in Workers \ {w} : worker'[v] = worker[v]
BY DEF TypeOK

\* The two starts and the two waits of Run, by stage.
StartsPool(s) == IF s = "story" THEN StartPool("story", "startStory", "createEmail")
                                ELSE StartPool("email", "startEmail", "startSchedulers")
WaitsFor(s)   == IF s = "story" THEN Wait("story", "waitStory", "waitEmail")
                                ELSE Wait("email", "waitEmail", "returned")

\* The steps that leave a part alone.
LEMMA Quiet ==
  ASSUME TypeOK, [Next]_vars
  PROVE  /\ \/ UNCHANGED <<wg, worker, late>>
            \/ \E s \in Stage : StartsPool(s)
            \/ \E w \in Workers : WorkerStep(w) \/ ReadFails(w) \/ Panic(w)
         /\ \/ UNCHANGED <<retry, scheduler>>
            \/ StartSchedulers
            \/ \E w \in Workers : ScheduleRetry(w)
            \/ \E s \in Stage : SchedulerStep(s)
         /\ cancelled \subseteq cancelled'
<1> USE DEF pools, http, redis, hist
<1>1. CASE MainStep
  BY <1>1 DEF MainStep, CreateConsumerGroup, StartPool, StartSchedulers, Listen, CloseServer, Shutdown,
     Cancel, Wait, StartsPool, Stage
<1>2. CASE Signal \/ Serve \/ ListenFails
  BY <1>2 DEF Signal, Serve, ListenFails
<1>3. ASSUME NEW h \in Handlers, Request(h) \/ Respond(h)
      PROVE  UNCHANGED <<retry, scheduler, cancelled, wg, worker, late>>
  BY <1>3 DEF Request, Respond
<1>4. ASSUME NEW w \in Workers, WorkerStep(w) \/ ReadFails(w) \/ Panic(w)
      PROVE  /\ UNCHANGED cancelled
             /\ UNCHANGED <<retry, scheduler>> \/ ScheduleRetry(w)
  BY <1>4 DEF WorkerStep, Check, Send, ReadFails, Receive, Execute, Panic, AckRetried, AckDone, Forward,
     ScheduleRetry
<1>5. ASSUME NEW s \in Stage, SchedulerStep(s) PROVE UNCHANGED <<cancelled, wg, worker, late>>
  BY <1>5 DEF SchedulerStep, Reenqueue, Remove
<1>6. CASE UNCHANGED vars
  BY <1>6 DEF vars
<1> QED
  BY <1>1, <1>2, <1>3, <1>4, <1>5, <1>6 DEF Next

-----------------------------------------------------------------------------
\* Where Run is tells which pools it has started and waited for; the WaitGroups
\* count the goroutines.
LEMMA ActiveFinite ==
  ASSUME ConstantsAssumption, NEW s \in Stage
  PROVE  IsFiniteSet(Active(s)) /\ Cardinality(Active(s)) \in Nat
<1>1. Active(s) \subseteq Pool(s) /\ IsFiniteSet(Pool(s))
  BY PoolFacts DEF Active
<1> QED BY <1>1, FS_Subset, FS_CardinalityType

\* A worker's step on the set of the running goroutines of a pool.
LEMMA ActiveMoves ==
  ASSUME TypeOK, ConstantsAssumption, NEW w \in Workers, WorkerStep(w) \/ ReadFails(w) \/ Panic(w),
         NEW s \in Stage, wg[s] = Cardinality(Active(s))
  PROVE  /\ wg'[s] = Cardinality(Active(s))' /\ wg'[s] \in Nat
         /\ Active(s)' \subseteq Active(s)
<1>0. /\ worker[w] \notin {"absent", "gone"} /\ worker' = [worker EXCEPT ![w] = worker'[w]]
      /\ worker'[w] \in Place \ {"absent"}
      /\ IF worker'[w] = "gone" THEN wg' = Less(wg, StageOf(w)) ELSE wg' = wg
      /\ \A v \in Workers \ {w} : worker'[v] = worker[v]
  BY WorkerMoves, WorkerLocal
<1>1. /\ Pool(s) \subseteq Workers /\ StageOf(w) \in Stage /\ w \in Pool(StageOf(w))
      /\ (w \in Pool(s) => StageOf(w) = s)
      /\ IsFiniteSet(Active(s)) /\ Cardinality(Active(s)) \in Nat
  BY PoolFacts, ActiveFinite
<1>2. wg \in [Stage -> Nat]
  BY DEF TypeOK
<1>3. CASE worker'[w] # "gone"
  <2>1. Active(s)' = Active(s)
    BY <1>0, <1>1, <1>3 DEF Active
  <2> QED BY <1>0, <1>1, <1>3, <2>1
<1>4. CASE worker'[w] = "gone" /\ w \in Pool(s)
  <2>1. w \in Active(s) /\ Active(s)' = Active(s) \ {w}
    BY <1>0, <1>1, <1>4 DEF Active
  <2>2. Cardinality(Active(s) \ {w}) = Cardinality(Active(s)) - 1 /\ Cardinality(Active(s) \ {w}) \in Nat
    BY <1>1, <2>1, FS_RemoveElement, FS_CardinalityType
  <2>3. wg'[s] = wg[s] - 1
    BY <1>0, <1>1, <1>2, <1>4, Counting
  <2> QED BY <2>1, <2>2, <2>3
<1>5. CASE worker'[w] = "gone" /\ w \notin Pool(s)
  <2>1. Active(s)' = Active(s)
    BY <1>0, <1>1, <1>5 DEF Active
  <2>2. wg'[s] = wg[s]
    BY <1>0, <1>1, <1>2, <1>5, Counting
  <2> QED BY <1>1, <2>1, <2>2
<1> QED
  BY <1>3, <1>4, <1>5

\* The order of the calls of Run.
LEMMA MainMoves ==
  ASSUME TypeOK, [Next]_vars, NEW s \in Stage, main' # main
  PROVE  /\ Running
         /\ main' \in Before(s) => main \in Before(s)
         /\ main' \notin Before(s) \cup {"crashed"} => main \notin Before(s) \/ StartsPool(s)
         /\ main' \in After(s) => main \in After(s) \/ wg[s] = 0
         /\ main' \in Before("email") \cup {"startSchedulers"} =>
              main \in Before("email") \cup {"startSchedulers"}
<1> USE DEF Before, After, Running, Stage, MainGoes, Crash
<1>1. CASE MainStep
  <2>1. CASE StartsPool("story") \/ StartsPool("email")
    BY <2>1 DEF StartsPool, StartPool
  <2>2. CASE WaitsFor("story") \/ WaitsFor("email")
    BY <2>2 DEF WaitsFor, Wait
  <2>3. CASE \/ CreateConsumerGroup("story", "createStory", "startStory")
             \/ CreateConsumerGroup("email", "createEmail", "startEmail")
             \/ StartSchedulers \/ Listen \/ CloseServer \/ Shutdown
    BY <2>3 DEF CreateConsumerGroup, StartSchedulers, Listen, CloseServer, Shutdown
  <2>4. CASE \/ Cancel("story", "cancelStory", "cancelEmail")
             \/ Cancel("email", "cancelEmail", "waitStory")
    BY <2>4 DEF Cancel
  <2> QED BY <1>1, <2>1, <2>2, <2>3, <2>4 DEF MainStep, StartsPool, WaitsFor
<1>2. CASE Signal \/ ListenFails
  BY <1>2 DEF Signal, ListenFails, TypeOK
<1>3. main' = main \/ MainStep \/ Signal \/ ListenFails
  <2>1. ASSUME NEW w \in Workers, WorkerStep(w) \/ ReadFails(w) \/ Panic(w) PROVE main' = main
    BY <2>1, WorkerMoves
  <2>2. ASSUME NEW h \in Handlers, Request(h) \/ Respond(h) PROVE main' = main
    BY <2>2 DEF Request, Respond
  <2>3. ASSUME NEW t \in Stage, SchedulerStep(t) PROVE main' = main
    BY <2>3 DEF SchedulerStep, Reenqueue, Remove
  <2> QED BY <2>1, <2>2, <2>3 DEF Next, vars, Serve
<1> QED
  BY <1>1, <1>2, <1>3

LEMMA PoolsStep ==
  ASSUME TypeOK, PoolsOK, ConstantsAssumption, [Next]_vars
  PROVE  PoolsOK'
<1> SUFFICES ASSUME NEW s \in Stage
             PROVE  /\ wg'[s] = Cardinality(Active(s))'
                    /\ main' \in Before(s) => \A w \in Pool(s) : worker'[w] = "absent"
                    /\ main' \notin Before(s) \cup {"crashed"} => \A w \in Pool(s) : worker'[w] # "absent"
                    /\ main' \in After(s) => Active(s)' = {}
  BY DEF PoolsOK
<1>0. /\ wg[s] = Cardinality(Active(s))
      /\ main \in Before(s) => \A w \in Pool(s) : worker[w] = "absent"
      /\ main \notin Before(s) \cup {"crashed"} => \A w \in Pool(s) : worker[w] # "absent"
      /\ main \in After(s) => Active(s) = {}
  BY DEF PoolsOK
<1>1. Pool(s) \subseteq Workers /\ IsFiniteSet(Active(s))
  BY PoolFacts, ActiveFinite
<1>2. ASSUME ~StartsPool(s), wg'[s] = wg[s], \A w \in Pool(s) : worker'[w] = worker[w]
      PROVE  /\ wg'[s] = Cardinality(Active(s))'
             /\ main' \in Before(s) => \A w \in Pool(s) : worker'[w] = "absent"
             /\ main' \notin Before(s) \cup {"crashed"} => \A w \in Pool(s) : worker'[w] # "absent"
             /\ main' \in After(s) => Active(s)' = {}
  <2>1. Active(s)' = Active(s)
    BY <1>2 DEF Active
  <2>2. main' \in Before(s) => main \in Before(s)
    BY MainMoves
  <2>3. main' \notin Before(s) \cup {"crashed"} => main \notin Before(s) \cup {"crashed"}
    BY <1>2, MainMoves DEF Running
  <2>4. main' \in After(s) => Active(s) = {}
    BY <1>0, <1>1, MainMoves, FS_EmptySet
  <2> QED BY <1>0, <1>2, <2>1, <2>2, <2>3, <2>4
<1>3. CASE StartsPool(s)
  <2>1. /\ worker' = [w \in Workers |-> IF w \in Pool(s) THEN "check" ELSE worker[w]]
        /\ wg' = [wg EXCEPT ![s] = Cardinality(Pool(s))] /\ wg \in [Stage -> Nat]
        /\ main' \notin Before(s) \cup After(s)
    BY <1>3 DEF StartsPool, StartPool, MainGoes, Stage, Before, After, TypeOK
  <2>2. \A w \in Pool(s) : worker'[w] = "check"
    BY <1>1, <2>1
  <2>3. Active(s)' = Pool(s)
    BY <2>2 DEF Active
  <2> QED BY <2>1, <2>2, <2>3
<1>4. ASSUME NEW t \in Stage, t # s, StartsPool(t)
      PROVE  ~StartsPool(s) /\ wg'[s] = wg[s] /\ \A w \in Pool(s) : worker'[w] = worker[w]
  <2>1. /\ worker' = [w \in Workers |-> IF w \in Pool(t) THEN "check" ELSE worker[w]]
        /\ wg' = [wg EXCEPT ![t] = Cardinality(Pool(t))] /\ wg \in [Stage -> Nat]
        /\ ~StartsPool(s)
    BY <1>4 DEF StartsPool, StartPool, MainGoes, Stage, TypeOK
  <2>2. Pool(s) \cap Pool(t) = {}
    BY <1>4, PoolFacts
  <2>3. \A w \in Pool(s) : worker'[w] = worker[w]
    BY <1>1, <2>1, <2>2
  <2>4. wg'[s] = wg[s]
    BY <1>4, <2>1
  <2> QED BY <2>1, <2>3, <2>4
<1>5. ASSUME NEW v \in Workers, WorkerStep(v) \/ ReadFails(v) \/ Panic(v)
      PROVE  /\ wg'[s] = Cardinality(Active(s))'
             /\ main' \in Before(s) => \A w \in Pool(s) : worker'[w] = "absent"
             /\ main' \notin Before(s) \cup {"crashed"} => \A w \in Pool(s) : worker'[w] # "absent"
             /\ main' \in After(s) => Active(s)' = {}
  <2>1. wg'[s] = Cardinality(Active(s))' /\ Active(s)' \subseteq Active(s)
    BY <1>0, <1>5, ActiveMoves
  <2>2. /\ main' = main /\ worker[v] \notin {"absent", "gone"} /\ worker'[v] # "absent"
        /\ \A w \in Workers \ {v} : worker'[w] = worker[w]
    BY <1>5, WorkerMoves, WorkerLocal
  <2>3. \A w \in Pool(s) : (worker[w] # "absent" => worker'[w] # "absent")
    BY <1>1, <2>2
  <2>4. (\A w \in Pool(s) : worker[w] = "absent") => \A w \in Pool(s) : worker'[w] = "absent"
    BY <1>1, <2>2
  <2> QED BY <1>0, <2>1, <2>2, <2>3, <2>4
<1>6. CASE UNCHANGED <<wg, worker>>
  BY <1>2, <1>3, <1>6
<1> QED
  BY <1>2, <1>3, <1>4, <1>5, <1>6, Quiet

-----------------------------------------------------------------------------
\* Shutdown closes the server and waits for the requests.
LEMMA ServerStep ==
  ASSUME TypeOK, ServerOK, [Next]_vars
  PROVE  ServerOK'
<1> USE DEF ServerOK, TypeOK, http
<1>1. CASE MainStep
  BY <1>1 DEF MainStep, CreateConsumerGroup, StartPool, StartSchedulers, Listen, CloseServer, Shutdown,
     Cancel, Wait, MainGoes, Crash
<1>2. CASE Signal \/ Serve \/ ListenFails
  BY <1>2 DEF Signal, Serve, ListenFails, MainGoes, Crash
<1>3. ASSUME NEW h \in Handlers, Request(h) \/ Respond(h) PROVE ServerOK'
  BY <1>3 DEF Request, Respond
<1>4. ASSUME NEW w \in Workers, WorkerStep(w) \/ ReadFails(w) \/ Panic(w) PROVE UNCHANGED <<main, http>>
  BY <1>4, WorkerMoves
<1>5. ASSUME NEW s \in Stage, SchedulerStep(s) PROVE UNCHANGED <<main, http>>
  BY <1>5 DEF SchedulerStep, Reenqueue, Remove
<1> QED
  BY <1>1, <1>2, <1>3, <1>4, <1>5 DEF Next, vars

\* A worker sees the cancelled context before it reads again.
LEMMA LateStep ==
  ASSUME TypeOK, LateOK, PoolsOK, ConstantsAssumption, [Next]_vars
  PROVE  LateOK'
<1> SUFFICES ASSUME NEW w \in Workers, late'[w] # 0
             PROVE  late'[w] = 1 /\ StageOf(w) \in cancelled' /\ worker'[w] \notin {"send", "read"}
  BY DEF LateOK
<1>1. cancelled \subseteq cancelled'
  BY Quiet
<1>2. CASE late'[w] = late[w] /\ worker'[w] = worker[w]
  BY <1>1, <1>2 DEF LateOK
<1>3. ASSUME NEW s \in Stage, StartsPool(s)
      PROVE  late'[w] = late[w] /\ (worker'[w] = worker[w] \/ worker'[w] = "check")
  BY <1>3 DEF StartsPool, StartPool
<1>4. ASSUME NEW v \in Workers, v # w, WorkerStep(v) \/ ReadFails(v) \/ Panic(v)
      PROVE  late'[w] = late[w] /\ worker'[w] = worker[w]
  <2>1. worker'[w] = worker[w]
    BY <1>4, WorkerMoves, WorkerLocal
  <2>2. late' = late \/ Receive(v)
    BY <1>4 DEF WorkerStep, Check, Send, ReadFails, Execute, Panic, ScheduleRetry, AckRetried, AckDone, Forward
  <2> QED BY <1>4, <2>1, <2>2 DEF Receive, TypeOK
<1>5. CASE Receive(w)
  <2>1. worker[w] = "read" /\ worker'[w] = "execute" /\ cancelled' = cancelled
    BY <1>5 DEF Receive, At, Goes, TypeOK
  <2>2. late[w] = 0
    BY <2>1 DEF LateOK
  <2>3. late'[w] = (IF StageOf(w) \in cancelled THEN 1 ELSE 0)
    BY <1>5, <2>2 DEF Receive, TypeOK
  <2> QED BY <2>1, <2>3
<1>6. ASSUME WorkerStep(w) \/ ReadFails(w) \/ Panic(w), ~Receive(w)
      PROVE  /\ late' = late /\ cancelled' = cancelled
             /\ worker'[w] \in {"send", "read"} =>
                  worker[w] = "send" \/ StageOf(w) \notin cancelled
  <2> USE DEF At, Goes, Gone, TypeOK
  <2>1. CASE Check(w)
    BY <2>1 DEF Check, IsCancelled
  <2>2. CASE Send(w) \/ ReadFails(w) \/ Execute(w) \/ Panic(w)
    BY <2>2 DEF Send, ReadFails, Execute, Panic
  <2>3. CASE ScheduleRetry(w) \/ AckRetried(w) \/ AckDone(w) \/ Forward(w)
    BY <2>3 DEF ScheduleRetry, AckRetried, AckDone, Forward
  <2> QED BY <1>6, <2>1, <2>2, <2>3 DEF WorkerStep
<1>7. CASE (WorkerStep(w) \/ ReadFails(w) \/ Panic(w)) /\ ~Receive(w)
  BY <1>6, <1>7 DEF LateOK
<1> QED
  BY <1>1, <1>2, <1>3, <1>4, <1>5, <1>7, Quiet DEF LateOK

\* A scheduler removes a member it has found.
LEMMA RemovingStep ==
  ASSUME TypeOK, RemovingOK, ConstantsAssumption, [Next]_vars
  PROVE  RemovingOK'
<1> DEFINE early == Before("email") \cup {"startSchedulers"}
<1> SUFFICES ASSUME NEW s \in Stage
             PROVE  /\ scheduler'[s] = "removing" => retry'[s] > 0
                    /\ main' \in early => scheduler'[s] = "off"
  BY DEF RemovingOK
<1>0. /\ scheduler[s] = "removing" => retry[s] > 0
      /\ main \in early => scheduler[s] = "off"
      /\ retry \in [Stage -> Nat] /\ retry[s] \in Nat
  BY DEF RemovingOK, TypeOK
<1>1. main' \in early => main \in early
  BY MainMoves
<1>2. CASE scheduler'[s] = scheduler[s] /\ retry'[s] \in Nat /\ retry'[s] >= retry[s]
  <2>1. CASE scheduler[s] = "removing"
    <3>1. retry'[s] > 0
      BY <1>0, <1>2, <2>1
    <3> QED BY <1>0, <1>1, <1>2, <3>1
  <2> QED BY <1>0, <1>1, <1>2, <2>1
<1>3. CASE StartSchedulers
  BY <1>3 DEF StartSchedulers, MainGoes, Before, Stage
<1>4. ASSUME NEW w \in Workers, ScheduleRetry(w) PROVE scheduler' = scheduler /\ retry'[s] \in Nat /\ retry'[s] >= retry[s]
  <2>1. StageOf(w) \in Stage /\ retry' = More(retry, StageOf(w)) /\ scheduler' = scheduler
    BY <1>4, PoolFacts DEF ScheduleRetry
  <2> QED BY <1>0, <2>1, Counting
<1>5. ASSUME NEW t \in Stage, SchedulerStep(t)
      PROVE  /\ scheduler'[s] = "removing" => retry'[s] > 0
             /\ main' \in early => scheduler'[s] = "off"
  <2>0. main' = main /\ scheduler \in [Stage -> {"off", "wait", "removing"}] /\ main \notin early
    BY <1>5 DEF SchedulerStep, Reenqueue, Remove, RemovingOK, TypeOK
  <2>1. CASE Reenqueue(t)
    <3>1. retry' = retry /\ retry[t] > 0 /\ \A u \in Stage \ {t} : scheduler'[u] = scheduler[u]
      BY <2>0, <2>1 DEF Reenqueue
    <3> QED BY <1>0, <2>0, <3>1
  <2>2. CASE Remove(t)
    <3>1. retry' = Less(retry, t) /\ scheduler'[t] = "wait"
          /\ \A u \in Stage \ {t} : scheduler'[u] = scheduler[u]
      BY <2>0, <2>2 DEF Remove
    <3>2. s # t => retry'[s] = retry[s]
      BY <1>0, <3>1, Counting
    <3> QED BY <1>0, <2>0, <3>1, <3>2
  <2> QED BY <1>5, <2>1, <2>2 DEF SchedulerStep
<1>6. CASE UNCHANGED <<retry, scheduler>>
  BY <1>0, <1>2, <1>6
<1> QED
  BY <1>2, <1>3, <1>4, <1>5, <1>6, Quiet

-----------------------------------------------------------------------------
\* Every step keeps the variables in their domains.
LEMMA TypeStep ==
  ASSUME TypeOK, PoolsOK, RemovingOK, ConstantsAssumption, [Next]_vars
  PROVE  TypeOK'
<1> USE DEF pools, http, redis, hist
<1>0. /\ \A s \in Stage : Cardinality(Pool(s)) \in Nat
      /\ "story" \in Stage /\ "email" \in Stage
      /\ unread \in [Stage -> Nat] /\ retry \in [Stage -> Nat] /\ wg \in [Stage -> Nat]
      /\ accepted \in Nat /\ done \in Nat /\ abandoned \in Nat /\ late \in [Workers -> Nat]
  BY PoolFacts, FS_CardinalityType DEF Stage, TypeOK
<1>1. ASSUME NEW s \in Stage, StartsPool(s) PROVE TypeOK'
  BY <1>0, <1>1 DEF StartsPool, StartPool, MainGoes, Main, Place, TypeOK
<1>2. CASE \/ WaitsFor("story") \/ WaitsFor("email")
           \/ CreateConsumerGroup("story", "createStory", "startStory")
           \/ CreateConsumerGroup("email", "createEmail", "startEmail")
           \/ Cancel("story", "cancelStory", "cancelEmail")
           \/ Cancel("email", "cancelEmail", "waitStory")
  BY <1>0, <1>2 DEF WaitsFor, Wait, CreateConsumerGroup, Cancel, MainGoes, Crash, Main, TypeOK
<1>3. CASE StartSchedulers \/ Listen \/ CloseServer \/ Shutdown \/ Signal \/ Serve \/ ListenFails
  BY <1>3 DEF StartSchedulers, Listen, CloseServer, Shutdown, Signal, Serve, ListenFails, MainGoes, Crash,
     Main, TypeOK
<1>4. CASE MainStep
  BY <1>0, <1>1, <1>2, <1>3, <1>4 DEF MainStep, StartsPool, WaitsFor
<1>5. ASSUME NEW h \in Handlers, Request(h) \/ Respond(h) PROVE TypeOK'
  <2>1. CASE Request(h)
    BY <2>1 DEF Request, TypeOK
  <2>2. CASE Respond(h)
    <3>1. unread' \in [Stage -> Nat] /\ accepted' \in Nat
      BY <1>0, <2>2, Counting DEF Respond
    <3> QED BY <2>2, <3>1 DEF Respond, TypeOK
  <2> QED BY <1>5, <2>1, <2>2
<1>6. ASSUME NEW w \in Workers, WorkerStep(w) \/ ReadFails(w) \/ Panic(w) PROVE TypeOK'
  <2>1. /\ UNCHANGED <<main, group, cancelled, http, scheduler, accepted>>
        /\ worker' = [worker EXCEPT ![w] = worker'[w]] /\ worker'[w] \in Place
        /\ wg' = Less(wg, StageOf(w)) \/ wg' = wg
    BY <1>6, WorkerMoves
  <2>2. worker' \in [Workers -> Place]
    BY <2>1 DEF TypeOK
  <2>3. wg' \in [Stage -> Nat]
    <3>1. \A s \in Stage : wg'[s] \in Nat
      BY <1>6, ActiveMoves DEF PoolsOK
    <3>2. wg' = [s \in Stage |-> wg'[s]]
      BY <1>0, <2>1 DEF Less
    <3> QED BY <3>1, <3>2
  <2>4. StageOf(w) \in Stage
    BY PoolFacts
  <2>5. /\ unread' \in [Stage -> Nat] /\ retry' \in [Stage -> Nat] /\ late' \in [Workers -> Nat]
        /\ done' \in Nat /\ abandoned' \in Nat
    <3>1. CASE Receive(w)
      BY <1>0, <2>4, <3>1, Counting DEF Receive
    <3>2. CASE ScheduleRetry(w)
      BY <1>0, <2>4, <3>2, Counting DEF ScheduleRetry
    <3>3. CASE Forward(w)
      BY <1>0, <3>3, Counting DEF Forward
    <3>4. CASE AckDone(w) \/ Panic(w)
      BY <1>0, <3>4 DEF AckDone, Panic
    <3>5. CASE Check(w) \/ Send(w) \/ ReadFails(w) \/ Execute(w) \/ AckRetried(w)
      BY <1>0, <3>5 DEF Check, Send, ReadFails, Execute, AckRetried
    <3> QED BY <1>6, <3>1, <3>2, <3>3, <3>4, <3>5 DEF WorkerStep
  <2> QED BY <2>1, <2>2, <2>3, <2>5 DEF TypeOK
<1>7. ASSUME NEW s \in Stage, SchedulerStep(s) PROVE TypeOK'
  <2>1. CASE Reenqueue(s)
    BY <1>0, <2>1, Counting DEF Reenqueue, TypeOK
  <2>2. CASE Remove(s)
    <3>1. retry' \in [Stage -> Nat]
      BY <1>0, <2>2, Counting DEF Remove, RemovingOK
    <3> QED BY <2>2, <3>1 DEF Remove, TypeOK
  <2> QED BY <1>7, <2>1, <2>2 DEF SchedulerStep
<1>8. CASE UNCHANGED vars
  BY <1>8 DEF vars, TypeOK
<1> QED
  BY <1>3, <1>4, <1>5, <1>6, <1>7, <1>8 DEF Next

-----------------------------------------------------------------------------
\* The jobs in the hands of the workers.
LEMMA HeldFinite ==
  ASSUME ConstantsAssumption
  PROVE  IsFiniteSet(Held) /\ Cardinality(Held) \in Nat
<1>1. Held \subseteq Workers /\ IsFiniteSet(Workers)
  BY PoolFacts DEF Held
<1> QED BY <1>1, FS_Subset, FS_CardinalityType

LEMMA HeldMoves ==
  ASSUME TypeOK, ConstantsAssumption, NEW w \in Workers, worker' = [worker EXCEPT ![w] = worker'[w]]
  PROVE  /\ Cardinality(Held)' \in Nat
         /\ (w \in Held <=> w \in Held') => Held' = Held
         /\ w \notin Held /\ w \in Held' => Cardinality(Held') = Cardinality(Held) + 1
         /\ w \in Held /\ w \notin Held' => Cardinality(Held') = Cardinality(Held) - 1
<1>0. /\ \A v \in Workers \ {w} : v \in Held <=> v \in Held'
      /\ Held \subseteq Workers /\ Held' \subseteq Workers
  BY WorkerLocal DEF Held
<1>1. IsFiniteSet(Held) /\ IsFiniteSet(Held') /\ Cardinality(Held') \in Nat
  BY <1>0, PoolFacts, FS_Subset, FS_CardinalityType
<1>2. (w \in Held <=> w \in Held') => Held' = Held
  BY <1>0
<1>3. ASSUME w \notin Held, w \in Held' PROVE Cardinality(Held') = Cardinality(Held) + 1
  <2>1. Held' = Held \cup {w}
    BY <1>0, <1>3
  <2> QED BY <1>1, <1>3, <2>1, FS_AddElement
<1>4. ASSUME w \in Held, w \notin Held' PROVE Cardinality(Held') = Cardinality(Held) - 1
  <2>1. Held' = Held \ {w}
    BY <1>0, <1>4
  <2> QED BY <1>1, <1>4, <2>1, FS_RemoveElement
<1> QED
  BY <1>1, <1>2, <1>3, <1>4

\* The numbers the account is made of.
LEMMA Numbers ==
  ASSUME TypeOK, ConstantsAssumption
  PROVE  /\ unread["story"] \in Nat /\ unread["email"] \in Nat
         /\ retry["story"] \in Nat /\ retry["email"] \in Nat
         /\ accepted \in Nat /\ done \in Nat /\ abandoned \in Nat
         /\ Cardinality(Held) \in Nat /\ InRedis("story") \in Int /\ InRedis("email") \in Int
BY HeldFinite DEF TypeOK, Stage, InRedis

\* The account, when neither Redis nor a worker changes.
LEMMA AccountKept ==
  ASSUME JobsAccounted, Held' = Held, UNCHANGED <<unread, retry, accepted, done, abandoned>>,
         \A s \in Stage : scheduler'[s] = "removing" <=> scheduler[s] = "removing"
  PROVE  JobsAccounted'
BY DEF JobsAccounted, InRedis, Stage

\* What a worker does with its job: it takes one from its stream, puts one into its
\* retry set or the email stream, has it notified, or panics with it.
LEMMA WorkerAccount ==
  ASSUME TypeOK, ConstantsAssumption, JobsAccounted, NEW w \in Workers,
         WorkerStep(w) \/ ReadFails(w) \/ Panic(w)
  PROVE  JobsAccounted'
<1> USE DEF At, hist, redis
<1>0. /\ UNCHANGED <<scheduler, accepted>> /\ worker' = [worker EXCEPT ![w] = worker'[w]]
      /\ worker \in [Workers -> Place] /\ unread \in [Stage -> Nat] /\ retry \in [Stage -> Nat]
      /\ StageOf(w) \in Stage /\ Stage = {"story", "email"}
  BY WorkerMoves, PoolFacts DEF TypeOK, Stage
<1>1. /\ Cardinality(Held)' \in Nat
      /\ (w \in Held <=> w \in Held') => Held' = Held
      /\ w \notin Held /\ w \in Held' => Cardinality(Held') = Cardinality(Held) + 1
      /\ w \in Held /\ w \notin Held' => Cardinality(Held') = Cardinality(Held) - 1
  BY <1>0, HeldMoves
<1>2. CASE Check(w) \/ Send(w) \/ ReadFails(w) \/ Execute(w) \/ AckRetried(w)
  <2>1. UNCHANGED <<unread, retry, done, abandoned>>
    BY <1>2 DEF Check, Send, ReadFails, Execute, AckRetried
  <2>2. w \in Held <=> w \in Held'
    BY <1>0, <1>2 DEF Check, Send, ReadFails, Execute, AckRetried, Goes, Gone, Held
  <2> QED BY <1>0, <1>1, <2>1, <2>2, AccountKept
<1>3. CASE Receive(w)
  <2>1. /\ unread' = Less(unread, StageOf(w)) /\ UNCHANGED <<retry, done, abandoned>>
        /\ w \notin Held /\ w \in Held'
    BY <1>0, <1>3 DEF Receive, Goes, Held
  <2>2. Cardinality(Held') = Cardinality(Held) + 1
    BY <1>1, <2>1
  <2>3. \/ unread'["story"] = unread["story"] - 1 /\ unread'["email"] = unread["email"]
        \/ unread'["email"] = unread["email"] - 1 /\ unread'["story"] = unread["story"]
    BY <1>0, <2>1, CountingStages
  <2> QED BY <1>0, <2>1, <2>2, <2>3, Numbers DEF JobsAccounted, InRedis
<1>4. CASE ScheduleRetry(w)
  <2>1. /\ retry' = More(retry, StageOf(w)) /\ UNCHANGED <<unread, done, abandoned>>
        /\ w \in Held /\ w \notin Held'
    BY <1>0, <1>4 DEF ScheduleRetry, Goes, Held
  <2>2. Cardinality(Held') = Cardinality(Held) - 1
    BY <1>1, <2>1
  <2>3. \/ retry'["story"] = retry["story"] + 1 /\ retry'["email"] = retry["email"]
        \/ retry'["email"] = retry["email"] + 1 /\ retry'["story"] = retry["story"]
    BY <1>0, <2>1, CountingStages
  <2> QED BY <1>0, <2>1, <2>2, <2>3, Numbers DEF JobsAccounted, InRedis
<1>5. CASE Forward(w)
  <2>1. /\ unread' = More(unread, "email") /\ UNCHANGED <<retry, done, abandoned>>
        /\ w \in Held /\ w \notin Held'
    BY <1>0, <1>5 DEF Forward, Goes, Held
  <2>2. Cardinality(Held') = Cardinality(Held) - 1
    BY <1>1, <2>1
  <2>3. unread'["email"] = unread["email"] + 1 /\ unread'["story"] = unread["story"]
    BY <1>0, <2>1, Counting
  <2> QED BY <1>0, <2>1, <2>2, <2>3, Numbers DEF JobsAccounted, InRedis
<1>6. CASE AckDone(w) /\ w \in StoryWorkers
  <2>1. UNCHANGED <<unread, retry, done, abandoned>> /\ w \in Held /\ w \in Held'
    BY <1>0, <1>6 DEF AckDone, Goes, Held
  <2> QED BY <1>0, <1>1, <2>1, AccountKept
<1>7. CASE AckDone(w) /\ w \notin StoryWorkers
  <2>1. /\ UNCHANGED <<unread, retry, abandoned>> /\ done' = done + 1
        /\ w \in Held /\ w \notin Held'
    BY <1>0, <1>7 DEF AckDone, Goes, Held
  <2>2. Cardinality(Held') = Cardinality(Held) - 1
    BY <1>1, <2>1
  <2> QED BY <1>0, <2>1, <2>2, Numbers DEF JobsAccounted, InRedis
<1>8. CASE Panic(w)
  <2>1. /\ UNCHANGED <<unread, retry, done>> /\ abandoned' = abandoned + 1
        /\ w \in Held /\ w \notin Held'
    BY <1>0, <1>8 DEF Panic, Gone, Held
  <2>2. Cardinality(Held') = Cardinality(Held) - 1
    BY <1>1, <2>1
  <2>3. InRedis("story")' = InRedis("story") /\ InRedis("email")' = InRedis("email")
    BY <1>0, <2>1 DEF InRedis
  <2>4. Cardinality(Held)' = Cardinality(Held) - 1
    BY <2>2
  <2> QED BY <1>0, <2>1, <2>3, <2>4, Numbers DEF JobsAccounted
<1> QED
  BY <1>2, <1>3, <1>4, <1>5, <1>6, <1>7, <1>8 DEF WorkerStep

\* No step loses a job.
LEMMA AccountStep ==
  ASSUME TypeOK, PoolsOK, RemovingOK, ConstantsAssumption, JobsAccounted, [Next]_vars
  PROVE  JobsAccounted'
<1> USE DEF pools, http, redis, hist
<1>0. /\ unread \in [Stage -> Nat] /\ retry \in [Stage -> Nat] /\ Stage = {"story", "email"}
      /\ scheduler \in [Stage -> {"off", "wait", "removing"}]
  BY DEF TypeOK, Stage
<1>1. ASSUME NEW s \in Stage, StartsPool(s) PROVE JobsAccounted'
  <2>1. /\ worker' = [w \in Workers |-> IF w \in Pool(s) THEN "check" ELSE worker[w]]
        /\ UNCHANGED <<unread, retry, accepted, done, abandoned, scheduler>>
        /\ main \in Before(s)
    <3>1. CASE s = "story"
      BY <1>1, <3>1 DEF StartsPool, StartPool, MainGoes, Before
    <3>2. CASE s = "email"
      BY <1>1, <3>2 DEF StartsPool, StartPool, MainGoes, Before
    <3> QED BY <1>0, <3>1, <3>2
  <2>2. \A w \in Pool(s) : worker[w] = "absent"
    BY <2>1 DEF PoolsOK
  <2>3. Held' = Held
    BY <2>1, <2>2 DEF Held
  <2> QED BY <2>1, <2>3, AccountKept
<1>2. CASE StartSchedulers
  <2>1. \A s \in Stage : scheduler[s] = "off" /\ scheduler'[s] = "wait"
    BY <1>2 DEF StartSchedulers, MainGoes, RemovingOK
  <2>2. Held' = Held /\ UNCHANGED <<unread, retry, accepted, done, abandoned>>
    BY <1>2 DEF StartSchedulers, Held
  <2> QED BY <2>1, <2>2, AccountKept
<1>3. CASE UNCHANGED <<worker, unread, retry, accepted, done, abandoned, scheduler>>
  <2>1. Held' = Held
    BY <1>3 DEF Held
  <2> QED BY <1>3, <2>1, AccountKept
<1>4. CASE MainStep
  BY <1>1, <1>2, <1>3, <1>4 DEF MainStep, StartsPool, Stage, CreateConsumerGroup, Listen, CloseServer,
     Shutdown, Cancel, Wait
<1>5. ASSUME NEW h \in Handlers, Request(h) \/ Respond(h) PROVE JobsAccounted'
  <2>1. CASE Respond(h) /\ accepted' = accepted + 1 /\ unread' = More(unread, "story")
    <3>1. Held' = Held /\ UNCHANGED <<retry, done, abandoned, scheduler>>
      BY <2>1 DEF Respond, Held
    <3>2. unread'["story"] = unread["story"] + 1 /\ unread'["email"] = unread["email"]
      BY <1>0, <2>1, Counting
    <3> QED BY <2>1, <3>1, <3>2, Numbers DEF JobsAccounted, InRedis
  <2> QED BY <1>3, <1>5, <2>1 DEF Request, Respond
<1>6. ASSUME NEW s \in Stage, SchedulerStep(s) PROVE JobsAccounted'
  <2>0. Held' = Held /\ UNCHANGED <<accepted, done, abandoned>>
    BY <1>6 DEF SchedulerStep, Reenqueue, Remove, Held
  <2>1. \A t \in Stage : InRedis(t)' = InRedis(t)
    <3> SUFFICES ASSUME NEW t \in Stage PROVE InRedis(t)' = InRedis(t)
      OBVIOUS
    <3>0. unread[t] \in Nat /\ retry[t] \in Nat
      BY <1>0
    <3>1. CASE Reenqueue(s) /\ t = s
      <4>1. unread'[t] = unread[t] + 1 /\ retry'[t] = retry[t]
        BY <1>0, <3>1, Counting DEF Reenqueue
      <4>2. scheduler[t] = "wait" /\ scheduler'[t] = "removing"
        BY <1>0, <3>1 DEF Reenqueue
      <4> QED BY <3>0, <4>1, <4>2 DEF InRedis
    <3>2. CASE Remove(s) /\ t = s
      <4>1. unread'[t] = unread[t] /\ retry'[t] = retry[t] - 1
        BY <1>0, <3>2, Counting DEF Remove
      <4>2. scheduler[t] = "removing" /\ scheduler'[t] = "wait"
        BY <1>0, <3>2 DEF Remove
      <4> QED BY <3>0, <4>1, <4>2 DEF InRedis
    <3>3. CASE t # s
      <4>0. /\ unread' = unread \/ unread' = More(unread, s)
            /\ retry' = retry \/ retry' = Less(retry, s)
        BY <1>6 DEF SchedulerStep, Reenqueue, Remove
      <4>1. More(unread, s)[t] = unread[t] /\ Less(retry, s)[t] = retry[t]
        <5>1. unread \in [Stage -> Nat] /\ retry \in [Stage -> Nat]
          BY <1>0
        <5> QED BY <3>3, <5>1 DEF More, Less
      <4>2. unread'[t] = unread[t] /\ retry'[t] = retry[t]
        BY <4>0, <4>1
      <4>3. scheduler'[t] = scheduler[t]
        BY <1>0, <1>6, <3>3 DEF SchedulerStep, Reenqueue, Remove
      <4> QED BY <4>2, <4>3 DEF InRedis
    <3> QED BY <1>6, <3>1, <3>2, <3>3 DEF SchedulerStep
  <2> QED BY <1>0, <2>0, <2>1 DEF JobsAccounted
<1> QED
  BY <1>3, <1>4, <1>5, <1>6, WorkerAccount DEF Next, vars, Signal, Serve, ListenFails

-----------------------------------------------------------------------------
\* In every reachable state the invariant holds.
THEOREM Invariance == Spec => []IInv
<1>1. Init => IInv
  <2> SUFFICES ASSUME Init PROVE IInv
    OBVIOUS
  <2>0. \A s \in Stage : Active(s) = {} /\ IsFiniteSet({}) /\ Cardinality({}) = 0
    BY PoolFacts, ConstantsAssumption, FS_EmptySet DEF Init, Active
  <2>1. TypeOK
    <3>1. /\ unread \in [Stage -> Nat] /\ unread["story"] \in Nat /\ unread["email"] \in Nat
          /\ retry \in [Stage -> Nat] /\ retry["story"] \in Nat /\ retry["email"] \in Nat
          /\ accepted \in Nat
      BY ConstantsAssumption DEF Init, Stage, ConstantsAssumption
    <3> QED BY <3>1 DEF Init, TypeOK, Main, Place
  <2>2. PoolsOK
    BY <2>0, PoolFacts, ConstantsAssumption DEF Init, PoolsOK, Before, After, Stage
  <2>3. ServerOK /\ RemovingOK /\ LateOK
    BY DEF Init, ServerOK, RemovingOK, LateOK
  <2>4. Held = {}
    BY DEF Init, Held
  <2>5. JobsAccounted
    BY <2>0, <2>1, <2>4 DEF Init, JobsAccounted, InRedis, Stage, TypeOK
  <2> QED BY <2>1, <2>2, <2>3, <2>5 DEF IInv
<1>2. IInv /\ [Next]_vars => IInv'
  BY ConstantsAssumption, TypeStep, PoolsStep, ServerStep, RemovingStep, LateStep, AccountStep DEF IInv
<1> QED
  BY <1>1, <1>2, PTL DEF Spec

\* Every variable stays in its domain.
THEOREM TypeCorrect == Spec => []TypeOK
<1>1. IInv => TypeOK
  BY DEF IInv
<1> QED
  BY <1>1, Invariance, PTL

\* No job is lost, whatever starts and ends when.
THEOREM JobsStayAccounted == Spec => []JobsAccounted
<1>1. IInv => JobsAccounted
  BY DEF IInv
<1> QED
  BY <1>1, Invariance, PTL

\* When Run returns, the workers have come to the end of their messages, and the
\* requests have been answered unless Shutdown timed out.
THEOREM HandlersEnd == Spec => []NoHandlerCutOff
<1>1. IInv => NoHandlerCutOff
  <2>1. ASSUME IInv, main = "returned" PROVE \A w \in Workers : worker[w] = "gone"
    <3> SUFFICES ASSUME NEW w \in Workers PROVE worker[w] = "gone"
      OBVIOUS
    <3>1. PICK s \in Stage : w \in Pool(s)
      BY PoolFacts, ConstantsAssumption
    <3>2. Active(s) = {} /\ worker[w] # "absent"
      BY <2>1, <3>1 DEF IInv, PoolsOK, Before, After, Stage
    <3> QED BY <3>1, <3>2 DEF Active
  <2> QED BY <2>1 DEF IInv, ServerOK, NoHandlerCutOff
<1> QED
  BY <1>1, Invariance, PTL

\* After Cancel a worker handles one message at most.
THEOREM OneLateMessage == Spec => []AtMostOneLate
<1>1. IInv => AtMostOneLate
  BY DEF IInv, LateOK, AtMostOneLate, TypeOK
<1> QED
  BY <1>1, Invariance, PTL
=============================================================================
