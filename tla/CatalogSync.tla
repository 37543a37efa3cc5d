------------------------------ MODULE CatalogSync ------------------------------
(***************************************************************************)
(* How the catalog follows its two feeds: the timers that put sync jobs in *)
(* the queue, the worker that runs one job at a time under a hard timeout, *)
(* the runs themselves, also those an administrator starts by hand, and    *)
(* the cache of what readers see, filled on a miss and emptied by a run.   *)
(*                                                                         *)
(* A run that has lost its job to the timeout goes on in the process; the  *)
(* map from the cities of a feed to ours belongs to the service, not to    *)
(* the run.                                                                *)
(***************************************************************************)
EXTENDS Integers, FiniteSets

CONSTANTS
  Events,      \* what the feeds offer
  Source,      \* the feed of each event
  Home,        \* the city of each event
  Default,     \* Moscow: where Teplohod events go whose city is not known
  NoCity,
  Runs,        \* runs that may be in progress
  Scenes,      \* which runs are started by hand, what may fail, which feeds
               \* change, whether the incremental timer fires and anybody reads
  Attempts,    \* tries of a job
  MaxVersion,  \* bound: changes of each feed
  MaxFaults    \* bound: failures of all kinds

Sources == {"TC", "TEP"}
Jobs == {"full", "incremental"}
Kinds == Jobs \cup {"manualTc", "manualTep", "manualAll"}
Failures == {"feed", "throw", "slow", "hang", "redis", "restart"}

ASSUME SyncAssumption ==
  /\ Source \in [Events -> Sources]
  /\ NoCity # Default /\ \A e \in Events : Home[e] # NoCity
  /\ Scenes \subseteq [manual : SUBSET (Kinds \ Jobs), failures : SUBSET Failures,
                       moving : SUBSET Sources, hourly : BOOLEAN, readers : BOOLEAN]
  /\ Runs \subseteq Int
  /\ Attempts \in Nat \ {0} /\ {MaxVersion, MaxFaults} \subseteq Nat

VARIABLES
  scene,
  upstream,   \* the version each feed shows
  catalog,    \* the city and version of our Event rows
  cities,     \* cityCache of each sync service
  job,        \* the BullMQ jobs with their fixed ids
  checked,    \* the incremental timer has found no full sync
  run,        \* what each run does next; POST sync/all is two, one for each feed,
              \* of kind "dropped" when the other has failed
  entry,      \* the cache: "none", "fresh", "stale", or "late" when a reader
              \* has put back what a run had just removed
  reading,    \* the value of a reader that has missed the cache
  faults

feedVars == <<upstream, catalog, cities>>
jobVars == <<job, checked>>
cacheVars == <<entry, reading>>
vars == <<scene, feedVars, jobVars, run, cacheVars, faults>>

CitiesOf(s) == {Home[e] : e \in {x \in Events : Source[x] = s}} \cup
               (IF s = "TEP" THEN {Default} ELSE {})
Cities == UNION {CitiesOf(s) : s \in Sources}

Absent == [city |-> NoCity, version |-> -1]
Idle == [kind |-> "none", at |-> "idle", src |-> "TC", todo |-> {}, left |-> {},
         feed |-> [s \in Sources |-> -1], rest |-> FALSE, owned |-> FALSE, aborted |-> FALSE]
Stages == {"idle", "clear", "cities", "load", "events", "invalidate", "hung"}

TypeOK ==
  /\ scene \in Scenes
  /\ upstream \in [Sources -> 0..MaxVersion]
  /\ catalog \in [Events -> [city : Cities, version : 0..MaxVersion] \cup {Absent}]
  /\ \A s \in Sources : cities[s] \subseteq CitiesOf(s)
  /\ job \in [Jobs -> [state : {"absent", "waiting", "active", "delayed", "completed", "failed"},
                       tries : 0..Attempts]]
  /\ checked \in BOOLEAN
  /\ run \in [Runs -> [kind : Kinds \cup {"none", "dropped"}, at : Stages, src : Sources,
                       todo : SUBSET Events, left : SUBSET Cities,
                       feed : [Sources -> -1..MaxVersion],
                       rest : BOOLEAN, owned : BOOLEAN, aborted : BOOLEAN]]
  /\ entry \in {"none", "fresh", "stale", "late"} /\ reading \in {"none", "fresh", "stale", "late"}
  /\ faults \in 0..MaxFaults

Init ==
  /\ scene \in Scenes
  /\ upstream = [s \in Sources |-> 0]
  /\ catalog = [e \in Events |-> Absent]
  /\ cities = [s \in Sources |-> {}]
  /\ job = [k \in Jobs |-> [state |-> "absent", tries |-> 0]]
  /\ checked = FALSE
  /\ run = [r \in Runs |-> Idle]
  /\ entry = "none" /\ reading = "none"
  /\ faults = 0

Underway == {r \in Runs : run[r].at # "idle"}
At(r, stage) == run[r].at = stage
Free(r) == At(r, "idle") /\ \A q \in Runs : At(q, "idle") => r <= q
Fault(kind) == kind \in scene.failures /\ faults < MaxFaults /\ faults' = faults + 1

-----------------------------------------------------------------------------
(***************************************************************************)
(* The timers and the queue.                                               *)
(***************************************************************************)
Pending == {"waiting", "active", "delayed"}

\* Adding a job with the id of one the queue still has does nothing, and the
\* queue keeps finished jobs under their id: removeOnComplete and removeOnFail
\* leave more of them than there are ids.
Obstructs(state) == state # "absent"

Add(k) ==
  IF Obstructs(job[k].state) THEN UNCHANGED job
  ELSE job' = [job EXCEPT ![k] = [state |-> "waiting", tries |-> 0]]

CronFull ==
  /\ Add("full")
  /\ UNCHANGED <<scene, feedVars, checked, run, cacheVars, faults>>

IncrementalCheck ==
  /\ scene.hourly /\ ~checked /\ job["full"].state \notin Pending
  /\ checked' = TRUE
  /\ UNCHANGED <<scene, feedVars, job, run, cacheVars, faults>>

IncrementalAdd ==
  /\ checked
  /\ Add("incremental")
  /\ checked' = FALSE
  /\ UNCHANGED <<scene, feedVars, run, cacheVars, faults>>

Fresh(kind, owned, src) ==
  [Idle EXCEPT !.kind = kind, !.at = "clear", !.owned = owned, !.src = src]
Start(r, kind, owned) ==
  run' = [run EXCEPT ![r] = Fresh(kind, owned, IF kind = "manualTep" THEN "TEP" ELSE "TC")]

\* SyncProcessor with concurrency 1.
Take ==
  /\ \A k \in Jobs : job[k].state # "active"
  /\ \E k \in Jobs, r \in Runs :
       /\ job[k].state = "waiting" /\ Free(r)
       /\ job' = [job EXCEPT ![k].state = "active"]
       /\ Start(r, k, TRUE)
  /\ UNCHANGED <<scene, feedVars, checked, cacheVars, faults>>

\* The endpoints that sync one feed at once.
StartByHand(r, kind) ==
  /\ kind \in scene.manual \ {"manualAll"}
  /\ Free(r)
  /\ Start(r, kind, FALSE)
  /\ UNCHANGED <<scene, feedVars, jobVars, cacheVars, faults>>

\* POST sync/all: both feeds at one time.  Bound: one such request at a time.
StartAll(r, q) ==
  /\ "manualAll" \in scene.manual
  /\ At(r, "idle") /\ At(q, "idle") /\ r < q
  /\ \A p \in Runs : run[p].kind # "manualAll"
  /\ run' = [run EXCEPT ![r] = Fresh("manualAll", FALSE, "TC"),
                        ![q] = Fresh("manualAll", FALSE, "TEP")]
  /\ UNCHANGED <<scene, feedVars, jobVars, cacheVars, faults>>

Failed(j) == IF j.tries + 1 < Attempts THEN [state |-> "delayed", tries |-> j.tries + 1]
             ELSE [state |-> "failed", tries |-> j.tries + 1]

Retry(k) ==
  /\ job[k].state = "delayed"
  /\ job' = [job EXCEPT ![k].state = "waiting"]
  /\ UNCHANGED <<scene, feedVars, checked, run, cacheVars, faults>>

\* A mistake: the job of a run that hangs is left to it.
TimeoutOnlyMoving(r) ==
  /\ run[r].owned /\ ~At(r, "hung") /\ Fault("slow")
  /\ job' = [job EXCEPT ![run[r].kind] = Failed(@)]
  /\ run' = [run EXCEPT ![r].owned = FALSE, ![r].aborted = TRUE]
  /\ UNCHANGED <<scene, feedVars, checked, cacheVars>>

\* withTimeout: the job fails, the run is told to abort and goes on; from one
\* that hangs nothing more is heard.
Timeout(r) ==
  /\ run[r].owned
  /\ (At(r, "hung") /\ UNCHANGED faults) \/ (~At(r, "hung") /\ Fault("slow"))
  /\ job' = [job EXCEPT ![run[r].kind] = Failed(@)]
  /\ run' = [run EXCEPT ![r] = IF At(r, "hung") THEN Idle
                              ELSE [@ EXCEPT !.owned = FALSE, !.aborted = TRUE]]
  /\ UNCHANGED <<scene, feedVars, checked, cacheVars>>

-----------------------------------------------------------------------------
(***************************************************************************)
(* A run.                                                                  *)
(***************************************************************************)
Set(r, changes) == run' = [run EXCEPT ![r] = changes]
Completed == [state |-> "completed", tries |-> 0]
End(r) ==
  /\ Set(r, Idle)
  /\ job' = IF run[r].owned THEN [job EXCEPT ![run[r].kind] = Completed] ELSE job

\* The other half of POST sync/all has not come to its end.
OtherHalf(r) ==
  {q \in Runs \ {r} : run[r].kind = "manualAll" /\ run[q].kind = "manualAll"}

\* After a feed: a full run goes on with Teplohod; a run by hand of
\* Ticketscloud leaves the cache alone, and the first half of POST sync/all
\* leaves it to the second.
AfterFeed(r) ==
  IF run[r].kind = "full" /\ run[r].src = "TC"
  THEN Set(r, [run[r] EXCEPT !.at = "clear", !.src = "TEP", !.rest = FALSE]) /\ UNCHANGED job
  ELSE IF run[r].kind \in {"manualTc", "dropped"} \/ OtherHalf(r) # {} THEN End(r)
  ELSE Set(r, [run[r] EXCEPT !.at = "invalidate", !.rest = FALSE]) /\ UNCHANGED job

\* What goes wrong in the gRPC part of Ticketscloud's sync makes it begin
\* anew with REST.
CanFallBack(r) == run[r].src = "TC" /\ ~run[r].rest /\ run[r].at # "invalidate"
FallBack(r) ==
  /\ Set(r, [run[r] EXCEPT !.at = "clear", !.rest = TRUE, !.left = {}, !.feed["TC"] = -1])
  /\ UNCHANGED job

\* syncAll of either service forgets the cities.  Only the requests to
\* Teplohod know of the abort; one that fails ends this part of the run and is
\* not an error of the job.
Clear(r) ==
  /\ At(r, "clear")
  /\ cities' = [cities EXCEPT ![run[r].src] = {}]
  /\ \/ /\ run[r].src = "TC"
        /\ Set(r, [run[r] EXCEPT !.at = "load"])
        /\ UNCHANGED <<job, faults>>
     \/ /\ run[r].src = "TEP" /\ ~run[r].aborted
        /\ Set(r, [run[r] EXCEPT !.at = "cities", !.left = CitiesOf("TEP")])
        /\ UNCHANGED <<job, faults>>
     \/ /\ run[r].src = "TEP" /\ ((run[r].aborted /\ UNCHANGED faults) \/ Fault("feed"))
        /\ AfterFeed(r)
  /\ UNCHANGED <<scene, upstream, catalog, checked, cacheVars>>

Offers(s) == {e \in Events : Source[e] = s}
Loaded(r, v) ==
  LET s == run[r].src
      got == [run[r] EXCEPT !.feed[s] = v, !.todo = Offers(s)] IN
    IF s = "TC" THEN [got EXCEPT !.at = "cities", !.left = CitiesOf("TC")]
    ELSE [got EXCEPT !.at = "events"]

\* An answer of gRPC that names no event is the end of this part, too.
Load(r) ==
  /\ At(r, "load")
  /\ LET cut == run[r].src = "TEP" /\ run[r].aborted IN
       \/ /\ ~cut /\ Set(r, Loaded(r, upstream[run[r].src]))
          /\ UNCHANGED <<job, faults>>
       \/ cut /\ AfterFeed(r) /\ UNCHANGED faults
       \/ Fault("feed") /\ ((CanFallBack(r) /\ FallBack(r)) \/ AfterFeed(r))
  /\ UNCHANGED <<scene, feedVars, checked, cacheVars>>

CitiesDone(r) == [run[r] EXCEPT !.left = {}, !.at = IF run[r].src = "TC" THEN "events" ELSE "load"]

\* A mistake: the loop over the cities stops at the first.
EnsureFirstCity(r) ==
  /\ At(r, "cities")
  /\ \E c \in run[r].left : cities' = [cities EXCEPT ![run[r].src] = @ \cup {c}]
  /\ Set(r, CitiesDone(r))
  /\ UNCHANGED <<scene, upstream, catalog, jobVars, cacheVars, faults>>

\* ensureCity, ensureCityGrpc
EnsureCity(r) ==
  /\ At(r, "cities")
  /\ \E c \in run[r].left :
       /\ cities' = [cities EXCEPT ![run[r].src] = @ \cup {c}]
       /\ Set(r, IF run[r].left = {c} THEN CitiesDone(r) ELSE [run[r] EXCEPT !.left = @ \ {c}])
  /\ UNCHANGED <<scene, upstream, catalog, jobVars, cacheVars, faults>>

Outdated(value) == IF value = "fresh" THEN "stale" ELSE value
Write(e, row) ==
  /\ catalog' = [catalog EXCEPT ![e] = row]
  /\ IF row = catalog[e] THEN UNCHANGED <<entry, reading>>
     ELSE entry' = Outdated(entry) /\ reading' = Outdated(reading)

\* The city an event is stored with: a known event of Ticketscloud keeps its
\* own, one of Teplohod moves to whatever is found now.
Place(e, known) ==
  IF Home[e] \in known
  THEN IF Source[e] = "TC" /\ catalog[e] # Absent THEN catalog[e].city ELSE Home[e]
  ELSE IF Source[e] = "TEP" /\ Default \in known THEN Default ELSE NoCity

\* A mistake: an event without a city is stored without one.
SyncEventAnyway(r) ==
  /\ At(r, "events")
  /\ \E e \in run[r].todo :
       /\ Write(e, [city |-> Place(e, cities[run[r].src]), version |-> run[r].feed[run[r].src]])
       /\ run' = [run EXCEPT ![r].todo = @ \ {e}]
  /\ UNCHANGED <<scene, upstream, cities, jobVars, faults>>

\* syncGrpcEventGroup, syncEvent: an event without a city is passed over.
SyncEvent(r) ==
  /\ At(r, "events")
  /\ \E e \in run[r].todo :
       LET s == run[r].src
           city == Place(e, cities[s]) IN
         /\ IF city = NoCity THEN UNCHANGED <<catalog, entry, reading>>
            ELSE Write(e, [city |-> city, version |-> run[r].feed[s]])
         /\ Set(r, [run[r] EXCEPT !.todo = @ \ {e}])
  /\ UNCHANGED <<scene, upstream, cities, jobVars, faults>>

FeedDone(r) ==
  /\ At(r, "events") /\ run[r].todo = {}
  /\ AfterFeed(r)
  /\ UNCHANGED <<scene, feedVars, checked, cacheVars, faults>>

\* A mistake: the cache is emptied before Teplohod, with the first feed.
InvalidateEarly(r) ==
  /\ At(r, "invalidate")
  /\ IF run[r].kind = "full" THEN UNCHANGED <<entry, reading>>
     ELSE entry' = "none" /\ reading' = (IF reading = "stale" THEN "late" ELSE reading)
  /\ End(r)
  /\ UNCHANGED <<scene, feedVars, checked, faults>>

\* invalidateAfterSync removes the entry, unless Redis fails, which it does
\* not tell; a reader under way may put it back.
Invalidate(r) ==
  /\ At(r, "invalidate")
  /\ \/ /\ entry' = "none"
        /\ reading' = IF reading = "stale" THEN "late" ELSE reading
        /\ UNCHANGED faults
     \/ Fault("redis") /\ UNCHANGED <<entry, reading>>
  /\ End(r)
  /\ UNCHANGED <<scene, feedVars, checked>>

\* An event that cannot be stored is passed over.
PassOver(r) ==
  /\ At(r, "events")
  /\ Fault("throw")
  /\ \E e \in run[r].todo : Set(r, [run[r] EXCEPT !.todo = @ \ {e}])
  /\ UNCHANGED <<scene, feedVars, jobVars, cacheVars>>

\* The database may refuse what a run asks before and after its events.
\* Nobody waits any longer for the other half of POST sync/all.
Throw(r) ==
  /\ At(r, "cities") \/ At(r, "invalidate") \/ (At(r, "events") /\ run[r].todo = {})
  /\ Fault("throw")
  /\ IF CanFallBack(r) THEN FallBack(r)
     ELSE /\ run' = [q \in Runs |-> IF q = r THEN Idle
                                   ELSE IF q \in OtherHalf(r) THEN [run[q] EXCEPT !.kind = "dropped"]
                                   ELSE run[q]]
          /\ job' = IF run[r].owned THEN [job EXCEPT ![run[r].kind] = Failed(@)] ELSE job
  /\ UNCHANGED <<scene, feedVars, checked, cacheVars>>

\* Requests to the feeds have time limits of their own, queries have none.
Hang(r) ==
  /\ run[r].at \in {"cities", "events", "invalidate"}
  /\ Fault("hang")
  /\ Set(r, [run[r] EXCEPT !.at = "hung"])
  /\ UNCHANGED <<scene, feedVars, jobVars, cacheVars>>

\* The runs and the maps die with the process; the queue gives an active job
\* to the next worker.
Restart ==
  /\ Fault("restart")
  /\ run' = [r \in Runs |-> Idle]
  /\ cities' = [s \in Sources |-> {}]
  /\ job' = [k \in Jobs |-> IF job[k].state = "active" THEN [job[k] EXCEPT !.state = "waiting"]
                            ELSE job[k]]
  /\ checked' = FALSE /\ reading' = "none"
  /\ UNCHANGED <<scene, upstream, catalog, entry>>

-----------------------------------------------------------------------------
(***************************************************************************)
(* Readers: getOrSet.                                                      *)
(***************************************************************************)
Miss ==
  /\ scene.readers
  /\ entry = "none" /\ reading = "none"
  /\ reading' = "fresh"
  /\ UNCHANGED <<scene, feedVars, jobVars, run, entry, faults>>

Fill ==
  /\ reading # "none"
  /\ entry' = reading /\ reading' = "none"
  /\ UNCHANGED <<scene, feedVars, jobVars, run, faults>>

TimeToLive ==
  /\ entry # "none"
  /\ entry' = "none"
  /\ UNCHANGED <<scene, feedVars, jobVars, run, reading, faults>>

FeedChanges(s) ==
  /\ s \in scene.moving /\ upstream[s] < MaxVersion
  /\ upstream' = [upstream EXCEPT ![s] = @ + 1]
  /\ UNCHANGED <<scene, catalog, cities, jobVars, run, cacheVars, faults>>

-----------------------------------------------------------------------------
Step(r) ==
  \/ Clear(r) \/ Load(r) \/ EnsureCity(r) \/ SyncEvent(r) \/ FeedDone(r) \/ Invalidate(r)

Next ==
  \/ CronFull \/ IncrementalCheck \/ IncrementalAdd
  \/ Take
  \/ \E k \in Jobs : Retry(k)
  \/ \E r \in Runs :
       \/ Step(r) \/ Timeout(r) \/ PassOver(r) \/ Throw(r) \/ Hang(r)
       \/ \E kind \in Kinds \ Jobs : StartByHand(r, kind)
       \/ \E q \in Runs : StartAll(r, q)
  \/ Restart
  \/ Miss \/ Fill \/ TimeToLive
  \/ \E s \in Sources : FeedChanges(s)

\* The timers fire, the worker works, a run that does not hang goes on, and
\* one that hangs is timed out; entries expire.
Fairness ==
  /\ WF_vars(CronFull) /\ WF_vars(Take) /\ WF_vars(TimeToLive)
  /\ \A k \in Jobs : WF_vars(Retry(k))
  /\ \A r \in Runs : WF_vars(Step(r)) /\ WF_vars(At(r, "hung") /\ Timeout(r))

Spec == Init /\ [][Next]_vars /\ Fairness

-----------------------------------------------------------------------------
(***************************************************************************)
(* Properties.                                                             *)
(***************************************************************************)
\* Nothing is started by hand, and no run goes on after its job has failed.
Alone == scene.manual = {} /\ "slow" \notin scene.failures

\* A full run brings every event of what it has loaded into the catalog: no
\* event is passed over because its city was forgotten under way.
RunCovers ==
  Alone /\ "throw" \notin scene.failures =>
    \A r \in Runs : At(r, "invalidate") =>
      \A e \in Events : catalog[e].version >= run[r].feed[Source[e]]

\* Readers get old data from the cache only until the run that made it old
\* has ended: every run ends by emptying the cache, after its last write, and
\* of the two of POST sync/all the later one.
StaleWhileSyncing ==
  "manualTc" \notin scene.manual
    /\ scene.failures \cap {"throw", "hang", "redis", "restart"} = {} =>
      (entry = "stale" => Underway # {})

\* A job that is in the queue comes to its end, completed or failed for good,
\* through failed loads, exceptions, hung and slow runs and restarts: a run
\* that hangs does not keep the one worker.
JobsEnd ==
  scene.manual = {} => \A k \in Jobs :
    job[k].state \in Pending ~> job[k].state \in {"completed", "failed"}

\* When the feeds rest, the catalog comes to show them, as the scheduler's
\* comment has it: finished jobs do not block, a new one is made.  This does
\* not hold: the queue keeps them, and each timer adds one job in all.
InStep == \A e \in Events : catalog[e] = [city |-> Home[e], version |-> upstream[Source[e]]]
CatchesUp == scene.manual = {} => <>[]InStep
=============================================================================
