--------------------------- MODULE CatalogSyncProofs ---------------------------
(***************************************************************************)
(* Theorems about CatalogSync: its types; that a run which nothing disturbs *)
(* brings every event it has loaded into the catalog; and that old data in *)
(* the cache outlives the run that made it old only with a reader's help.  *)
(***************************************************************************)
EXTENDS CatalogSync, TLAPS

-----------------------------------------------------------------------------
(***************************************************************************)
(* Runs and jobs: a run that owns a job is the only one that does, and its *)
(* job is active; a job that may be tried again has tries left.            *)
(***************************************************************************)
RunRow == [kind : Kinds \cup {"none", "dropped"}, at : Stages, src : Sources, todo : SUBSET Events,
           left : SUBSET Cities, feed : [Sources -> -1..MaxVersion],
           rest : BOOLEAN, owned : BOOLEAN, aborted : BOOLEAN]
JobRow == [state : {"absent", "waiting", "active", "delayed", "completed", "failed"}, tries : 0..Attempts]

\* What a run may hold at its stage.
RunFits(w) ==
  /\ w.at = "cities" => w.left \subseteq CitiesOf(w.src)
  /\ w.at = "events" \/ (w.at = "cities" /\ w.src = "TC") => w.feed[w.src] >= 0
  /\ w.at = "idle" => ~w.owned /\ w.kind = "none"
  /\ w.at # "idle" => w.kind \in Kinds \cup {"dropped"}
  /\ w.owned => w.kind \in Jobs

JobFits(j) == j.state \in Pending => j.tries < Attempts

OwnedInv ==
  /\ \A r \in Runs : run[r].owned => job[run[r].kind].state = "active"
  /\ \A r, q \in Runs : run[r].owned /\ run[q].owned => r = q

TypeInv ==
  /\ TypeOK
  /\ \A r \in Runs : RunFits(run[r])
  /\ \A k \in Jobs : JobFits(job[k])
  /\ OwnedInv
  /\ cities \in [Sources -> SUBSET Cities]

-----------------------------------------------------------------------------
(***************************************************************************)
(* A run by itself: while nothing is started by hand and no run outlives   *)
(* its job, every run owns its job.  What it knows of the cities and what  *)
(* it has still to do account for every event it has loaded.               *)
(***************************************************************************)
AloneInv == Alone => \A r \in Runs : ~At(r, "idle") => run[r].owned

Ahead(w) == IF w.at = "events" THEN w.todo
            ELSE IF w.at = "cities" /\ w.src = "TC" THEN Offers("TC") ELSE {}

Knows(w, known) ==
  /\ w.at = "cities" => CitiesOf(w.src) \ w.left \subseteq known[w.src]
  /\ w.at = "events" \/ (w.at = "load" /\ w.src = "TEP") => CitiesOf(w.src) \subseteq known[w.src]
  /\ w.at = "cities" /\ w.src = "TC" => w.todo = Offers("TC")
  /\ w.at = "events" => w.todo \subseteq Offers(w.src)

Covers(w, rows) == \A e \in Events \ Ahead(w) : rows[e].version >= w.feed[Source[e]]

Accounts(w, known, rows) == w.at \notin {"idle", "hung"} => Knows(w, known) /\ Covers(w, rows)

CoverInv ==
  Alone /\ "throw" \notin scene.failures => \A r \in Runs : Accounts(run[r], cities, catalog)

\* Old data is in the cache, or about to be put there, only during a run.
StaleInv ==
  "manualTc" \notin scene.manual
    /\ scene.failures \cap {"throw", "hang", "redis", "restart"} = {} =>
      /\ "stale" \in {entry, reading} => Underway # {}
      /\ \A r \in Runs : ~At(r, "hung") /\ run[r].kind \notin {"manualTc", "dropped"}

Inductive == TypeInv /\ AloneInv /\ CoverInv /\ StaleInv

-----------------------------------------------------------------------------
\* A run goes on with its job, or leaves it: completed, or failed and with one
\* try less.
Goes(r, w) ==
  /\ Set(r, w) /\ UNCHANGED job
  /\ w \in RunRow /\ RunFits(w)
  /\ w.owned = run[r].owned /\ w.kind = run[r].kind

Leaves(r, w) ==
  /\ Set(r, w) /\ w \in RunRow /\ RunFits(w) /\ ~w.owned
  /\ w = Idle \/ ("slow" \in scene.failures /\ w.kind = run[r].kind /\ w.at = run[r].at)
  /\ \E j \in JobRow :
       /\ JobFits(j) /\ j.state # "active"
       /\ job' = IF run[r].owned THEN [job EXCEPT ![run[r].kind] = j] ELSE job

\* One half of POST sync/all fails, and the other goes on without it.
Drops(r) ==
  /\ run[r].kind = "manualAll" /\ UNCHANGED job
  /\ run' = [q \in Runs |-> IF q = r THEN Idle
                            ELSE IF q \in OtherHalf(r) THEN [run[q] EXCEPT !.kind = "dropped"]
                            ELSE run[q]]

\* A free place for a run has a row of its own.
LEMMA IdleFits == Idle \in RunRow /\ RunFits(Idle)
BY SyncAssumption DEF Idle, RunRow, RunFits, Stages, Sources, Kinds

\* A job that fails has had a try left.
LEMMA FailedFits ==
  ASSUME NEW j \in JobRow, JobFits(j), j.state = "active"
  PROVE  Failed(j) \in JobRow /\ JobFits(Failed(j)) /\ Failed(j).state # "active"
BY SyncAssumption DEF JobRow, JobFits, Failed, Pending

\* The rows of a run and of the job it owns.
LEMMA RunRows ==
  ASSUME TypeInv, NEW r \in Runs
  PROVE  /\ run \in [Runs -> RunRow] /\ run[r] \in RunRow /\ RunFits(run[r])
         /\ job \in [Jobs -> JobRow]
         /\ run[r].owned => /\ run[r].kind \in Jobs /\ job[run[r].kind].state = "active"
                            /\ job[run[r].kind] \in JobRow /\ JobFits(job[run[r].kind])
BY DEF TypeInv, TypeOK, RunRow, RunFits, JobRow, OwnedInv

\* A run that ends completes the job it owns.
LEMMA Ending ==
  ASSUME TypeInv, NEW r \in Runs, End(r)
  PROVE  Leaves(r, Idle)
<1>1. Completed \in JobRow /\ JobFits(Completed) /\ Completed.state # "active"
  BY SyncAssumption DEF Completed, JobRow, JobFits, Pending
<1> QED
  BY <1>1, IdleFits DEF End, Leaves, Idle

\* After a feed a run goes on to the other feed, to the cache, or ends.
LEMMA AfterFeedMoves ==
  ASSUME TypeInv, NEW r \in Runs, ~At(r, "idle"), AfterFeed(r)
  PROVE  \E w : Goes(r, w) \/ Leaves(r, w)
<1>a. run[r] \in RunRow /\ RunFits(run[r])
  BY RunRows
<1>1. CASE run[r].kind = "full" /\ run[r].src = "TC"
  <2> DEFINE w == [run[r] EXCEPT !.at = "clear", !.src = "TEP", !.rest = FALSE]
  <2>1. w \in RunRow /\ w.at = "clear" /\ w.owned = run[r].owned /\ w.kind = run[r].kind
    BY <1>a DEF RunRow, Stages, Sources
  <2>2. RunFits(w)
    BY <1>a, <2>1 DEF RunFits, At
  <2>3. Set(r, w) /\ UNCHANGED job
    BY <1>1 DEF AfterFeed
  <2> QED
    BY <2>1, <2>2, <2>3 DEF Goes
<1>2. CASE ~(run[r].kind = "full" /\ run[r].src = "TC") /\ (run[r].kind \in {"manualTc", "dropped"} \/ OtherHalf(r) # {})
  BY <1>2, Ending DEF AfterFeed
<1>3. CASE ~(run[r].kind = "full" /\ run[r].src = "TC") /\ ~(run[r].kind \in {"manualTc", "dropped"} \/ OtherHalf(r) # {})
  <2> DEFINE w == [run[r] EXCEPT !.at = "invalidate", !.rest = FALSE]
  <2>1. w \in RunRow /\ w.at = "invalidate" /\ w.owned = run[r].owned /\ w.kind = run[r].kind
    BY <1>a DEF RunRow, Stages
  <2>2. RunFits(w)
    BY <1>a, <2>1 DEF RunFits, At
  <2>3. Set(r, w) /\ UNCHANGED job
    BY <1>3 DEF AfterFeed
  <2> QED
    BY <2>1, <2>2, <2>3 DEF Goes
<1> QED
  BY <1>1, <1>2, <1>3

\* A run that falls back to the REST API starts its feed again.
LEMMA FallBackMoves ==
  ASSUME TypeInv, NEW r \in Runs, ~At(r, "idle"), FallBack(r)
  PROVE  \E w : Goes(r, w)
<1>a. run[r] \in RunRow /\ RunFits(run[r])
  BY RunRows
<1> DEFINE w == [run[r] EXCEPT !.at = "clear", !.rest = TRUE, !.left = {}, !.feed["TC"] = -1]
<1>1. -1 \in -1..MaxVersion
  BY SyncAssumption
<1>2. [run[r].feed EXCEPT !["TC"] = -1] \in [Sources -> -1..MaxVersion]
  BY <1>a, <1>1 DEF RunRow
<1>3. w \in RunRow
  BY <1>a, <1>2 DEF RunRow, Stages
<1>4. w.at = "clear" /\ w.owned = run[r].owned /\ w.kind = run[r].kind
  BY <1>a DEF RunRow
<1>5. RunFits(w)
  BY <1>a, <1>4 DEF RunFits, At
<1> QED
  BY <1>3, <1>4, <1>5 DEF FallBack, Goes

\* Every step of a run is of one of these forms.
LEMMA RunMoves ==
  ASSUME TypeInv, NEW r \in Runs, Step(r) \/ Timeout(r) \/ PassOver(r) \/ Throw(r) \/ Hang(r)
  PROVE  (\E w : Goes(r, w) \/ Leaves(r, w)) \/ (Throw(r) /\ Drops(r))
<1>a. run[r] \in RunRow /\ RunFits(run[r]) /\ upstream \in [Sources -> 0..MaxVersion]
  BY RunRows DEF TypeInv, TypeOK
<1>s. run[r].src \in Sources /\ run[r].kind \in Kinds \cup {"none", "dropped"}
  BY <1>a DEF RunRow
<1>c. \A s \in Sources : CitiesOf(s) \subseteq Cities
  BY DEF Cities
<1>1. CASE Clear(r)
  <2>1. ASSUME NEW stage \in {"load", "cities"}, NEW left \in SUBSET CitiesOf(run[r].src),
               run[r].src = "TC" => stage = "load",
               Set(r, [run[r] EXCEPT !.at = stage, !.left = left]), UNCHANGED job
        PROVE  \E w : Goes(r, w)
    <3> DEFINE w == [run[r] EXCEPT !.at = stage, !.left = left]
    <3>1. w \in RunRow
      BY <1>a, <1>c, <1>s DEF RunRow, Stages
    <3>2. /\ w.at = stage /\ w.left = left /\ w.src = run[r].src /\ w.feed = run[r].feed
          /\ w.owned = run[r].owned /\ w.kind = run[r].kind
      BY <1>a DEF RunRow
    <3>3. RunFits(w)
      <4> HIDE DEF w
      <4> QED
        BY <1>a, <1>1, <2>1, <3>2 DEF RunFits, Clear, At
    <3> QED
      BY <2>1, <3>1, <3>2, <3>3 DEF Goes
  <2>2. ~At(r, "idle")
    BY <1>1 DEF Clear, At
  <2>3. CASE run[r].src = "TC" /\ Set(r, [run[r] EXCEPT !.at = "load"]) /\ UNCHANGED job
    <3> DEFINE w == [run[r] EXCEPT !.at = "load"]
    <3>1. w \in RunRow
      BY <1>a DEF RunRow, Stages
    <3>2. w.at = "load" /\ w.owned = run[r].owned /\ w.kind = run[r].kind
      BY <1>a DEF RunRow
    <3>3. RunFits(w)
      BY <1>a, <1>1, <3>2 DEF RunFits, Clear, At
    <3> QED
      BY <2>3, <3>1, <3>2, <3>3 DEF Goes
  <2>4. CASE run[r].src = "TEP" /\ Set(r, [run[r] EXCEPT !.at = "cities", !.left = CitiesOf("TEP")]) /\ UNCHANGED job
    BY <2>1, <2>4
  <2> QED
    BY <1>1, <2>2, <2>3, <2>4, AfterFeedMoves DEF Clear
<1>2. CASE Load(r)
  <2>2. ~At(r, "idle")
    BY <1>2 DEF Load, At
  <2>3. CASE Set(r, Loaded(r, upstream[run[r].src])) /\ UNCHANGED job
    <3> DEFINE s == run[r].src
               v == upstream[s]
               w == Loaded(r, v)
    <3>1. v \in 0..MaxVersion
      BY <1>a, <1>s
    <3>2. [run[r].feed EXCEPT ![s] = v] \in [Sources -> -1..MaxVersion]
      BY <1>a, <3>1, <1>s DEF RunRow
    <3>f. [run[r].feed EXCEPT ![s] = v][s] >= 0
      BY <1>a, <3>1, <1>s DEF RunRow
    <3>3. Offers(s) \subseteq Events
      BY DEF Offers
    <3>4. w \in RunRow
      BY <1>a, <1>c, <1>s, <3>2, <3>3 DEF Loaded, RunRow, Stages, Sources
    <3>5. /\ w.owned = run[r].owned /\ w.kind = run[r].kind /\ w.src = s
          /\ w.feed = [run[r].feed EXCEPT ![s] = v]
          /\ w.at = "events" \/ (w.at = "cities" /\ w.left = CitiesOf(s))
      BY <1>a DEF Loaded, RunRow
    <3>6. RunFits(w)
      <4> HIDE DEF w
      <4> QED
        BY <1>a, <1>2, <3>5, <3>f DEF RunFits, Load, At
    <3> QED
      BY <2>3, <3>4, <3>5, <3>6 DEF Goes
  <2> QED
    BY <1>2, <2>2, <2>3, AfterFeedMoves, FallBackMoves DEF Load
<1>3. CASE EnsureCity(r)
  <2>1. ASSUME NEW stage \in {"cities", "events", "load"}, NEW left \in SUBSET run[r].left,
               run[r].src = "TC" => stage # "load", run[r].src # "TC" => stage # "events",
               Set(r, [run[r] EXCEPT !.left = left, !.at = stage]) \/
                 (stage = "cities" /\ Set(r, [run[r] EXCEPT !.left = left])),
               UNCHANGED job
        PROVE  \E w : Goes(r, w)
    <3> DEFINE w == [run[r] EXCEPT !.left = left, !.at = stage]
    <3>0. stage = "cities" => [run[r] EXCEPT !.left = left] = w
      BY <1>a, <1>3 DEF EnsureCity, At, RunRow
    <3>1. w \in RunRow
      BY <1>a DEF RunRow, Stages
    <3>2. /\ w.at = stage /\ w.left = left /\ w.src = run[r].src /\ w.feed = run[r].feed
          /\ w.owned = run[r].owned /\ w.kind = run[r].kind
      BY <1>a DEF RunRow
    <3>3. RunFits(w)
      <4> HIDE DEF w
      <4> QED
        BY <1>a, <1>3, <2>1, <3>2, <1>s DEF RunFits, EnsureCity, At, Sources
    <3>4. Set(r, w)
      BY <2>1, <3>0
    <3> QED
      BY <2>1, <3>1, <3>2, <3>3, <3>4 DEF Goes
  <2>2. PICK c \in run[r].left :
          Set(r, IF run[r].left = {c} THEN CitiesDone(r) ELSE [run[r] EXCEPT !.left = @ \ {c}])
    BY <1>3 DEF EnsureCity
  <2>3. UNCHANGED job
    BY <1>3 DEF EnsureCity, jobVars
  <2>4. CASE run[r].left = {c} /\ run[r].src = "TC"
    <3>1. Set(r, [run[r] EXCEPT !.left = {}, !.at = "events"])
      BY <2>2, <2>4 DEF CitiesDone
    <3>2. {} \in SUBSET run[r].left /\ "events" \in {"cities", "events", "load"}
      OBVIOUS
    <3> QED
      BY <2>1, <2>3, <2>4, <3>1, <3>2
  <2>5. CASE run[r].left = {c} /\ run[r].src # "TC"
    <3>1. Set(r, [run[r] EXCEPT !.left = {}, !.at = "load"])
      BY <2>2, <2>5 DEF CitiesDone
    <3>2. {} \in SUBSET run[r].left /\ "load" \in {"cities", "events", "load"}
      OBVIOUS
    <3> QED
      BY <2>1, <2>3, <2>5, <3>1, <3>2
  <2>6. CASE run[r].left # {c}
    BY <2>1, <2>2, <2>3, <2>6
  <2> QED
    BY <2>4, <2>5, <2>6
<1>4. CASE SyncEvent(r) \/ PassOver(r)
  <2>1. PICK e \in run[r].todo : Set(r, [run[r] EXCEPT !.todo = @ \ {e}])
    BY <1>4 DEF SyncEvent, PassOver
  <2>2. UNCHANGED job
    BY <1>4 DEF SyncEvent, PassOver, jobVars
  <2> DEFINE w == [run[r] EXCEPT !.todo = @ \ {e}]
  <2>3. w \in RunRow
    BY <1>a DEF RunRow
  <2>4. /\ w.at = run[r].at /\ w.left = run[r].left /\ w.src = run[r].src /\ w.feed = run[r].feed
        /\ w.owned = run[r].owned /\ w.kind = run[r].kind
    BY <1>a DEF RunRow
  <2>5. RunFits(w)
    <3> HIDE DEF w
    <3> QED
      BY <1>a, <2>4 DEF RunFits
  <2> QED
    BY <2>1, <2>2, <2>3, <2>4, <2>5 DEF Goes
<1>5. CASE FeedDone(r)
  BY <1>5, AfterFeedMoves DEF FeedDone, At
<1>6. CASE Invalidate(r)
  BY <1>6, Ending DEF Invalidate
<1>7. CASE Hang(r)
  <2> DEFINE w == [run[r] EXCEPT !.at = "hung"]
  <2>1. w \in RunRow
    BY <1>a DEF RunRow, Stages
  <2>2. w.at = "hung" /\ w.owned = run[r].owned /\ w.kind = run[r].kind
    BY <1>a DEF RunRow
  <2>3. RunFits(w)
    BY <1>a, <1>7, <2>2 DEF RunFits, Hang
  <2> QED
    BY <1>7, <2>1, <2>2, <2>3 DEF Hang, Goes, jobVars
<1>8. CASE Throw(r)
  <2>1. ~At(r, "idle")
    BY <1>8 DEF Throw, At
  <2>2. CASE CanFallBack(r)
    BY <1>8, <2>1, <2>2, FallBackMoves DEF Throw
  <2>3. CASE ~CanFallBack(r)
    <3>0. /\ run' = [q \in Runs |-> IF q = r THEN Idle
                                   ELSE IF q \in OtherHalf(r) THEN [run[q] EXCEPT !.kind = "dropped"]
                                   ELSE run[q]]
          /\ job' = IF run[r].owned THEN [job EXCEPT ![run[r].kind] = Failed(@)] ELSE job
      BY <1>8, <2>3 DEF Throw
    <3>a. CASE OtherHalf(r) # {}
      <4>1. run[r].kind = "manualAll"
        BY <3>a DEF OtherHalf
      <4>2. ~run[r].owned
        BY <1>a, <4>1 DEF RunFits, Jobs
      <4> QED
        BY <1>8, <3>0, <4>1, <4>2 DEF Drops
    <3>b. CASE OtherHalf(r) = {}
      <4>1. Set(r, Idle)
        <5>1. run' = [q \in Runs |-> IF q = r THEN Idle ELSE run[q]]
          BY <3>0, <3>b
        <5> QED
          BY <5>1, RunRows DEF Set
      <4>2. CASE run[r].owned
        <5>1. /\ job' = [job EXCEPT ![run[r].kind] = Failed(job[run[r].kind])]
              /\ Failed(job[run[r].kind]) \in JobRow /\ JobFits(Failed(job[run[r].kind]))
              /\ Failed(job[run[r].kind]).state # "active"
          BY <3>0, <4>2, RunRows, FailedFits
        <5> QED
          BY <4>1, <4>2, <5>1, IdleFits DEF Leaves, Idle
      <4>3. CASE ~run[r].owned
        <5>1. Completed \in JobRow /\ JobFits(Completed) /\ Completed.state # "active"
          BY SyncAssumption DEF Completed, JobRow, JobFits, Pending
        <5> QED
          BY <3>0, <4>1, <4>3, <5>1, IdleFits DEF Leaves, Idle
      <4> QED
        BY <4>2, <4>3
    <3> QED
      BY <3>a, <3>b
  <2> QED
    BY <2>2, <2>3
<1>9. CASE Timeout(r)
  <2>1. /\ run[r].owned
        /\ job' = [job EXCEPT ![run[r].kind] = Failed(job[run[r].kind])]
        /\ Failed(job[run[r].kind]) \in JobRow /\ JobFits(Failed(job[run[r].kind]))
        /\ Failed(job[run[r].kind]).state # "active"
    BY <1>9, RunRows, FailedFits DEF Timeout
  <2>2. CASE At(r, "hung")
    BY <1>9, <2>1, <2>2, IdleFits DEF Timeout, Leaves, Set, Idle
  <2>3. CASE ~At(r, "hung")
    <3> DEFINE w == [run[r] EXCEPT !.owned = FALSE, !.aborted = TRUE]
    <3>1. w \in RunRow
      BY <1>a DEF RunRow
    <3>2. /\ w.at = run[r].at /\ w.left = run[r].left /\ w.src = run[r].src /\ w.feed = run[r].feed
          /\ ~w.owned /\ w.kind = run[r].kind
      BY <1>a DEF RunRow
    <3>3. RunFits(w)
      <4> HIDE DEF w
      <4> QED
        BY <1>a, <3>2 DEF RunFits
    <3>4. Set(r, w) /\ "slow" \in scene.failures
      BY <1>9, <2>3 DEF Timeout, Set, Fault
    <3> QED
      BY <2>1, <3>1, <3>2, <3>3, <3>4 DEF Leaves
  <2> QED
    BY <2>2, <2>3
<1> QED
  BY <1>1, <1>2, <1>3, <1>4, <1>5, <1>6, <1>7, <1>8, <1>9 DEF Step

-----------------------------------------------------------------------------
\* The queue changes only a job that no worker has.
QueueMoves ==
  /\ UNCHANGED run
  /\ \/ UNCHANGED job
     \/ \E k \in Jobs, j \in JobRow :
          JobFits(j) /\ job[k].state # "active" /\ job' = [job EXCEPT ![k] = j]

\* Timers, the cache and the feeds touch no run, and at most add a job.
LEMMA Queues ==
  ASSUME TypeInv,
         \/ CronFull \/ IncrementalCheck \/ IncrementalAdd
         \/ \E k \in Jobs : Retry(k)
         \/ Miss \/ Fill \/ TimeToLive
         \/ \E s \in Sources : FeedChanges(s)
         \/ UNCHANGED vars
  PROVE  QueueMoves
<1>1. ASSUME NEW k \in Jobs, Add(k), UNCHANGED run
      PROVE  QueueMoves
  <2> DEFINE j == [state |-> "waiting", tries |-> 0]
  <2>1. j \in JobRow /\ JobFits(j)
    BY SyncAssumption DEF JobRow, JobFits
  <2> QED
    BY <1>1, <2>1 DEF Add, Obstructs, Pending, QueueMoves
<1>2. ASSUME NEW k \in Jobs, Retry(k)
      PROVE  QueueMoves
  <2> DEFINE j == [job[k] EXCEPT !.state = "waiting"]
  <2>1. job[k] \in JobRow /\ JobFits(job[k]) /\ job[k].state = "delayed" /\ job \in [Jobs -> JobRow]
    BY <1>2 DEF Retry, TypeInv, TypeOK, JobRow
  <2>2. j \in JobRow /\ JobFits(j)
    BY <2>1 DEF JobRow, JobFits, Pending
  <2>3. job' = [job EXCEPT ![k] = j]
    BY <1>2, <2>1 DEF Retry
  <2> QED
    BY <1>2, <2>1, <2>2, <2>3 DEF Retry, QueueMoves
<1>3. CASE CronFull
  BY <1>3, <1>1 DEF CronFull, Jobs
<1>4. CASE IncrementalAdd
  BY <1>4, <1>1 DEF IncrementalAdd, Jobs
<1>5. CASE IncrementalCheck \/ Miss \/ Fill \/ TimeToLive \/ (\E s \in Sources : FeedChanges(s)) \/ UNCHANGED vars
  BY <1>5 DEF IncrementalCheck, Miss, Fill, TimeToLive, FeedChanges, vars, jobVars, QueueMoves
<1> QED
  BY <1>2, <1>3, <1>4, <1>5

\* A run begins only where none is, with a job that nobody else has or with
\* none at all.
Begins(r, kind, owned) ==
  /\ At(r, "idle") /\ Start(r, kind, owned)
  /\ kind \in Kinds /\ (kind \notin Jobs => kind \in scene.manual)
  /\ IF owned THEN /\ kind \in Jobs /\ job[kind].state = "waiting"
                   /\ \A k \in Jobs : job[k].state # "active"
                   /\ job' = [job EXCEPT ![kind].state = "active"]
              ELSE kind \notin Jobs /\ UNCHANGED job

\* A run begins when the worker takes a job, or by hand.
LEMMA Beginning ==
  ASSUME TypeInv, Take \/ (\E r \in Runs : \E kind \in Kinds \ Jobs : StartByHand(r, kind))
  PROVE  \E r \in Runs, kind \in Kinds, owned \in BOOLEAN : Begins(r, kind, owned)
<1>1. CASE Take
  <2>1. PICK k \in Jobs, r \in Runs :
          /\ job[k].state = "waiting" /\ Free(r)
          /\ job' = [job EXCEPT ![k].state = "active"]
          /\ Start(r, k, TRUE)
    BY <1>1 DEF Take
  <2>2. Begins(r, k, TRUE) /\ k \in Kinds
    BY <1>1, <2>1 DEF Take, Begins, Free, Kinds
  <2> QED
    BY <2>2
<1>2. ASSUME NEW r \in Runs, NEW kind \in Kinds \ Jobs, StartByHand(r, kind)
      PROVE  Begins(r, kind, FALSE)
  BY <1>2 DEF StartByHand, Begins, Free, jobVars
<1> QED
  BY <1>1, <1>2

\* POST sync/all begins two runs at once, with no job.
BeginBoth(r, q) ==
  /\ "manualAll" \in scene.manual /\ r # q /\ UNCHANGED job
  /\ run' = [run EXCEPT ![r] = Fresh("manualAll", FALSE, "TC"),
                        ![q] = Fresh("manualAll", FALSE, "TEP")]

\* Runs are integers, so that one of two is the first.
LEMMA BeginningAll ==
  ASSUME NEW r \in Runs, NEW q \in Runs, StartAll(r, q)
  PROVE  BeginBoth(r, q)
BY SyncAssumption DEF StartAll, BeginBoth, jobVars

\* The first feed of a run of some kind.
First(kind) == IF kind = "manualTep" THEN "TEP" ELSE "TC"

\* A fresh run begins with its first feed, and has loaded nothing.
LEMMA FreshRun ==
  ASSUME NEW kind \in Kinds, NEW owned \in BOOLEAN, NEW src \in Sources, owned => kind \in Jobs
  PROVE  LET w == Fresh(kind, owned, src) IN
           /\ w \in RunRow /\ RunFits(w)
           /\ w.at = "clear" /\ w.kind = kind /\ w.owned = owned
           /\ w.feed = [s \in Sources |-> -1]
<1> DEFINE w == [Idle EXCEPT !.kind = kind, !.at = "clear", !.owned = owned, !.src = src]
<1>1. Idle \in RunRow /\ Idle.feed = [s \in Sources |-> -1]
  BY IdleFits DEF Idle
<1>2. w \in RunRow
  BY <1>1 DEF RunRow, Stages
<1>3. w.at = "clear" /\ w.kind = kind /\ w.owned = owned /\ w.feed = [s \in Sources |-> -1]
  BY <1>1 DEF RunRow
<1>4. RunFits(w)
  <2> HIDE DEF w
  <2> QED
    BY <1>3 DEF RunFits
<1> QED
  BY <1>2, <1>3, <1>4 DEF Fresh

\* How a run begins.
LEMMA Begun ==
  ASSUME NEW r \in Runs, NEW kind \in Kinds, NEW owned \in BOOLEAN, Begins(r, kind, owned)
  PROVE  LET w == Fresh(kind, owned, First(kind)) IN
           /\ run' = [run EXCEPT ![r] = w]
           /\ w \in RunRow /\ RunFits(w)
           /\ w.at = "clear" /\ w.kind = kind /\ w.owned = owned
           /\ w.feed = [s \in Sources |-> -1]
<1>1. run' = [run EXCEPT ![r] = Fresh(kind, owned, First(kind))]
  BY DEF Begins, Start, First
<1>2. First(kind) \in Sources /\ (owned => kind \in Jobs)
  BY DEF First, Sources, Begins
<1> QED
  BY <1>1, <1>2, FreshRun

\* Runs and jobs keep fitting.
LEMMA RunsKept ==
  ASSUME TypeInv, [Next]_vars
  PROVE  /\ run' \in [Runs -> RunRow] /\ job' \in [Jobs -> JobRow]
         /\ \A r \in Runs : RunFits(run'[r])
         /\ \A k \in Jobs : JobFits(job'[k])
         /\ OwnedInv'
<1>a. /\ run \in [Runs -> RunRow] /\ job \in [Jobs -> JobRow]
      /\ \A r \in Runs : RunFits(run[r])
      /\ \A k \in Jobs : JobFits(job[k])
      /\ \A r \in Runs : run[r].owned => job[run[r].kind].state = "active" /\ run[r].kind \in Jobs
      /\ \A r, q \in Runs : run[r].owned /\ run[q].owned => r = q
  BY DEF TypeInv, TypeOK, RunRow, JobRow, OwnedInv, RunFits
<1> DEFINE Kept == /\ run' \in [Runs -> RunRow] /\ job' \in [Jobs -> JobRow]
                   /\ \A r \in Runs : RunFits(run'[r])
                   /\ \A k \in Jobs : JobFits(job'[k])
                   /\ OwnedInv'
<1>1. ASSUME NEW r \in Runs, NEW w, Goes(r, w)
      PROVE  Kept
  <2>1. run' = [run EXCEPT ![r] = w] /\ job' = job
    BY <1>1 DEF Goes, Set
  <2>2. \A q \in Runs : run'[q].owned = run[q].owned /\ run'[q].kind = run[q].kind
    BY <1>1, <2>1, <1>a DEF Goes
  <2>3. OwnedInv'
    BY <2>1, <2>2, <1>a DEF OwnedInv
  <2>4. run' \in [Runs -> RunRow] /\ \A q \in Runs : RunFits(run'[q])
    BY <1>1, <2>1, <1>a DEF Goes
  <2> QED
    BY <2>1, <2>3, <2>4, <1>a
<1>2. ASSUME NEW r \in Runs, NEW w, Leaves(r, w)
      PROVE  Kept
  <2>1. run' = [run EXCEPT ![r] = w]
    BY <1>2 DEF Leaves, Set
  <2>2. PICK j \in JobRow : /\ JobFits(j) /\ j.state # "active"
                            /\ job' = IF run[r].owned THEN [job EXCEPT ![run[r].kind] = j] ELSE job
    BY <1>2 DEF Leaves
  <2>3. \A q \in Runs : run'[q].owned => q # r /\ run[q].owned /\ run'[q] = run[q]
    BY <1>2, <2>1, <1>a DEF Leaves
  <2>4. OwnedInv'
    <3>1. \A q \in Runs : run'[q].owned => job'[run'[q].kind].state = "active"
      BY <2>2, <2>3, <1>a
    <3>2. \A q, s \in Runs : run'[q].owned /\ run'[s].owned => q = s
      BY <2>3, <1>a
    <3> QED
      BY <3>1, <3>2 DEF OwnedInv
  <2>5. run' \in [Runs -> RunRow] /\ \A q \in Runs : RunFits(run'[q])
    BY <1>2, <2>1, <1>a DEF Leaves
  <2>6. job' \in [Jobs -> JobRow] /\ \A k \in Jobs : JobFits(job'[k])
    BY <2>2, <1>a
  <2> QED
    BY <2>4, <2>5, <2>6
<1>3. CASE QueueMoves
  <2>1. job' \in [Jobs -> JobRow] /\ \A k \in Jobs : JobFits(job'[k])
    BY <1>3, <1>a DEF QueueMoves
  <2>2. OwnedInv'
    BY <1>3, <1>a DEF QueueMoves, OwnedInv
  <2> QED
    BY <1>3, <2>1, <2>2, <1>a DEF QueueMoves
<1>4. ASSUME NEW r \in Runs, NEW kind \in Kinds, NEW owned \in BOOLEAN, Begins(r, kind, owned)
      PROVE  Kept
  <2>1. PICK w \in RunRow : /\ run' = [run EXCEPT ![r] = w]
                            /\ RunFits(w) /\ w.kind = kind /\ w.owned = owned
    BY <1>4, Begun
  <2>2. run' \in [Runs -> RunRow] /\ \A q \in Runs : RunFits(run'[q])
    BY <2>1, <1>a
  <2>3. CASE owned
    <3>1. job' = [job EXCEPT ![kind] = [job[kind] EXCEPT !.state = "active"]] /\ kind \in Jobs
          /\ job[kind].state = "waiting" /\ \A k \in Jobs : job[k].state # "active"
      BY <1>4, <2>3, <1>a DEF Begins
    <3>2. [job[kind] EXCEPT !.state = "active"] \in JobRow /\ JobFits([job[kind] EXCEPT !.state = "active"])
      BY <3>1, <1>a DEF JobRow, JobFits, Pending
    <3>3. job' \in [Jobs -> JobRow] /\ \A k \in Jobs : JobFits(job'[k])
      BY <3>1, <3>2, <1>a
    <3>4. \A q \in Runs : ~run[q].owned
      BY <3>1, <1>a
    <3>5. job'[kind].state = "active"
      BY <3>1, <1>a DEF JobRow
    <3>6. OwnedInv'
      BY <2>1, <3>4, <3>5, <1>a DEF OwnedInv
    <3> QED
      BY <2>2, <3>3, <3>6
  <2>4. CASE ~owned
    <3>1. job' = job
      BY <1>4, <2>4 DEF Begins
    <3>2. OwnedInv'
      BY <2>1, <2>4, <3>1, <1>a DEF OwnedInv
    <3> QED
      BY <2>2, <3>1, <3>2, <1>a
  <2> QED
    BY <2>3, <2>4
<1>5. CASE Restart
  <2>1. run' = [r \in Runs |-> Idle] /\ ~Idle.owned
    BY <1>5 DEF Restart, Idle
  <2>2. job' = [k \in Jobs |-> IF job[k].state = "active" THEN [job[k] EXCEPT !.state = "waiting"]
                               ELSE job[k]]
    BY <1>5 DEF Restart
  <2>3. \A k \in Jobs : job[k].state = "active" =>
          /\ [job[k] EXCEPT !.state = "waiting"] \in JobRow
          /\ JobFits([job[k] EXCEPT !.state = "waiting"])
    BY <1>a DEF JobRow, JobFits, Pending
  <2>4. job' \in [Jobs -> JobRow] /\ \A k \in Jobs : JobFits(job'[k])
    BY <2>2, <2>3, <1>a
  <2>5. OwnedInv'
    BY <2>1 DEF OwnedInv
  <2> QED
    BY <2>1, <2>4, <2>5, IdleFits
<1>6. ASSUME NEW r \in Runs, Drops(r)
      PROVE  Kept
  <2>1. \A q \in Runs : /\ run'[q] \in RunRow /\ RunFits(run'[q])
                        /\ run'[q].owned => run[q].owned /\ run'[q] = run[q]
    <3> SUFFICES ASSUME NEW q \in Runs
                 PROVE  /\ run'[q] \in RunRow /\ RunFits(run'[q])
                        /\ run'[q].owned => run[q].owned /\ run'[q] = run[q]
      OBVIOUS
    <3>1. CASE q = r
      BY <1>6, <3>1, IdleFits DEF Drops, Idle
    <3>2. CASE q # r /\ q \in OtherHalf(r)
      <4> DEFINE w == [run[q] EXCEPT !.kind = "dropped"]
      <4>1. run'[q] = w /\ run[q].kind = "manualAll" /\ run[q] \in RunRow /\ RunFits(run[q])
        BY <1>6, <1>a, <3>2 DEF Drops, OtherHalf
      <4>2. w \in RunRow
        BY <4>1 DEF RunRow
      <4>3. /\ w.at = run[q].at /\ w.left = run[q].left /\ w.src = run[q].src /\ w.feed = run[q].feed
            /\ w.owned = run[q].owned /\ w.kind = "dropped"
        BY <4>1 DEF RunRow
      <4>4. ~run[q].owned /\ run[q].at # "idle"
        BY <4>1 DEF RunFits, Jobs
      <4>5. RunFits(w)
        <5> HIDE DEF w
        <5> QED
          BY <4>1, <4>3, <4>4 DEF RunFits
      <4> QED
        BY <4>1, <4>2, <4>3, <4>4, <4>5
    <3>3. CASE q # r /\ q \notin OtherHalf(r)
      BY <1>6, <1>a, <3>3 DEF Drops
    <3> QED
      BY <3>1, <3>2, <3>3
  <2>2. run' \in [Runs -> RunRow] /\ job' = job
    BY <1>6, <2>1 DEF Drops
  <2>3. OwnedInv'
    BY <2>1, <2>2, <1>a DEF OwnedInv
  <2> QED
    BY <2>1, <2>2, <2>3, <1>a
<1>7. ASSUME NEW r \in Runs, NEW q \in Runs, BeginBoth(r, q)
      PROVE  Kept
  <2>1. \A s \in Sources : LET w == Fresh("manualAll", FALSE, s) IN w \in RunRow /\ RunFits(w) /\ ~w.owned
    BY FreshRun DEF Kinds
  <2>2. \A p \in Runs : /\ run'[p] \in RunRow /\ RunFits(run'[p])
                        /\ run'[p].owned => run'[p] = run[p]
    BY <1>7, <2>1, <1>a DEF BeginBoth, Sources
  <2>3. run' \in [Runs -> RunRow] /\ job' = job
    BY <1>7, <2>2, <1>a DEF BeginBoth
  <2>4. OwnedInv'
    BY <2>2, <2>3, <1>a DEF OwnedInv
  <2> QED
    BY <2>2, <2>3, <2>4, <1>a
<1>8. \/ \E r \in Runs : (\E w : Goes(r, w) \/ Leaves(r, w)) \/ Drops(r)
      \/ QueueMoves \/ Restart
      \/ \E r \in Runs, kind \in Kinds, owned \in BOOLEAN : Begins(r, kind, owned)
      \/ \E r, q \in Runs : BeginBoth(r, q)
  BY RunMoves, Queues, Beginning, BeginningAll DEF Next
<1> QED
  BY <1>1, <1>2, <1>3, <1>4, <1>5, <1>6, <1>7, <1>8

-----------------------------------------------------------------------------
(***************************************************************************)
(* Who writes what.                                                        *)
(***************************************************************************)
LEMMA SceneStays ==
  ASSUME [Next]_vars
  PROVE  UNCHANGED scene
BY DEF Next, Step, CronFull, IncrementalCheck, IncrementalAdd, Take, Retry, Clear, Load, EnsureCity,
       SyncEvent, FeedDone, Invalidate, Timeout, PassOver, Throw, Hang, StartByHand, StartAll, Restart, Miss,
       Fill, TimeToLive, FeedChanges, vars

\* Who changes what the providers offer.
LEMMA UpstreamWrites ==
  ASSUME [Next]_vars
  PROVE  upstream' = upstream \/ \E s \in Sources : FeedChanges(s)
BY DEF Next, Step, CronFull, IncrementalCheck, IncrementalAdd, Take, Retry, Clear, Load, EnsureCity,
       SyncEvent, FeedDone, Invalidate, Timeout, PassOver, Throw, Hang, StartByHand, StartAll, Restart, Miss,
       Fill, TimeToLive, feedVars, vars

\* Who writes events.
LEMMA CatalogWrites ==
  ASSUME [Next]_vars
  PROVE  catalog' = catalog \/ \E r \in Runs : SyncEvent(r)
BY DEF Next, Step, CronFull, IncrementalCheck, IncrementalAdd, Take, Retry, Clear, Load, EnsureCity,
       FeedDone, Invalidate, Timeout, PassOver, Throw, Hang, StartByHand, StartAll, Restart, Miss,
       Fill, TimeToLive, FeedChanges, feedVars, vars

\* Who changes the map of the cities a run has seen.
LEMMA CityWrites ==
  ASSUME [Next]_vars
  PROVE  cities' = cities \/ Restart \/ \E r \in Runs : Clear(r) \/ EnsureCity(r)
BY DEF Next, Step, CronFull, IncrementalCheck, IncrementalAdd, Take, Retry, Load,
       SyncEvent, FeedDone, Invalidate, Timeout, PassOver, Throw, Hang, StartByHand, StartAll, Miss,
       Fill, TimeToLive, FeedChanges, feedVars, vars

\* What may become of the cached answer.
LEMMA CacheWrites ==
  ASSUME [Next]_vars
  PROVE  /\ checked' \in {checked, TRUE, FALSE}
         /\ entry' \in {entry, reading, "none", Outdated(entry)}
         /\ reading' \in {reading, "none", "fresh", "late", Outdated(reading)}
BY DEF Next, Step, CronFull, IncrementalCheck, IncrementalAdd, Take, Retry, Clear, Load, EnsureCity,
       SyncEvent, Write, FeedDone, Invalidate, Timeout, PassOver, Throw, Hang, StartByHand, StartAll, Restart,
       Miss, Fill, TimeToLive, FeedChanges, jobVars, cacheVars, vars

\* Faults are counted one by one, up to their bound.
LEMMA FaultWrites ==
  ASSUME [Next]_vars
  PROVE  faults' = faults \/ (faults < MaxFaults /\ faults' = faults + 1)
BY DEF Next, Step, CronFull, IncrementalCheck, IncrementalAdd, Take, Retry, Clear, Load, EnsureCity,
       SyncEvent, FeedDone, Invalidate, Timeout, PassOver, Throw, Hang, StartByHand, StartAll, Restart, Miss,
       Fill, TimeToLive, FeedChanges, Fault, vars

\* The cities stay those of their feed, the catalog shows what was loaded.
LEMMA TablesKept ==
  ASSUME TypeInv, [Next]_vars
  PROVE  TypeOK' /\ cities' \in [Sources -> SUBSET Cities]
<1>a. /\ TypeOK /\ run \in [Runs -> RunRow] /\ \A r \in Runs : RunFits(run[r])
      /\ MaxVersion \in Nat /\ MaxFaults \in Nat
      /\ upstream \in [Sources -> 0..MaxVersion]
      /\ catalog \in [Events -> [city : Cities, version : 0..MaxVersion] \cup {Absent}]
      /\ cities \in [Sources -> SUBSET Cities]
      /\ \A s \in Sources : cities[s] \subseteq CitiesOf(s)
      /\ checked \in BOOLEAN /\ {entry, reading} \subseteq {"none", "fresh", "stale", "late"}
      /\ faults \in 0..MaxFaults
  BY SyncAssumption DEF TypeInv, TypeOK, RunRow
<1>b. run' \in [Runs -> RunRow] /\ job' \in [Jobs -> JobRow]
  BY RunsKept
<1>c. UNCHANGED scene
  BY SceneStays
<1>d. \A s \in Sources : CitiesOf(s) \subseteq Cities
  BY DEF Cities
\* Places for events.
<1>e. NoCity \notin Cities
  BY SyncAssumption DEF Cities, CitiesOf
<1>f. \A e \in Events : Home[e] \in Cities
  BY SyncAssumption DEF Cities, CitiesOf
<1>g. \A known \in SUBSET Cities : \A e \in Events : Place(e, known) \in Cities \cup {NoCity}
  BY <1>a, <1>f DEF Place, Absent
<1>1. upstream' \in [Sources -> 0..MaxVersion]
  <2>1. upstream' = upstream \/ \E s \in Sources : FeedChanges(s)
    BY UpstreamWrites
  <2> QED
    BY <2>1, <1>a DEF FeedChanges
<1>2. catalog' \in [Events -> [city : Cities, version : 0..MaxVersion] \cup {Absent}]
  <2>1. ASSUME NEW r \in Runs, SyncEvent(r)
        PROVE  catalog' \in [Events -> [city : Cities, version : 0..MaxVersion] \cup {Absent}]
    <3> DEFINE s == run[r].src
               v == run[r].feed[s]
    <3>1. v \in 0..MaxVersion /\ run[r].todo \subseteq Events /\ s \in Sources
      BY <2>1, <1>a DEF SyncEvent, At, RunFits, RunRow
    <3>2. PICK e \in run[r].todo :
            catalog' = catalog \/
            (Place(e, cities[s]) # NoCity
              /\ catalog' = [catalog EXCEPT ![e] = [city |-> Place(e, cities[s]), version |-> v]])
      BY <2>1 DEF SyncEvent, Write
    <3>3. e \in Events /\ Place(e, cities[s]) \in Cities \cup {NoCity}
      BY <3>1, <1>a, <1>g
    <3> QED
      BY <3>1, <3>2, <3>3, <1>a
  <2> QED
    BY <2>1, <1>a, CatalogWrites
<1>3. cities' \in [Sources -> SUBSET Cities] /\ \A s \in Sources : cities'[s] \subseteq CitiesOf(s)
  <2>1. ASSUME NEW r \in Runs, Clear(r)
        PROVE  cities' \in [Sources -> SUBSET Cities] /\ \A s \in Sources : cities'[s] \subseteq CitiesOf(s)
    BY <2>1, <1>a DEF Clear
  <2>2. ASSUME NEW r \in Runs, EnsureCity(r)
        PROVE  cities' \in [Sources -> SUBSET Cities] /\ \A s \in Sources : cities'[s] \subseteq CitiesOf(s)
    <3>1. run[r].src \in Sources /\ run[r].left \subseteq CitiesOf(run[r].src)
      BY <2>2, <1>a DEF EnsureCity, At, RunFits, RunRow
    <3>2. PICK c \in run[r].left : cities' = [cities EXCEPT ![run[r].src] = @ \cup {c}]
      BY <2>2 DEF EnsureCity
    <3> QED
      BY <3>1, <3>2, <1>a, <1>d
  <2>3. CASE Restart
    BY <2>3 DEF Restart
  <2> QED
    BY <2>1, <2>2, <2>3, <1>a, CityWrites
<1>4. checked' \in BOOLEAN /\ {entry', reading'} \subseteq {"none", "fresh", "stale", "late"}
  BY <1>a, CacheWrites DEF Outdated
<1>5. faults' \in 0..MaxFaults
  BY <1>a, FaultWrites
<1> QED
  BY <1>a, <1>b, <1>c, <1>1, <1>2, <1>3, <1>4, <1>5 DEF TypeOK, RunRow, JobRow

\* Runs and jobs have their types, and fit each other, in every reachable state.
LEMMA TypesHold == Spec => []TypeInv
<1>1. Init => TypeInv
  <2> SUFFICES ASSUME Init PROVE TypeInv
    OBVIOUS
  <2>1. /\ run \in [Runs -> RunRow] /\ (\A r \in Runs : RunFits(run[r]) /\ ~run[r].owned)
        /\ job \in [Jobs -> JobRow] /\ \A k \in Jobs : JobFits(job[k])
    <3>1. ~Idle.owned
      BY DEF Idle
    <3>2. run = [r \in Runs |-> Idle] /\ job = [k \in Jobs |-> [state |-> "absent", tries |-> 0]]
      BY DEF Init
    <3>3. run \in [Runs -> RunRow] /\ \A r \in Runs : RunFits(run[r]) /\ ~run[r].owned
      BY <3>1, <3>2, IdleFits
    <3>4. job \in [Jobs -> JobRow] /\ \A k \in Jobs : JobFits(job[k])
      BY <3>2, SyncAssumption DEF JobRow, JobFits, Pending
    <3> QED
      BY <3>3, <3>4
  <2>2. OwnedInv
    BY <2>1 DEF OwnedInv
  <2>3. TypeOK
    <3>1. catalog \in [Events -> [city : Cities, version : 0..MaxVersion] \cup {Absent}]
      BY DEF Init
    <3>2. upstream \in [Sources -> 0..MaxVersion] /\ faults \in 0..MaxFaults
      BY SyncAssumption DEF Init
    <3>3. \A s \in Sources : cities[s] \subseteq CitiesOf(s)
      BY DEF Init
    <3>4. /\ scene \in Scenes /\ checked \in BOOLEAN
          /\ entry \in {"none", "fresh", "stale", "late"} /\ reading \in {"none", "fresh", "stale", "late"}
      BY DEF Init
    <3> QED
      BY <2>1, <3>1, <3>2, <3>3, <3>4 DEF TypeOK, RunRow, JobRow
  <2> QED
    BY <2>1, <2>2, <2>3 DEF TypeInv, Init
<1>2. TypeInv /\ [Next]_vars => TypeInv'
  <2> SUFFICES ASSUME TypeInv, [Next]_vars PROVE TypeInv'
    OBVIOUS
  <2> QED
    BY RunsKept, TablesKept DEF TypeInv
<1> QED
  BY <1>1, <1>2, PTL DEF Spec

\* Every variable has its type, whatever fails and whoever starts a run.
THEOREM TypeCorrect == Spec => []TypeOK
BY TypesHold, PTL DEF TypeInv

-----------------------------------------------------------------------------
\* A run that takes a step is under way.
LEMMA Moving ==
  ASSUME TypeInv, NEW r \in Runs, Step(r) \/ Timeout(r) \/ PassOver(r) \/ Throw(r) \/ Hang(r)
  PROVE  ~At(r, "idle")
<1>1. run[r].owned => ~At(r, "idle")
  BY RunRows DEF RunFits, At
<1> QED
  BY <1>1 DEF Step, Clear, Load, EnsureCity, SyncEvent, FeedDone, Invalidate, Timeout, PassOver, Throw,
              Hang, At

\* While every run owns its job there is one at most, and none begins beside it.
LEMMA OneRun ==
  ASSUME TypeInv, AloneInv, Alone
  PROVE  /\ \A r, q \in Runs : ~At(r, "idle") /\ ~At(q, "idle") => r = q
         /\ \A r \in Runs : \A kind, owned : Begins(r, kind, owned) => owned # FALSE /\ Underway = {}
<1>1. /\ \A r \in Runs : ~At(r, "idle") => run[r].owned
      /\ \A r \in Runs : run[r].owned => job[run[r].kind].state = "active" /\ run[r].kind \in Jobs
      /\ \A r, q \in Runs : run[r].owned /\ run[q].owned => r = q
  BY DEF TypeInv, AloneInv, OwnedInv, RunFits
<1>2. ASSUME NEW r \in Runs, NEW kind, NEW owned, Begins(r, kind, owned)
      PROVE  owned # FALSE /\ Underway = {}
  <2>1. owned # FALSE
    BY <1>2 DEF Begins, Alone
  <2>2. owned => \A k \in Jobs : job[k].state # "active"
    BY <1>2 DEF Begins
  <2>3. owned
    BY <1>2, <2>1 DEF Begins, Alone
  <2> QED
    BY <2>1, <2>2, <2>3, <1>1 DEF Underway, At
<1> QED
  BY <1>1, <1>2

\* Where nobody starts a run by hand, every run owns the job it runs.
LEMMA AloneKept ==
  ASSUME TypeInv, AloneInv, [Next]_vars
  PROVE  AloneInv'
<1> SUFFICES ASSUME Alone, NEW q \in Runs, run'[q].at # "idle"
             PROVE  run'[q].owned
  BY SceneStays DEF AloneInv, Alone, At
<1>a. run \in [Runs -> RunRow] /\ \A r \in Runs : ~At(r, "idle") => run[r].owned
  BY DEF TypeInv, TypeOK, RunRow, AloneInv
<1>1. ASSUME NEW r \in Runs, NEW w, ~At(r, "idle"), Goes(r, w) \/ Leaves(r, w)
      PROVE  run'[q].owned
  <2>1. w = Idle \/ w.owned
    BY <1>1, <1>a DEF Goes, Leaves, Alone
  <2> QED
    BY <1>1, <2>1, <1>a DEF Goes, Leaves, Set, At, Idle
<1>2. ASSUME NEW r \in Runs, NEW kind \in Kinds, NEW owned \in BOOLEAN, Begins(r, kind, owned)
      PROVE  run'[q].owned
  <2> DEFINE w == Fresh(kind, owned, First(kind))
  <2>1. run' = [run EXCEPT ![r] = w] /\ w.owned = owned
    BY <1>2, Begun
  <2>2. owned # FALSE
    BY <1>2, OneRun
  <2> HIDE DEF w
  <2> QED
    BY <2>1, <2>2, <1>a DEF At
<1>3. CASE Restart
  BY <1>3 DEF Restart, Idle
<1>4. CASE QueueMoves
  BY <1>4, <1>a DEF QueueMoves, At
<1>d. ASSUME NEW r \in Runs, ~At(r, "idle")
      PROVE  ~Drops(r)
  BY <1>d, <1>a, RunRows DEF Drops, Jobs
<1>b. \A r, p \in Runs : ~StartAll(r, p)
  BY DEF StartAll, Alone
<1>5. \/ \E r \in Runs : ~At(r, "idle") /\ \E w : Goes(r, w) \/ Leaves(r, w)
      \/ QueueMoves \/ Restart
      \/ \E r \in Runs, kind \in Kinds, owned \in BOOLEAN : Begins(r, kind, owned)
  BY <1>d, <1>b, RunMoves, Moving, Queues, Beginning DEF Next
<1> QED
  BY <1>1, <1>2, <1>3, <1>4, <1>5

-----------------------------------------------------------------------------
\* A run on its own accounts for every event it has loaded: the cities its
\* feed names are known by the time it comes to the events, so none is passed
\* over.
LEMMA AfterFeedCovers ==
  ASSUME TypeInv, NEW r \in Runs, AfterFeed(r), Covers(run[r], catalog), Ahead(run[r]) = {},
         UNCHANGED catalog
  PROVE  Accounts(run'[r], cities', catalog')
<1>a. run \in [Runs -> RunRow] /\ run[r] \in RunRow
  BY RunRows
<1>1. \A e \in Events : catalog[e].version >= run[r].feed[Source[e]]
  BY DEF Covers
<1>2. PICK w : w = run'[r]
  OBVIOUS
<1>3. w = Idle \/ (w.at \in {"clear", "invalidate"} /\ w.feed = run[r].feed)
  <2>1. \/ run' = [run EXCEPT ![r] = [run[r] EXCEPT !.at = "clear", !.src = "TEP", !.rest = FALSE]]
        \/ run' = [run EXCEPT ![r] = Idle]
        \/ run' = [run EXCEPT ![r] = [run[r] EXCEPT !.at = "invalidate", !.rest = FALSE]]
    BY DEF AfterFeed, Set, End
  <2>2. \/ w = [run[r] EXCEPT !.at = "clear", !.src = "TEP", !.rest = FALSE]
        \/ w = Idle
        \/ w = [run[r] EXCEPT !.at = "invalidate", !.rest = FALSE]
    BY <2>1, <1>2, <1>a
  <2> QED
    BY <2>2, <1>a DEF RunRow
<1>4. CASE w = Idle
  BY <1>2, <1>4 DEF Accounts, Idle
<1>5. CASE w.at \in {"clear", "invalidate"} /\ w.feed = run[r].feed
  <2>1. Covers(w, catalog')
    BY <1>1, <1>5 DEF Covers, Ahead
  <2>2. Knows(w, cities')
    BY <1>5 DEF Knows
  <2> QED
    BY <1>2, <2>1, <2>2 DEF Accounts
<1> QED
  BY <1>3, <1>4, <1>5

\* No step lets a run forget an event that it has still to write.
LEMMA CoverKept ==
  ASSUME TypeInv, AloneInv, CoverInv, [Next]_vars
  PROVE  CoverInv'
<1> SUFFICES ASSUME Alone, "throw" \notin scene.failures, NEW q \in Runs, run'[q].at \notin {"idle", "hung"}
             PROVE  Accounts(run'[q], cities', catalog')
  BY SceneStays DEF CoverInv, Alone, Accounts
<1>a. /\ run \in [Runs -> RunRow] /\ \A r \in Runs : RunFits(run[r])
      /\ \A r \in Runs : Accounts(run[r], cities, catalog)
      /\ catalog \in [Events -> [city : Cities, version : 0..MaxVersion] \cup {Absent}]
      /\ cities \in [Sources -> SUBSET Cities]
      /\ upstream \in [Sources -> 0..MaxVersion] /\ MaxVersion \in Nat
  BY SyncAssumption DEF TypeInv, TypeOK, RunRow, CoverInv
<1>v. \A e \in Events : catalog[e].version \in Int /\ catalog[e].version >= -1
  BY <1>a DEF Absent
<1>1. ASSUME NEW r \in Runs, Step(r) \/ Timeout(r) \/ PassOver(r) \/ Throw(r) \/ Hang(r)
      PROVE  Accounts(run'[q], cities', catalog')
  <2>a. run[r] \in RunRow /\ run[r].src \in Sources /\ RunFits(run[r])
    BY <1>a DEF RunRow
  <2>b. PICK w : w = run'[r]
    OBVIOUS
  <2>c. r = q
    <3>1. ~At(r, "idle") /\ \E x : run' = [run EXCEPT ![r] = x]
      BY <1>1, Moving, RunMoves DEF Goes, Leaves, Set, Throw, Fault
    <3>2. q # r => run'[q] = run[q]
      BY <3>1, <1>a
    <3> QED
      BY <3>1, <3>2, OneRun DEF At
  <2>n. SUFFICES Accounts(w, cities', catalog')
    BY <2>b, <2>c
  <2>d. \A x : Set(r, x) => w = x
    BY <2>b, <1>a DEF Set
  <2>e. run[r].at \notin {"idle", "hung"} => Knows(run[r], cities) /\ Covers(run[r], catalog)
    BY <1>a DEF Accounts
  <2>1. CASE Clear(r)
    <3>1. Covers(run[r], catalog) /\ Ahead(run[r]) = {} /\ UNCHANGED catalog
      BY <2>1, <2>e DEF Clear, At, Ahead
    <3>2. CASE AfterFeed(r)
      BY <3>1, <3>2, <2>b, AfterFeedCovers
    <3>3. CASE run[r].src = "TC" /\ Set(r, [run[r] EXCEPT !.at = "load"])
      <4>1. w.at = "load" /\ w.src = "TC" /\ w.feed = run[r].feed
        BY <3>3, <2>a, <2>d DEF RunRow
      <4> QED
        BY <4>1, <3>1 DEF Accounts, Knows, Covers, Ahead
    <3>4. CASE run[r].src = "TEP" /\ Set(r, [run[r] EXCEPT !.at = "cities", !.left = CitiesOf("TEP")])
      <4>1. w.at = "cities" /\ w.src = "TEP" /\ w.feed = run[r].feed /\ w.left = CitiesOf("TEP")
        BY <3>4, <2>a, <2>d DEF RunRow
      <4> QED
        BY <4>1, <3>1 DEF Accounts, Knows, Covers, Ahead
    <3> QED
      BY <2>1, <3>2, <3>3, <3>4 DEF Clear
  <2>2. CASE Load(r)
    <3>1. Covers(run[r], catalog) /\ Ahead(run[r]) = {} /\ UNCHANGED <<catalog, cities>>
      BY <2>2, <2>e DEF Load, At, Ahead, feedVars
    <3>2. CASE AfterFeed(r)
      BY <3>1, <3>2, <2>b, AfterFeedCovers
    <3>3. CASE FallBack(r)
      <4>1. w = [run[r] EXCEPT !.at = "clear", !.rest = TRUE, !.left = {}, !.feed["TC"] = -1]
        BY <3>3, <2>d DEF FallBack
      <4>2. w.at = "clear" /\ w.feed = [run[r].feed EXCEPT !["TC"] = -1]
        BY <4>1, <2>a DEF RunRow
      <4>3. \A e \in Events : w.feed[Source[e]] \in {-1, run[r].feed[Source[e]]}
        BY <4>2, <2>a, SyncAssumption DEF RunRow
      <4>4. \A e \in Events : catalog[e].version >= w.feed[Source[e]]
        BY <4>3, <3>1, <1>v DEF Covers
      <4> QED
        BY <4>2, <4>4, <3>1 DEF Accounts, Knows, Covers, Ahead
    <3>4. CASE Set(r, Loaded(r, upstream[run[r].src]))
      <4> DEFINE s == run[r].src
                 v == upstream[s]
      <4>1. /\ w.src = s /\ w.todo = Offers(s) /\ w.feed = [run[r].feed EXCEPT ![s] = v]
            /\ \/ s = "TC" /\ w.at = "cities" /\ w.left = CitiesOf("TC")
               \/ s # "TC" /\ w.at = "events"
        BY <3>4, <2>a, <2>d DEF Loaded, RunRow
      <4>2. Ahead(w) = Offers(s)
        BY <4>1, <2>a DEF Ahead
      <4>3. Covers(w, catalog')
        <5>1. \A e \in Events \ Offers(s) : w.feed[Source[e]] = run[r].feed[Source[e]]
          BY <4>1, <2>a, SyncAssumption DEF Offers, RunRow
        <5> QED
          BY <5>1, <4>2, <3>1 DEF Covers
      <4>4. s # "TC" => CitiesOf(s) \subseteq cities[s]
        BY <2>2, <2>a, <2>e DEF Load, At, Knows, Sources
      <4>5. Knows(w, cities')
        BY <4>1, <4>4, <3>1 DEF Knows
      <4> QED
        BY <4>3, <4>5 DEF Accounts
    <3> QED
      BY <2>2, <3>2, <3>3, <3>4 DEF Load
  <2>3. CASE EnsureCity(r)
    <3>1. Covers(run[r], catalog) /\ Knows(run[r], cities) /\ run[r].at = "cities" /\ UNCHANGED catalog
      BY <2>3, <2>e DEF EnsureCity, At
    <3>2. PICK c \in run[r].left :
            /\ cities' = [cities EXCEPT ![run[r].src] = @ \cup {c}]
            /\ Set(r, IF run[r].left = {c} THEN CitiesDone(r) ELSE [run[r] EXCEPT !.left = @ \ {c}])
      BY <2>3 DEF EnsureCity
    <3>3. cities'[run[r].src] = cities[run[r].src] \cup {c}
      BY <3>2, <2>a, <1>a
    <3>4. /\ CitiesOf(run[r].src) \ run[r].left \subseteq cities[run[r].src]
          /\ run[r].src = "TC" => run[r].todo = Offers("TC")
      BY <3>1 DEF Knows
    <3>5. CASE run[r].left = {c}
      <4>1. /\ w.src = run[r].src /\ w.feed = run[r].feed /\ w.todo = run[r].todo
            /\ w.at = IF run[r].src = "TC" THEN "events" ELSE "load"
        BY <3>2, <3>5, <2>a, <2>d DEF CitiesDone, RunRow
      <4>2. CitiesOf(w.src) \subseteq cities'[w.src]
        BY <4>1, <3>3, <3>4, <3>5
      <4>3. Ahead(w) = Ahead(run[r])
        BY <4>1, <3>1, <3>4 DEF Ahead
      <4>4. Covers(w, catalog')
        BY <4>1, <4>3, <3>1 DEF Covers
      <4>5. Knows(w, cities')
        BY <4>1, <4>2, <3>4 DEF Knows
      <4> QED
        BY <4>4, <4>5 DEF Accounts
    <3>6. CASE run[r].left # {c}
      <4>1. /\ w.src = run[r].src /\ w.feed = run[r].feed /\ w.todo = run[r].todo
            /\ w.at = "cities" /\ w.left = run[r].left \ {c}
        BY <3>1, <3>2, <3>6, <2>a, <2>d DEF RunRow
      <4>2. CitiesOf(w.src) \ w.left \subseteq cities'[w.src]
        BY <4>1, <3>3, <3>4
      <4>3. Ahead(w) = Ahead(run[r])
        BY <4>1, <3>1 DEF Ahead
      <4>4. Covers(w, catalog')
        BY <4>1, <4>3, <3>1 DEF Covers
      <4>5. Knows(w, cities')
        BY <4>1, <4>2, <3>4 DEF Knows
      <4> QED
        BY <4>4, <4>5 DEF Accounts
    <3> QED
      BY <3>5, <3>6
  <2>4. CASE SyncEvent(r)
    <3> DEFINE s == run[r].src
    <3>1. /\ Covers(run[r], catalog) /\ run[r].at = "events" /\ UNCHANGED cities
          /\ CitiesOf(s) \subseteq cities[s] /\ run[r].todo \subseteq Offers(s)
      BY <2>4, <2>e DEF SyncEvent, At, Knows
    <3>2. PICK e \in run[r].todo :
            /\ IF Place(e, cities[s]) = NoCity THEN UNCHANGED <<catalog, entry, reading>>
               ELSE Write(e, [city |-> Place(e, cities[s]), version |-> run[r].feed[s]])
            /\ Set(r, [run[r] EXCEPT !.todo = @ \ {e}])
      BY <2>4 DEF SyncEvent
    <3>3. e \in Events /\ Source[e] = s
      BY <3>1 DEF Offers
    <3>4. Home[e] \in cities[s] /\ Home[e] # NoCity
      BY <3>1, <3>3, SyncAssumption DEF CitiesOf
    <3>5. NoCity \notin Cities
      BY SyncAssumption DEF Cities, CitiesOf
    <3>6. Place(e, cities[s]) # NoCity
      BY <3>3, <3>4, <3>5, <1>a DEF Place
    <3>7. catalog' = [catalog EXCEPT ![e] = [city |-> Place(e, cities[s]), version |-> run[r].feed[s]]]
      BY <3>2, <3>6 DEF Write
    <3>8. /\ w.at = "events" /\ w.src = s /\ w.feed = run[r].feed
          /\ w.todo = run[r].todo \ {e}
      BY <3>1, <3>2, <2>a, <2>d DEF RunRow
    <3>9. catalog'[e].version >= w.feed[Source[e]]
      <4>1. catalog'[e].version = run[r].feed[s] /\ run[r].feed[s] \in Int
        BY <3>7, <3>3, <2>a, <1>a DEF RunRow
      <4> QED
        BY <4>1, <3>3, <3>8
    <3>10. Covers(w, catalog')
      BY <3>1, <3>7, <3>8, <3>9, <1>a DEF Covers, Ahead
    <3>11. Knows(w, cities')
      BY <3>1, <3>8 DEF Knows
    <3> QED
      BY <3>10, <3>11 DEF Accounts
  <2>5. CASE FeedDone(r)
    <3>1. Covers(run[r], catalog) /\ Ahead(run[r]) = {} /\ UNCHANGED catalog
      BY <2>5, <2>e DEF FeedDone, At, Ahead, feedVars
    <3> QED
      BY <2>5, <3>1, <2>b, AfterFeedCovers DEF FeedDone
  <2>6. CASE Invalidate(r)
    <3>1. w = Idle
      BY <2>6, <2>d DEF Invalidate, End
    <3> QED
      BY <3>1 DEF Idle, Accounts
  <2>7. CASE Hang(r)
    <3>1. w = [run[r] EXCEPT !.at = "hung"]
      BY <2>7, <2>d DEF Hang
    <3>2. w.at = "hung"
      BY <3>1, <2>a DEF RunRow
    <3> QED
      BY <3>2 DEF Accounts
  <2>8. CASE Timeout(r)
    <3>1. At(r, "hung")
      BY <2>8 DEF Timeout, Fault, Alone
    <3>2. w = Idle
      BY <2>8, <3>1, <2>d DEF Timeout, Set
    <3> QED
      BY <3>2 DEF Idle, Accounts
  <2>9. ~PassOver(r) /\ ~Throw(r)
    BY DEF PassOver, Throw, Fault
  <2> QED
    BY <1>1, <2>1, <2>2, <2>3, <2>4, <2>5, <2>6, <2>7, <2>8, <2>9 DEF Step
<1>2. ASSUME NEW r \in Runs, NEW kind \in Kinds, NEW owned \in BOOLEAN, Begins(r, kind, owned)
      PROVE  Accounts(run'[q], cities', catalog')
  <2> DEFINE w == Fresh(kind, owned, First(kind))
  <2>a. Underway = {}
    BY <1>2, OneRun
  <2>b. run' = [run EXCEPT ![r] = w]
    BY <1>2, Begun
  <2>1. Underway = {} /\ run' = [run EXCEPT ![r] = w]
    BY <2>a, <2>b
  <2>2. q = r
    BY <2>1, <1>a DEF Underway
  <2>3. w.at = "clear" /\ w.feed = [s \in Sources |-> -1]
    BY <1>2, Begun
  <2>4. catalog' = catalog
    BY CatalogWrites, <1>2, <2>1, Moving DEF SyncEvent, At, Underway
  <2>5. \A e \in Events : catalog'[e].version >= w.feed[Source[e]]
    BY <2>3, <2>4, <1>v, SyncAssumption
  <2> HIDE DEF w
  <2> QED
    BY <2>1, <2>2, <2>3, <2>5, <1>a DEF Accounts, Knows, Covers, Ahead
<1>3. CASE Restart
  BY <1>3 DEF Restart, Idle
<1>4. CASE /\ \/ CronFull \/ IncrementalCheck \/ IncrementalAdd
              \/ \E k \in Jobs : Retry(k)
              \/ Miss \/ Fill \/ TimeToLive
              \/ \E s \in Sources : FeedChanges(s)
              \/ UNCHANGED vars
  <2>1. UNCHANGED <<run, catalog, cities>>
    BY <1>4 DEF CronFull, IncrementalCheck, IncrementalAdd, Retry, Miss, Fill, TimeToLive, FeedChanges,
                feedVars, vars
  <2> QED
    BY <2>1, <1>a
<1>5. \A r, p \in Runs : ~StartAll(r, p)
  BY DEF StartAll, Alone
<1> QED
  BY <1>1, <1>2, <1>3, <1>4, <1>5, Beginning DEF Next

-----------------------------------------------------------------------------
\* Only the run that empties the cache comes to its end, or the first half of
\* POST sync/all while the other is under way: a run that does anything else is
\* still under way, and is none that ends without emptying the cache.
LEMMA RunStays ==
  ASSUME TypeInv, NEW r \in Runs, run[r].kind \notin {"manualTc", "dropped"},
         scene.failures \cap {"throw", "hang", "redis", "restart"} = {}, ~At(r, "hung"),
         Step(r) \/ Timeout(r) \/ PassOver(r) \/ Throw(r) \/ Hang(r), ~Invalidate(r)
  PROVE  \/ \E w : Set(r, w) /\ w.at \notin {"idle", "hung"} /\ w.kind = run[r].kind
         \/ Set(r, Idle) /\ OtherHalf(r) # {}
<1>a. run[r] \in RunRow /\ ~At(r, "idle")
  BY RunRows, Moving
<1>0. CASE AfterFeed(r) /\ OtherHalf(r) # {}
  <2>1. run[r].kind # "full"
    BY <1>0 DEF OtherHalf
  <2> QED
    BY <1>0, <2>1 DEF AfterFeed, End
<1>1. CASE AfterFeed(r) /\ OtherHalf(r) = {}
  <2>1. PICK w \in {[run[r] EXCEPT !.at = "clear", !.src = "TEP", !.rest = FALSE],
                    [run[r] EXCEPT !.at = "invalidate", !.rest = FALSE]} : Set(r, w)
    BY <1>1 DEF AfterFeed
  <2>2. w.at \in {"clear", "invalidate"} /\ w.kind = run[r].kind
    BY <1>a, <2>1 DEF RunRow
  <2> QED
    BY <2>1, <2>2
<1>2. CASE FallBack(r)
  <2> DEFINE w == [run[r] EXCEPT !.at = "clear", !.rest = TRUE, !.left = {}, !.feed["TC"] = -1]
  <2>1. w.at = "clear" /\ w.kind = run[r].kind
    BY <1>a DEF RunRow
  <2> QED
    BY <1>2, <2>1 DEF FallBack
<1>3. CASE Clear(r) /\ ~AfterFeed(r)
  <2>1. PICK w \in {[run[r] EXCEPT !.at = "load"],
                    [run[r] EXCEPT !.at = "cities", !.left = CitiesOf("TEP")]} : Set(r, w)
    BY <1>3 DEF Clear
  <2>2. w.at \in {"load", "cities"} /\ w.kind = run[r].kind
    BY <1>a, <2>1 DEF RunRow
  <2> QED
    BY <2>1, <2>2
<1>4. CASE Load(r) /\ ~AfterFeed(r) /\ ~FallBack(r)
  <2> DEFINE w == Loaded(r, upstream[run[r].src])
  <2>1. Set(r, w)
    BY <1>4 DEF Load
  <2>2. w.at \in {"cities", "events"} /\ w.kind = run[r].kind
    BY <1>a DEF Loaded, RunRow
  <2> QED
    BY <2>1, <2>2
<1>5. CASE EnsureCity(r)
  <2>1. PICK c \in run[r].left :
          Set(r, IF run[r].left = {c} THEN CitiesDone(r) ELSE [run[r] EXCEPT !.left = @ \ {c}])
    BY <1>5 DEF EnsureCity
  <2>2. CitiesDone(r).at \in {"events", "load"} /\ CitiesDone(r).kind = run[r].kind
    BY <1>a DEF CitiesDone, RunRow
  <2>3. LET w == [run[r] EXCEPT !.left = @ \ {c}] IN w.at = "cities" /\ w.kind = run[r].kind
    BY <1>a, <1>5 DEF EnsureCity, At, RunRow
  <2> QED
    BY <2>1, <2>2, <2>3
<1>6. CASE SyncEvent(r) \/ PassOver(r)
  <2>1. PICK e \in run[r].todo : Set(r, [run[r] EXCEPT !.todo = @ \ {e}])
    BY <1>6 DEF SyncEvent, PassOver
  <2>2. LET w == [run[r] EXCEPT !.todo = @ \ {e}] IN w.at = "events" /\ w.kind = run[r].kind
    BY <1>a, <1>6 DEF SyncEvent, PassOver, At, RunRow
  <2> QED
    BY <2>1, <2>2
<1>7. CASE Timeout(r)
  <2> DEFINE w == [run[r] EXCEPT !.owned = FALSE, !.aborted = TRUE]
  <2>1. Set(r, w)
    BY <1>7 DEF Timeout, Set
  <2>2. w.at = run[r].at /\ w.kind = run[r].kind
    BY <1>a DEF RunRow
  <2> QED
    BY <1>a, <2>1, <2>2 DEF At
<1>8. ~Throw(r) /\ ~Hang(r) /\ (FeedDone(r) => AfterFeed(r))
  BY DEF Throw, Hang, Fault, FeedDone
<1> QED
  BY <1>0, <1>1, <1>2, <1>3, <1>4, <1>5, <1>6, <1>7, <1>8 DEF Step

\* No step leaves an outdated answer in the cache with no run under way.
LEMMA StaleKept ==
  ASSUME TypeInv, StaleInv, [Next]_vars
  PROVE  StaleInv'
<1> SUFFICES ASSUME "manualTc" \notin scene.manual, scene.failures \cap {"throw", "hang", "redis", "restart"} = {}
             PROVE  /\ "stale" \in {entry', reading'} => \E r \in Runs : run'[r].at # "idle"
                    /\ \A r \in Runs : run'[r].at # "hung" /\ run'[r].kind \notin {"manualTc", "dropped"}
  BY SceneStays DEF StaleInv, Underway, At
<1>a. /\ run \in [Runs -> RunRow]
      /\ "stale" \in {entry, reading} => \E r \in Runs : run[r].at # "idle"
      /\ \A r \in Runs : run[r].at # "hung" /\ run[r].kind \notin {"manualTc", "dropped"}
  BY DEF TypeInv, TypeOK, RunRow, StaleInv, Underway, At
<1>1. ASSUME NEW r \in Runs, Step(r) \/ Timeout(r) \/ PassOver(r) \/ Throw(r) \/ Hang(r), ~Invalidate(r)
      PROVE  /\ \E q \in Runs : run'[q].at # "idle"
             /\ \A q \in Runs : run'[q].at # "hung" /\ run'[q].kind \notin {"manualTc", "dropped"}
  <2>1. CASE \E w : Set(r, w) /\ w.at \notin {"idle", "hung"} /\ w.kind = run[r].kind
    BY <2>1, <1>a DEF Set
  <2>2. CASE Set(r, Idle) /\ OtherHalf(r) # {}
    <3>1. PICK p \in Runs \ {r} : run[p].kind = "manualAll"
      BY <2>2 DEF OtherHalf
    <3>2. run[p].at # "idle" /\ run'[p] = run[p]
      BY <2>2, <3>1, <1>a, RunRows DEF RunFits, Set
    <3>3. \A q \in Runs : run'[q].at # "hung" /\ run'[q].kind \notin {"manualTc", "dropped"}
      BY <2>2, <1>a DEF Set, Idle
    <3> QED
      BY <3>2, <3>3
  <2> QED
    BY <2>1, <2>2, <1>1, <1>a, RunStays DEF At
<1>2. ASSUME NEW r \in Runs, Invalidate(r)
      PROVE  /\ "stale" \notin {entry', reading'}
             /\ \A q \in Runs : run'[q].at # "hung" /\ run'[q].kind \notin {"manualTc", "dropped"}
  <2>1. run' = [run EXCEPT ![r] = Idle] /\ Idle.at # "hung" /\ Idle.kind \notin {"manualTc", "dropped"}
    BY <1>2 DEF Invalidate, End, Set, Idle
  <2> QED
    BY <1>2, <2>1, <1>a DEF Invalidate, Fault
<1>3. ASSUME NEW r \in Runs, NEW kind \in Kinds, NEW owned \in BOOLEAN, Begins(r, kind, owned)
      PROVE  /\ \E q \in Runs : run'[q].at # "idle"
             /\ \A q \in Runs : run'[q].at # "hung" /\ run'[q].kind \notin {"manualTc", "dropped"}
  <2> DEFINE w == Fresh(kind, owned, First(kind))
  <2>1. kind \notin {"manualTc", "dropped"}
    BY <1>3 DEF Begins, Jobs, Kinds
  <2>2. run' = [run EXCEPT ![r] = w] /\ w.at = "clear" /\ w.kind = kind
    BY <1>3, Begun
  <2> HIDE DEF w
  <2> QED
    BY <2>1, <2>2, <1>a
<1>6. ASSUME NEW r \in Runs, NEW q \in Runs, BeginBoth(r, q)
      PROVE  /\ \E p \in Runs : run'[p].at # "idle"
             /\ \A p \in Runs : run'[p].at # "hung" /\ run'[p].kind \notin {"manualTc", "dropped"}
  <2>1. \A s \in Sources : LET w == Fresh("manualAll", FALSE, s) IN w.at = "clear" /\ w.kind = "manualAll"
    BY FreshRun DEF Kinds
  <2> QED
    BY <1>6, <2>1, <1>a DEF BeginBoth, Sources
<1>4. ~Restart
  BY DEF Restart, Fault
<1>5. CASE /\ \/ CronFull \/ IncrementalCheck \/ IncrementalAdd
              \/ \E k \in Jobs : Retry(k)
              \/ Miss \/ Fill \/ TimeToLive
              \/ \E s \in Sources : FeedChanges(s)
              \/ UNCHANGED vars
  <2>1. run' = run /\ ("stale" \in {entry', reading'} => "stale" \in {entry, reading})
    BY <1>5 DEF CronFull, IncrementalCheck, IncrementalAdd, Retry, Miss, Fill, TimeToLive, FeedChanges,
                cacheVars, vars
  <2> QED
    BY <2>1, <1>a
<1> QED
  BY <1>1, <1>2, <1>3, <1>4, <1>5, <1>6, Beginning, BeginningAll DEF Next

-----------------------------------------------------------------------------
\* Nothing is under way at the start, nothing in the catalog, nothing cached.
LEMMA QuietAtStart ==
  ASSUME Init
  PROVE  AloneInv /\ CoverInv /\ StaleInv
<1>1. \A r \in Runs : run[r] = Idle /\ run[r].at = "idle" /\ run[r].kind = "none"
  BY DEF Init, Idle
<1>2. entry = "none" /\ reading = "none"
  BY DEF Init
<1> QED
  BY <1>1, <1>2 DEF AloneInv, CoverInv, StaleInv, Accounts, At

\* The invariant the properties follow from holds throughout.
LEMMA InductiveHolds == Spec => []Inductive
<1>1. Init => AloneInv /\ CoverInv /\ StaleInv
  BY QuietAtStart
<1>2. TypeInv /\ AloneInv /\ CoverInv /\ StaleInv /\ [Next]_vars => (AloneInv /\ CoverInv /\ StaleInv)'
  BY AloneKept, CoverKept, StaleKept
<1> QED
  BY <1>1, <1>2, TypesHold, PTL DEF Spec, Inductive

\* A run that starts from the queue, alone and without an exception, has written
\* every event of what it loaded when it comes to the cache.
THEOREM FullRunCovers == Spec => []RunCovers
<1>1. Inductive => RunCovers
  <2> SUFFICES ASSUME Inductive, Alone, "throw" \notin scene.failures,
                      NEW r \in Runs, At(r, "invalidate"), NEW e \in Events
               PROVE  catalog[e].version >= run[r].feed[Source[e]]
    BY DEF RunCovers
  <2>1. Covers(run[r], catalog) /\ Ahead(run[r]) = {}
    BY DEF Inductive, CoverInv, Accounts, At, Ahead
  <2> QED
    BY <2>1 DEF Covers
<1> QED
  BY <1>1, InductiveHolds, PTL

\* Old data in the cache is gone when the run that made it old has ended,
\* whatever else runs meanwhile, POST sync/all among it, unless a reader has put
\* it back ("late"); where Redis answers, no run throws, hangs or restarts and none
\* is the manual one of Ticketscloud.
THEOREM StaleOnlyDuringRuns == Spec => []StaleWhileSyncing
<1>1. Inductive => StaleWhileSyncing
  BY DEF Inductive, StaleInv, StaleWhileSyncing
<1> QED
  BY <1>1, InductiveHolds, PTL
=============================================================================
