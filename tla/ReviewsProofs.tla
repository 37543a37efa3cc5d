----------------------------- MODULE ReviewsProofs -----------------------------
(***************************************************************************)
(* Theorems about Reviews: its types; that only what was vetted is shown,  *)
(* through every interleaving of the handlers; and that the figures shown  *)
(* with an event and a review are current when handlers have run in turn.  *)
(***************************************************************************)
EXTENDS Reviews, FiniteSetTheorems, TLAPS

-----------------------------------------------------------------------------
(***************************************************************************)
(* Types: what a handler acts on, and what it carries from one step to the *)
(* next, fits its task.                                                    *)
(***************************************************************************)
RowTasks == {"verify", "confirm", "expired", "moderate", "delete", "vote", "cast", "tally",
             "store", "answer", "writeAnswer", "resolve", "hide", "close"}
Tasks == RowTasks \cup {"idle", "check", "insert", "link", "external", "count", "rate"}
Decisions == {"APPROVED", "REJECTED"}
Arguments == {"none", "link", "up", "down", "DRAFT", "PENDING_MODERATION"} \cup Decisions
             \cup Outcomes

HandlerRow == [do : Tasks, on : Rows \cup Buyers \cup Externals \cup {Nobody}, arg : Arguments,
               read : SUBSET (Rows \cup Externals \cup Ips), of : Targets]

Fits(h) ==
  /\ h.do \in RowTasks \/ h.arg = "HIDE" => h.on \in Rows
  /\ h.do \in {"check", "insert"} => h.on \in Buyers
  /\ h.do = "external" => h.on \in Externals
  /\ h.do = "moderate" => h.arg \in Decisions
  /\ h.do \in {"vote", "cast"} => h.arg \in {"up", "down"}
  /\ h.do = "store" => h.read \subseteq Ips
  /\ h.do = "rate" => h.read \subseteq Rows \cup Externals
  /\ h.do \in {"resolve", "close"} => h.arg \in Outcomes
  /\ h.do \in {"answer", "writeAnswer"} => h.arg \in {"DRAFT", "PENDING_MODERATION"} \cup Decisions
  /\ h.do = "hide" => h.arg = "HIDE"
  /\ h.do \in {"count", "rate"} => h.arg \in {"none", "HIDE"}

ReviewRow == [status : Statuses \cup {"none"}, by : Buyers \cup {Nobody}, of : Targets,
              token : BOOLEAN, old : BOOLEAN, confirmed : BOOLEAN]
AnswerRow == [status : {"none", "DRAFT", "PENDING_MODERATION", "APPROVED", "REJECTED"},
              text : 0..2, sent : 0..2]
RequestRow == [sent : BOOLEAN, old : BOOLEAN, reminded : BOOLEAN, reviewed : BOOLEAN]

DoingOK == doing \in [Procs -> HandlerRow] /\ \A p \in Procs : Fits(doing[p])
CronRun == [do : {"idle", "ask", "remind"}, batch : SUBSET Buyers, on : Buyers \cup {Nobody}]
CronOK == cron \in CronRun

TypeInv == TypeOK /\ DoingOK /\ CronOK

-----------------------------------------------------------------------------
(***************************************************************************)
(* Vetting.  Under every overlap a review that moderators may still decide *)
(* about, and one a moderator is about to decide, is confirmed; a row that *)
(* is gone comes back only when no handler remembers it.                   *)
(***************************************************************************)
Judged == {"PENDING", "APPROVED", "REJECTED"}

ConfirmedInv ==
  scene.page =>
    /\ \A r \in Rows : review[r].status \in Judged => review[r].confirmed
    /\ \A p \in Procs : At(p, "moderate") /\ Stands(doing[p].on) => review[doing[p].on].confirmed

\* Handlers in turn: at most one is under way.
InTurn == Serial => \A p, q \in Procs : p \in Busy /\ q \in Busy => p = q

\* What a handler alone has read when it writes.
Allowed(to, r) ==
  CASE to = "DRAFT" -> Editable(r)
    [] to = "PENDING_MODERATION" -> answer[r].status = "DRAFT"
    [] OTHER -> answer[r].status = "PENDING_MODERATION"

Current(p) ==
  LET r == doing[p].on
      to == doing[p].arg IN
    /\ At(p, "moderate") /\ scene.page => review[r].status \in Judged
    /\ At(p, "confirm") => review[r].status \in {"none", "PENDING_EMAIL"}
    /\ At(p, "expired") /\ scene.page => review[r].status \in {"none", "PENDING_EMAIL", "HIDDEN"}
    /\ (doing[p].do \in {"count", "rate", "close"} /\ to = "HIDE") => Is(r, "HIDDEN")
    /\ At(p, "writeAnswer") /\ Stands(r) => Allowed(to, r)
    /\ At(p, "store") /\ Stands(r) => doing[p].read = Ups(r)
    /\ At(p, "rate") => doing[p].read = Counted(doing[p].of)

\* What no overlap has disturbed in a review, its dispute and its answer.
Sound(r) ==
  /\ scene.page /\ dispute[r] = "HIDE" => Is(r, "HIDDEN")
  /\ answer[r].status \in {"PENDING_MODERATION", "APPROVED", "REJECTED"} => answer[r].text = answer[r].sent
  /\ scene.page /\ review[r].token => review[r].status \in {"PENDING_EMAIL", "HIDDEN"}

TurnInv == Serial => (\A p \in Procs : Current(p)) /\ \A r \in Rows : Sound(r)

\* Figures that no handler is about to renew are right.
Counting(t) == \E p \in Procs : doing[p].do \in {"count", "rate"} /\ doing[p].of = t
Tallying(r) == \E p \in Procs : doing[p].do \in {"tally", "store"} /\ doing[p].on = r
Helped(r) == helpful[r] = Cardinality(Ups(r))

EventRight ==
  /\ \A r \in Rows : r \in rated["event"] <=> review[r].status = "APPROVED" /\ review[r].of = "event"
  /\ \A x \in Externals : x \in rated["event"] <=> x \in external
VenueRight ==
  \A r \in Rows : review[r].of = "venue" => (r \in rated["venue"] <=> review[r].status = "APPROVED")

FigureInv ==
  Serial /\ faults = 0 =>
    /\ \A r \in Rows : Helped(r) \/ (Tallying(r) /\ Stands(r))
    /\ scene.page => /\ EventRight \/ Counting("event")
                     /\ VenueRight \/ Counting("venue")

Inductive == TypeInv /\ ConfirmedInv /\ InTurn /\ TurnInv /\ FigureInv

-----------------------------------------------------------------------------
(***************************************************************************)
(* What requests begin, and the rows a write of several may touch.         *)
(***************************************************************************)
\* A request begins one handler, on what its role is about; the moderators'
\* page has offered what they ask for.
Opens(p, h) ==
  /\ doing[p].do = "idle" /\ Cardinality(Busy) < scene.overlap
  /\ doing' = [doing EXCEPT ![p] = h]
  /\ h \in HandlerRow /\ Fits(h)
  /\ h.do \in {"check", "external", "verify", "moderate", "delete", "vote", "answer", "resolve"}
  /\ h.do = "moderate" => Offered(h.on, h.arg)
  /\ UNCHANGED <<scene, reviewVars, voteVars, supplierVars, askVars, faults>>

\* A request only gives an idle process a task that fits it.
LEMMA Requests ==
  ASSUME Ask, TypeInv
  PROVE  \E p \in Procs : \E h : Opens(p, h)
<1>1. PICK p \in Procs :
        \/ \E b \in Buyers : Begin("create", p, "check", b, "none")
        \/ \E x \in Externals : Begin("external", p, "external", x, "none")
        \/ \E r \in Rows :
             \/ review[r].token /\ Begin("verify", p, "verify", r, "none")
             \/ \E to \in {"APPROVED", "REJECTED"} :
                  Offered(r, to) /\ Begin("moderate", p, "moderate", r, to)
             \/ Stands(r) /\ Begin("delete", p, "delete", r, "none")
             \/ \E v \in {"up", "down"} : Begin("vote", p, "vote", r, v)
             \/ \E to \in {"DRAFT", "PENDING_MODERATION", "APPROVED", "REJECTED"} :
                  Begin("answer", p, "answer", r, to)
             \/ \E o \in Outcomes : Begin("dispute", p, "resolve", r, o)
  BY DEF Ask
<1>2. SUFFICES \E h : Opens(p, h)
  OBVIOUS
<1>3. ASSUME NEW role, NEW do, NEW on, NEW arg, Begin(role, p, do, on, arg),
             [Idle EXCEPT !.do = do, !.on = on, !.arg = arg] \in HandlerRow,
             Fits([Idle EXCEPT !.do = do, !.on = on, !.arg = arg]),
             do \in {"check", "external", "verify", "moderate", "delete", "vote", "answer", "resolve"},
             do = "moderate" => Offered(on, arg)
      PROVE  \E h : Opens(p, h)
  <2> DEFINE h == [Idle EXCEPT !.do = do, !.on = on, !.arg = arg]
  <2>1. h.do = do /\ h.on = on /\ h.arg = arg
    BY DEF Idle
  <2>2. Opens(p, h)
    BY <1>3, <2>1 DEF Opens, Begin
  <2> QED
    BY <2>2
<1>4. CASE \E b \in Buyers : Begin("create", p, "check", b, "none")
  BY <1>4, <1>3 DEF Idle, HandlerRow, Fits, Tasks, RowTasks, Arguments, Targets
<1>5. CASE \E x \in Externals : Begin("external", p, "external", x, "none")
  BY <1>5, <1>3 DEF Idle, HandlerRow, Fits, Tasks, RowTasks, Arguments, Targets
<1>6. ASSUME NEW r \in Rows, review[r].token /\ Begin("verify", p, "verify", r, "none")
      PROVE  \E h : Opens(p, h)
  BY <1>6, <1>3 DEF Idle, HandlerRow, Fits, Tasks, RowTasks, Arguments, Targets
<1>7. ASSUME NEW r \in Rows, NEW to \in {"APPROVED", "REJECTED"},
             Offered(r, to) /\ Begin("moderate", p, "moderate", r, to)
      PROVE  \E h : Opens(p, h)
  BY <1>7, <1>3 DEF Idle, HandlerRow, Fits, Tasks, RowTasks, Arguments, Targets, Decisions
<1>8. ASSUME NEW r \in Rows, Begin("delete", p, "delete", r, "none")
      PROVE  \E h : Opens(p, h)
  BY <1>8, <1>3 DEF Idle, HandlerRow, Fits, Tasks, RowTasks, Arguments, Targets
<1>9. ASSUME NEW r \in Rows, NEW v \in {"up", "down"}, Begin("vote", p, "vote", r, v)
      PROVE  \E h : Opens(p, h)
  BY <1>9, <1>3 DEF Idle, HandlerRow, Fits, Tasks, RowTasks, Arguments, Targets
<1>10. ASSUME NEW r \in Rows, NEW to \in {"DRAFT", "PENDING_MODERATION", "APPROVED", "REJECTED"},
              Begin("answer", p, "answer", r, to)
       PROVE  \E h : Opens(p, h)
  BY <1>10, <1>3 DEF Idle, HandlerRow, Fits, Tasks, RowTasks, Arguments, Decisions, Targets
<1>11. ASSUME NEW r \in Rows, NEW o \in Outcomes, Begin("dispute", p, "resolve", r, o)
       PROVE  \E h : Opens(p, h)
  BY <1>11, <1>3 DEF Idle, HandlerRow, Fits, Tasks, RowTasks, Arguments, Outcomes, Targets
<1> QED
  BY <1>1, <1>4, <1>5, <1>6, <1>7, <1>8, <1>9, <1>10, <1>11

-----------------------------------------------------------------------------
\* A handler that goes on with a fitting task leaves the handlers typed.
LEMMA TaskChanges ==
  ASSUME DoingOK, NEW p \in Procs, NEW h \in HandlerRow, Fits(h), Then(p, h)
  PROVE  DoingOK'
BY DEF DoingOK, Then, Fits

\* A process that rests has a row of its own, and no task that could be out of date.
LEMMA IdleFits == Idle \in HandlerRow /\ Fits(Idle)
BY DEF Idle, HandlerRow, Fits, Tasks, RowTasks, Arguments, Targets

\* Every action keeps the handlers' tasks fitting.
LEMMA TasksKept ==
  ASSUME TypeInv, [Next]_vars
  PROVE  DoingOK'
<1> USE IdleFits
<1>a. DoingOK /\ external \subseteq Externals
  BY DEF TypeInv, TypeOK
<1>b. ASSUME NEW p \in Procs
      PROVE  doing[p] \in HandlerRow /\ Fits(doing[p])
  BY <1>a DEF DoingOK
<1>f. ASSUME NEW p \in Procs, Finish(p)
      PROVE  DoingOK'
  BY <1>a, <1>f, TaskChanges DEF Finish
<1>g. ASSUME NEW p \in Procs, NEW task \in Tasks, Go(p, task), Fits([doing[p] EXCEPT !.do = task])
      PROVE  DoingOK'
  <2>1. [doing[p] EXCEPT !.do = task] \in HandlerRow
    BY <1>b DEF HandlerRow
  <2> QED
    BY <1>a, <1>g, <2>1, TaskChanges DEF Go
<1>h. ASSUME NEW p \in Procs, NEW t \in Targets, NEW last \in {"none", "HIDE"}, Recount(p, t, last),
             last = "HIDE" => doing[p].on \in Rows
      PROVE  DoingOK'
  <2> DEFINE h == [doing[p] EXCEPT !.do = "count", !.of = t, !.arg = last]
  <2>1. h \in HandlerRow
    BY <1>b, <1>h DEF HandlerRow, Tasks, Arguments, Outcomes
  <2>2. h.do = "count" /\ h.arg = last /\ h.on = doing[p].on
    BY <1>b DEF HandlerRow
  <2>3. Fits(h)
    BY <1>h, <2>2 DEF Fits, RowTasks
  <2> QED
    BY <1>a, <1>h, <2>1, <2>3, TaskChanges DEF Recount
<1>o. ASSUME NEW r \in Rows
      PROVE  review[r].of \in Targets
  BY DEF TypeInv, TypeOK
<1>1. CASE Ask
  <2>1. PICK p \in Procs : \E h : Opens(p, h)
    BY <1>1, Requests
  <2>2. PICK h : Opens(p, h)
    BY <2>1
  <2> QED
    BY <2>2, <1>a, TaskChanges DEF Opens, Then
<1>2. ASSUME NEW p \in Procs, CreateCheck(p)
      PROVE  DoingOK'
  <2>1. doing[p].on \in Buyers /\ doing[p].do = "check"
    BY <1>2, <1>b DEF CreateCheck, At, Fits
  <2>2. ASSUME NEW t \in Targets, NEW proof \in {"none", "link"},
               Then(p, [doing[p] EXCEPT !.do = "insert", !.of = t, !.arg = proof])
        PROVE  DoingOK'
    <3> DEFINE h == [doing[p] EXCEPT !.do = "insert", !.of = t, !.arg = proof]
    <3>1. h \in HandlerRow /\ Fits(h)
      BY <1>b, <2>1 DEF HandlerRow, Fits, Tasks, RowTasks, Arguments
    <3> QED
      BY <1>a, <2>2, <3>1, TaskChanges
  <2> QED
    BY <1>2, <2>2, <1>f DEF CreateCheck
<1>3. ASSUME NEW p \in Procs, CreateInsert(p)
      PROVE  DoingOK'
  <2>1. Fits([doing[p] EXCEPT !.do = "link"]) /\ "link" \in Tasks
    BY <1>3, <1>b DEF CreateInsert, At, Fits, RowTasks, HandlerRow, Tasks
  <2> QED
    BY <1>3, <1>f, <1>g, <2>1 DEF CreateInsert
<1>4. ASSUME NEW p \in Procs, CreateLink(p) \/ VerifyConfirm(p) \/ VerifyExpired(p) \/ VoteStore(p) \/ AnswerWrite(p)
      PROVE  DoingOK'
  BY <1>4, <1>f DEF CreateLink, VerifyConfirm, VerifyExpired, VoteStore, AnswerWrite
<1>5. ASSUME NEW p \in Procs, VerifyRead(p)
      PROVE  DoingOK'
  <2>1. \A task \in {"expired", "confirm"} : Fits([doing[p] EXCEPT !.do = task]) /\ task \in Tasks
    BY <1>5, <1>b DEF VerifyRead, At, Fits, RowTasks, HandlerRow, Tasks
  <2> QED
    BY <1>5, <1>f, <1>g, <2>1 DEF VerifyRead
<1>6. ASSUME NEW p \in Procs, Moderate(p)
      PROVE  DoingOK'
  <2>1. doing[p].on \in Rows
    BY <1>6, <1>b DEF Moderate, At, Fits, RowTasks
  <2> QED
    BY <1>6, <2>1, <1>f, <1>h, <1>o DEF Moderate
<1>7. ASSUME NEW p \in Procs, Delete(p)
      PROVE  DoingOK'
  <2>1. doing[p].on \in Rows
    BY <1>7, <1>b DEF Delete, At, Fits, RowTasks
  <2> QED
    BY <1>7, <2>1, <1>f, <1>h, <1>o DEF Delete
<1>8. ASSUME NEW p \in Procs, ChangeExternal(p)
      PROVE  DoingOK'
  BY <1>8, <1>h DEF ChangeExternal, Targets
<1>9. ASSUME NEW p \in Procs, CountRead(p)
      PROVE  DoingOK'
  <2> DEFINE h == [doing[p] EXCEPT !.do = "rate", !.read = Counted(doing[p].of)]
  <2>1. Counted(doing[p].of) \subseteq Rows \cup Externals
    BY <1>a DEF Counted
  <2>2. h \in HandlerRow /\ Fits(h)
    BY <1>9, <1>b, <2>1 DEF CountRead, At, HandlerRow, Fits, Tasks, RowTasks
  <2> QED
    BY <1>a, <1>9, <2>2, TaskChanges DEF CountRead
<1>10. ASSUME NEW p \in Procs, CountWrite(p)
       PROVE  DoingOK'
  <2>1. doing[p].arg = "HIDE" => Fits([doing[p] EXCEPT !.do = "close"]) /\ "close" \in Tasks
    BY <1>10, <1>b DEF CountWrite, At, Fits, RowTasks, HandlerRow, Tasks, Outcomes
  <2> QED
    BY <1>10, <1>f, <1>g, <2>1 DEF CountWrite
<1>11. ASSUME NEW p \in Procs, VoteRead(p)
       PROVE  DoingOK'
  <2>1. Fits([doing[p] EXCEPT !.do = "cast"]) /\ "cast" \in Tasks
    BY <1>11, <1>b DEF VoteRead, At, Fits, RowTasks, HandlerRow, Tasks
  <2> QED
    BY <1>11, <1>f, <1>g, <2>1 DEF VoteRead
<1>12. ASSUME NEW p \in Procs, VoteWrite(p)
       PROVE  DoingOK'
  <2>1. Fits([doing[p] EXCEPT !.do = "tally"]) /\ "tally" \in Tasks
    BY <1>12, <1>b DEF VoteWrite, At, Fits, RowTasks, HandlerRow, Tasks
  <2> QED
    BY <1>12, <1>f, <1>g, <2>1 DEF VoteWrite
<1>13. ASSUME NEW p \in Procs, VoteTally(p)
       PROVE  DoingOK'
  <2> DEFINE h == [doing[p] EXCEPT !.do = "store", !.read = Tally(doing[p].on)]
  <2>1. Tally(doing[p].on) \subseteq Ips
    BY DEF Tally, Ups
  <2>2. h \in HandlerRow /\ Fits(h)
    BY <1>13, <1>b, <2>1 DEF VoteTally, At, HandlerRow, Fits, Tasks, RowTasks
  <2> QED
    BY <1>a, <1>13, <2>2, TaskChanges DEF VoteTally
<1>14. ASSUME NEW p \in Procs, AnswerRead(p)
       PROVE  DoingOK'
  <2>1. Fits([doing[p] EXCEPT !.do = "writeAnswer"]) /\ "writeAnswer" \in Tasks
    BY <1>14, <1>b DEF AnswerRead, At, Fits, RowTasks, HandlerRow, Tasks
  <2> QED
    BY <1>14, <1>f, <1>g, <2>1 DEF AnswerRead
<1>15. ASSUME NEW p \in Procs, ResolveRead(p)
       PROVE  DoingOK'
  <2>1. /\ doing[p].arg = "HIDE" => Fits([doing[p] EXCEPT !.do = "hide"])
        /\ Fits([doing[p] EXCEPT !.do = "close"]) /\ {"hide", "close"} \subseteq Tasks
    BY <1>15, <1>b DEF ResolveRead, At, Fits, RowTasks, HandlerRow, Tasks
  <2> QED
    BY <1>15, <1>f, <1>g, <2>1 DEF ResolveRead
<1>16. ASSUME NEW p \in Procs, ResolveHide(p)
       PROVE  DoingOK'
  <2>1. doing[p].on \in Rows
    BY <1>16, <1>b DEF ResolveHide, At, Fits, RowTasks
  <2> QED
    BY <1>16, <2>1, <1>f, <1>h, <1>o DEF ResolveHide
<1>17. ASSUME NEW p \in Procs, ResolveClose(p)
       PROVE  DoingOK'
  <2>1. Fits([doing[p] EXCEPT !.do = "delete"]) /\ "delete" \in Tasks
    BY <1>17, <1>b DEF ResolveClose, At, Fits, RowTasks, HandlerRow, Tasks
  <2> QED
    BY <1>17, <1>f, <1>g, <2>1 DEF ResolveClose
<1>18. CASE Crash
  BY <1>18 DEF Crash, DoingOK
<1>19. CASE UNCHANGED doing
  BY <1>19, <1>a DEF DoingOK
<1>20. ASSUME CronStart \/ CronStep \/ (\E r \in Rows : Expire(r) \/ OpenDispute(r))
              \/ (\E b \in Buyers : Age(b)) \/ Cleanup \/ UNCHANGED vars
       PROVE  UNCHANGED doing
  BY <1>20 DEF CronStart, CronStep, AskStore, AskMail, RemindMail, RemindMark, Expire, OpenDispute,
               Age, Cleanup, vars
<1> QED
  BY <1>1, <1>2, <1>3, <1>4, <1>5, <1>6, <1>7, <1>8, <1>9, <1>10, <1>11, <1>12, <1>13, <1>14,
     <1>15, <1>16, <1>17, <1>18, <1>19, <1>20 DEF Next, Step

-----------------------------------------------------------------------------
\* Removing rows keeps the tables typed.
LEMMA RemovalTyped ==
  ASSUME TypeInv, NEW S, Remove(S), DoingOK', faults' \in 0..MaxFaults,
         UNCHANGED <<scene, external, askVars>>, rated' \in [Targets -> SUBSET (Rows \cup Externals)]
  PROVE  TypeOK'
<1>1. review' \in [Rows -> ReviewRow]
  BY DEF TypeInv, TypeOK, Remove, NoReview, Targets, ReviewRow
<1>2. vote' \in [Rows -> [Ips -> Choices]]
  BY DEF TypeInv, TypeOK, Remove, Choices
<1>3. helpful' \in [Rows -> 0..Cardinality(Ips)]
  BY FS_CardinalityType, ReviewAssumption DEF TypeInv, TypeOK, Remove
<1>4. answer' \in [Rows -> AnswerRow]
  BY DEF TypeInv, TypeOK, Remove, NoAnswer, AnswerRow
<1>5. dispute' \in [Rows -> {"none", "MODERATOR_REVIEW"} \cup Outcomes]
  BY DEF TypeInv, TypeOK, Remove
<1>6. \A p \in Procs : doing'[p].on \in Rows \cup Buyers \cup Externals \cup {Nobody}
  BY DEF DoingOK, HandlerRow
<1> QED
  BY <1>1, <1>2, <1>3, <1>4, <1>5, <1>6 DEF TypeInv, TypeOK, askVars, ReviewRow, AnswerRow

\* Every action keeps the tables typed.
LEMMA TablesKept ==
  ASSUME TypeInv, [Next]_vars
  PROVE  TypeOK' /\ CronOK'
<1>a. TypeOK /\ CronOK /\ DoingOK /\ DoingOK'
  BY TasksKept DEF TypeInv
<1>b. ASSUME NEW p \in Procs
      PROVE  doing[p] \in HandlerRow /\ Fits(doing[p])
  BY <1>a DEF DoingOK
<1>c. \A p \in Procs : doing'[p].on \in Rows \cup Buyers \cup Externals \cup {Nobody}
  BY <1>a DEF DoingOK, HandlerRow
<1>d. /\ review \in [Rows -> ReviewRow] /\ answer \in [Rows -> AnswerRow]
      /\ vote \in [Rows -> [Ips -> Choices]] /\ asked \in [Buyers -> RequestRow]
      /\ mails \in [Buyers -> Nat] /\ faults \in 0..MaxFaults /\ MaxFaults \in Nat
  BY <1>a, ReviewAssumption DEF TypeOK, ReviewRow, AnswerRow, RequestRow
<1>s. scene.rows \subseteq Rows
  BY <1>a, ReviewAssumption DEF TypeOK
<1>e. ASSUME review' \in [Rows -> ReviewRow], answer' \in [Rows -> AnswerRow],
             vote' \in [Rows -> [Ips -> Choices]], asked' \in [Buyers -> RequestRow],
             mails' \in [Buyers -> Nat], faults' \in 0..MaxFaults, CronOK',
             UNCHANGED <<scene, external, rated, helpful, dispute>>
      PROVE  TypeOK' /\ CronOK'
  BY <1>a, <1>c, <1>e DEF TypeOK, CronOK, CronRun, ReviewRow, AnswerRow, RequestRow
<1>1. CASE Ask
  <2>1. UNCHANGED <<scene, reviewVars, voteVars, supplierVars, askVars, faults>>
    BY <1>1, Requests DEF Opens
  <2> QED
    BY <2>1, <1>a, <1>c DEF TypeOK, CronOK, reviewVars, voteVars, supplierVars, askVars
<1>2. ASSUME NEW p \in Procs,
             CreateCheck(p) \/ VerifyRead(p) \/ CountRead(p) \/ VoteRead(p) \/ VoteTally(p)
             \/ AnswerRead(p) \/ ResolveRead(p)
      PROVE  TypeOK' /\ CronOK'
  <2>1. UNCHANGED <<scene, reviewVars, voteVars, supplierVars, askVars, faults>>
    BY <1>2 DEF CreateCheck, VerifyRead, CountRead, VoteRead, VoteTally, AnswerRead, ResolveRead
  <2> QED
    BY <2>1, <1>a, <1>c DEF TypeOK, CronOK, reviewVars, voteVars, supplierVars, askVars
<1>3. ASSUME NEW p \in Procs, CreateInsert(p)
      PROVE  TypeOK' /\ CronOK'
  <2>1. doing[p].on \in Buyers /\ doing[p].of \in Targets
    BY <1>3, <1>b DEF CreateInsert, At, Fits, HandlerRow
  <2>2. review' \in [Rows -> ReviewRow]
    <3> DEFINE known == doing[p].arg = "link"
               row == [status |-> IF known THEN "PENDING" ELSE "PENDING_EMAIL",
                       by |-> doing[p].on, of |-> doing[p].of, token |-> ~known,
                       old |-> FALSE, confirmed |-> known]
    <3>1. PICK r \in scene.rows : review' = [review EXCEPT ![r] = row]
      BY <1>3 DEF CreateInsert
    <3>2. row \in ReviewRow
      BY <2>1 DEF ReviewRow, Statuses
    <3> HIDE DEF row
    <3> QED
      BY <3>1, <3>2, <1>d, <1>s
  <2> QED
    BY <1>3, <2>2, <1>a, <1>d, <1>e DEF CreateInsert, CronOK, voteVars, supplierVars, askVars
<1>4. ASSUME NEW p \in Procs, CreateLink(p)
      PROVE  TypeOK' /\ CronOK'
  <2>1. asked' \in [Buyers -> RequestRow]
    BY <1>4, <1>d DEF CreateLink, RequestRow
  <2> QED
    BY <1>4, <2>1, <1>a, <1>d, <1>e DEF CreateLink, CronOK, reviewVars, voteVars, supplierVars
<1>5. ASSUME NEW p \in Procs, VerifyConfirm(p) \/ Moderate(p) \/ ResolveHide(p)
      PROVE  TypeOK' /\ CronOK'
  <2>1. doing[p].do = "moderate" => doing[p].arg \in Decisions
    BY <1>b DEF Fits
  <2>2. review' \in [Rows -> ReviewRow]
    <3> DEFINE r == doing[p].on
    <3>1. \/ UNCHANGED review
          \/ review' = [review EXCEPT ![r].status = "PENDING", ![r].token = FALSE,
                                      ![r].confirmed = TRUE]
          \/ \E to \in Decisions \cup {"HIDDEN"} : review' = [review EXCEPT ![r].status = to]
      BY <1>5, <2>1 DEF VerifyConfirm, Moderate, ResolveHide, At
    <3>2. r \in Rows
      BY <1>5, <1>b DEF VerifyConfirm, Moderate, ResolveHide, At, Fits, RowTasks
    <3> HIDE DEF r
    <3>3. review[r] \in ReviewRow
      BY <3>2, <1>d
    <3>4. \/ UNCHANGED review
          \/ \E row \in ReviewRow : review' = [review EXCEPT ![r] = row]
      <4>1. [review[r] EXCEPT !.status = "PENDING", !.token = FALSE, !.confirmed = TRUE] \in ReviewRow
        BY <3>3 DEF ReviewRow, Statuses
      <4>2. \A to \in Decisions \cup {"HIDDEN"} : [review[r] EXCEPT !.status = to] \in ReviewRow
        BY <3>3 DEF ReviewRow, Statuses, Decisions
      <4>3. ASSUME review' = [review EXCEPT ![r].status = "PENDING", ![r].token = FALSE,
                                      ![r].confirmed = TRUE]
            PROVE  review' = [review EXCEPT ![r] =
                     [review[r] EXCEPT !.status = "PENDING", !.token = FALSE, !.confirmed = TRUE]]
        BY <4>3, <3>2, <1>d
      <4> QED
        BY <3>1, <4>1, <4>2, <4>3
    <3> QED
      BY <3>2, <3>4, <1>d
  <2>3. UNCHANGED <<scene, external, rated, voteVars, supplierVars, askVars, faults>>
    BY <1>5 DEF VerifyConfirm, Moderate, ResolveHide
  <2> QED
    BY <2>2, <2>3, <1>a, <1>d, <1>e DEF CronOK, voteVars, supplierVars, askVars
<1>6. ASSUME NEW S, Remove(S), UNCHANGED <<scene, external, rated, askVars, faults>>
      PROVE  TypeOK' /\ CronOK'
  <2>1. rated' \in [Targets -> SUBSET (Rows \cup Externals)] /\ faults' \in 0..MaxFaults /\ CronOK'
    BY <1>6, <1>a DEF TypeOK, CronOK, askVars
  <2> QED
    BY <2>1, <1>6, <1>a, RemovalTyped
<1>7. ASSUME NEW p \in Procs, VerifyExpired(p) \/ Delete(p)
      PROVE  TypeOK' /\ CronOK'
  <2>1. CASE \E S : Remove(S)
    BY <2>1, <1>7, <1>6 DEF VerifyExpired, Delete
  <2>2. CASE ~\E S : Remove(S)
    <3>1. UNCHANGED <<scene, reviewVars, voteVars, supplierVars, askVars, faults>>
      BY <2>2, <1>7 DEF VerifyExpired, Delete, reviewVars
    <3> QED
      BY <3>1, <1>a, <1>c DEF TypeOK, CronOK, reviewVars, voteVars, supplierVars, askVars
  <2> QED
    BY <2>1, <2>2
<1>8. ASSUME NEW p \in Procs, ChangeExternal(p)
      PROVE  TypeOK' /\ CronOK'
  <2>1. external' \subseteq Externals
    BY <1>8, <1>b, <1>a DEF ChangeExternal, At, Fits, TypeOK
  <2> QED
    BY <1>8, <2>1, <1>a, <1>c DEF ChangeExternal, TypeOK, CronOK, voteVars, supplierVars, askVars
<1>9. ASSUME NEW p \in Procs, CountWrite(p)
      PROVE  TypeOK' /\ CronOK'
  <2>1. doing[p].of \in Targets /\ doing[p].read \subseteq Rows \cup Externals
    BY <1>9, <1>b DEF CountWrite, At, Fits, HandlerRow
  <2>2. rated' \in [Targets -> SUBSET (Rows \cup Externals)]
    BY <1>9, <2>1, <1>a DEF CountWrite, TypeOK
  <2> QED
    BY <1>9, <2>2, <1>a, <1>c DEF CountWrite, TypeOK, CronOK, voteVars, supplierVars, askVars
<1>10. ASSUME NEW p \in Procs, VoteWrite(p)
       PROVE  TypeOK' /\ CronOK'
  <2>1. doing[p].arg \in Choices
    BY <1>10, <1>b DEF VoteWrite, At, Fits, Choices
  <2>2. vote' \in [Rows -> [Ips -> Choices]]
    <3>1. CASE UNCHANGED vote
      BY <3>1, <1>d
    <3>2. CASE \E i \in Ips :
                 vote' = [vote EXCEPT ![doing[p].on][i] = IF @ = doing[p].arg THEN "none" ELSE doing[p].arg]
      <4>1. PICK i \in Ips :
              vote' = [vote EXCEPT ![doing[p].on][i] = IF @ = doing[p].arg THEN "none" ELSE doing[p].arg]
        BY <3>2
      <4>2. PICK c \in Choices : vote' = [vote EXCEPT ![doing[p].on] = [@ EXCEPT ![i] = c]]
        BY <4>1, <2>1 DEF Choices
      <4> QED
        BY <4>2, <1>d
    <3> QED
      BY <1>10, <3>1, <3>2 DEF VoteWrite
  <2> QED
    BY <1>10, <2>2, <1>a, <1>c DEF VoteWrite, TypeOK, CronOK, reviewVars, supplierVars, askVars
<1>11. ASSUME NEW p \in Procs, VoteStore(p)
       PROVE  TypeOK' /\ CronOK'
  <2>1. doing[p].read \subseteq Ips
    BY <1>11, <1>b DEF VoteStore, At, Fits
  <2>2. Cardinality(doing[p].read) \in 0..Cardinality(Ips)
    BY <2>1, ReviewAssumption, FS_Subset, FS_CardinalityType
  <2>3. helpful' \in [Rows -> 0..Cardinality(Ips)]
    BY <1>11, <2>2, <1>a DEF VoteStore, TypeOK
  <2> QED
    BY <1>11, <2>3, <1>a, <1>c DEF VoteStore, TypeOK, CronOK, reviewVars, supplierVars, askVars
<1>12. ASSUME NEW p \in Procs, AnswerWrite(p)
       PROVE  TypeOK' /\ CronOK'
  <2>1. \/ UNCHANGED answer
        \/ \E text \in 1..2 :
             answer' = [answer EXCEPT ![doing[p].on].text = text,
                                      ![doing[p].on].status = IF @ = "none" THEN "DRAFT" ELSE @]
        \/ answer' = [answer EXCEPT ![doing[p].on].status = doing[p].arg,
                                    ![doing[p].on].sent = answer[doing[p].on].text]
           /\ doing[p].arg = "PENDING_MODERATION"
        \/ answer' = [answer EXCEPT ![doing[p].on].status = doing[p].arg]
           /\ doing[p].arg \in Decisions
    <3>1. Stands(doing[p].on) => doing[p].arg \in {"DRAFT", "PENDING_MODERATION"} \cup Decisions
      BY <1>12, <1>b DEF AnswerWrite, At, Fits
    <3> QED
      BY <1>12, <3>1 DEF AnswerWrite, Decisions
  <2>r. doing[p].on \in Rows /\ answer[doing[p].on] \in AnswerRow
    BY <1>12, <1>b, <1>d DEF AnswerWrite, At, Fits, RowTasks
  <2> DEFINE r == doing[p].on
             was == answer[r]
  <2>3. \/ UNCHANGED answer
        \/ \E row \in AnswerRow : answer' = [answer EXCEPT ![r] = row]
    <3>1. ASSUME NEW text \in 1..2,
                 answer' = [answer EXCEPT ![r].text = text,
                                          ![r].status = IF @ = "none" THEN "DRAFT" ELSE @]
          PROVE  \E row \in AnswerRow : answer' = [answer EXCEPT ![r] = row]
      <4> DEFINE to == IF was.status = "none" THEN "DRAFT" ELSE was.status
                 row == [was EXCEPT !.text = text, !.status = to]
      <4>0. was.status \in {"none", "DRAFT", "PENDING_MODERATION", "APPROVED", "REJECTED"}
        BY <2>r DEF AnswerRow
      <4>1. to \in {"none", "DRAFT", "PENDING_MODERATION", "APPROVED", "REJECTED"} /\ text \in 0..2
        BY <4>0
      <4>3. row \in AnswerRow
        <5>1. was \in AnswerRow
          BY <2>r
        <5> HIDE DEF to, was
        <5> QED
          BY <5>1, <4>1 DEF AnswerRow
      <4>2. answer' = [answer EXCEPT ![r] = row]
        BY <3>1, <2>r, <1>d
      <4> QED
        BY <4>3, <4>2
    <3>2. [was EXCEPT !.status = "PENDING_MODERATION", !.sent = was.text] \in AnswerRow
      BY <2>r DEF AnswerRow
    <3>3. \A to \in Decisions : [was EXCEPT !.status = to] \in AnswerRow
      BY <2>r DEF AnswerRow, Decisions
    <3> QED
      BY <2>1, <2>r, <3>1, <3>2, <3>3, <1>d
  <2>2. answer' \in [Rows -> AnswerRow]
    BY <2>3, <2>r, <1>d
  <2> QED
    BY <1>12, <2>2, <1>a, <1>d, <1>e DEF AnswerWrite, CronOK, reviewVars, voteVars, askVars
<1>13. ASSUME NEW p \in Procs, ResolveClose(p)
       PROVE  TypeOK' /\ CronOK'
  <2>1. doing[p].arg \in Outcomes
    BY <1>13, <1>b DEF ResolveClose, At, Fits
  <2> QED
    BY <1>13, <2>1, <1>a, <1>c DEF ResolveClose, TypeOK, CronOK, reviewVars, voteVars, askVars
<1>14. ASSUME NEW r \in Rows, Expire(r) \/ OpenDispute(r)
       PROVE  TypeOK' /\ CronOK'
  <2>1. CASE Expire(r)
    <3>1. review' \in [Rows -> ReviewRow]
      BY <2>1, <1>d DEF Expire, ReviewRow
    <3> QED
      BY <2>1, <3>1, <1>a, <1>d, <1>e DEF Expire, CronOK, voteVars, supplierVars, askVars
  <2>2. CASE OpenDispute(r)
    BY <2>2, <1>a, <1>c DEF OpenDispute, TypeOK, CronOK, reviewVars, voteVars, askVars
  <2> QED
    BY <1>14, <2>1, <2>2
<1>15. CASE Cleanup
  BY <1>15, <1>6 DEF Cleanup
<1>16. ASSUME NEW b \in Buyers, Age(b)
       PROVE  TypeOK' /\ CronOK'
  BY <1>16, <1>a, <1>c DEF Age, TypeOK, CronOK, reviewVars, voteVars, supplierVars
<1>17. CASE CronStart
  BY <1>17, <1>a, <1>c DEF CronStart, Unreminded, TypeOK, CronOK, CronRun, reviewVars, voteVars, supplierVars
<1>n. ASSUME NEW b \in Buyers
      PROVE  CronRest(b) \in CronRun /\ [cron EXCEPT !.on = b] \in CronRun /\ NoRun \in CronRun
  BY <1>a DEF CronRest, NoRun, CronOK, CronRun
<1>m. ASSUME NEW b \in Buyers, Queue(b),
             UNCHANGED <<scene, reviewVars, voteVars, supplierVars, asked, doing>>
      PROVE  TypeOK' /\ CronOK'
  <2>1. mails' \in [Buyers -> Nat] /\ faults' \in 0..MaxFaults
    BY <1>m, <1>d DEF Queue
  <2>2. CronOK'
    BY <1>m, <1>n DEF Queue, CronOK
  <2> QED
    BY <1>m, <2>1, <2>2, <1>d, <1>e DEF reviewVars, voteVars, supplierVars
<1>18. CASE AskStore
  <2>1. asked' \in [Buyers -> RequestRow]
    <3>1. PICK b \in Buyers : asked' = asked \/ asked' = [asked EXCEPT ![b].sent = TRUE]
      BY <1>18 DEF AskStore
    <3> QED
      BY <3>1, <1>d DEF RequestRow
  <2>2. CronOK'
    BY <1>18, <1>n DEF AskStore, CronOK
  <2> QED
    BY <1>18, <2>1, <2>2, <1>d, <1>e DEF AskStore, reviewVars, voteVars, supplierVars
<1>19. CASE AskMail
  <2>1. cron.on \in Buyers /\ Queue(cron.on) /\ UNCHANGED <<scene, reviewVars, voteVars, supplierVars, asked, doing>>
    BY <1>19, <1>a DEF AskMail, CronOK, CronRun
  <2> QED
    BY <2>1, <1>m
<1>20. CASE RemindMail
  BY <1>20, <1>m DEF RemindMail
<1>21. CASE RemindMark
  BY <1>21, <1>a, <1>c DEF RemindMark, CronRest, NoRun, TypeOK, CronOK, CronRun, reviewVars, voteVars, supplierVars
<1>22. CASE Crash
  <2>1. CronOK' /\ faults' \in 0..MaxFaults
    BY <1>22, <1>d DEF Crash, NoRun, CronOK, CronRun
  <2> QED
    BY <1>22, <2>1, <1>d, <1>e DEF Crash, reviewVars, voteVars, supplierVars
<1>23. CASE UNCHANGED vars
  BY <1>23, <1>a, <1>c DEF vars, TypeOK, CronOK, reviewVars, voteVars, supplierVars, askVars
<1> QED
  BY <1>1, <1>2, <1>3, <1>4, <1>5, <1>7, <1>8, <1>9, <1>10, <1>11, <1>12, <1>13, <1>14, <1>15,
     <1>16, <1>17, <1>18, <1>19, <1>20, <1>21, <1>22, <1>23 DEF Next, Step, CronStep

\* Initially there is nothing but what the scene has published.
LEMMA TypesAtStart == Init => TypeInv
<1> SUFFICES ASSUME Init PROVE TypeInv
  OBVIOUS
<1>1. DoingOK /\ CronOK
  BY IdleFits DEF Init, DoingOK, CronOK, CronRun, NoRun
<1>2. 0 \in 0..Cardinality(Ips) /\ 0 \in 0..MaxFaults
  BY FS_CardinalityType, ReviewAssumption
<1>3. TypeOK
  BY <1>1, <1>2 DEF Init, TypeOK, NoReview, NoAnswer, NotAsked, Choices, Targets, NoRun, DoingOK, HandlerRow
<1> QED
  BY <1>1, <1>3 DEF TypeInv

\* A handler's task and the tables fit each other in every state.
LEMMA TypesHold == Spec => []TypeInv
<1>1. TypeInv /\ [Next]_vars => TypeInv'
  BY TasksKept, TablesKept DEF TypeInv
<1> QED
  BY <1>1, TypesAtStart, PTL DEF Spec

\* Every variable has its type, whatever the handlers, tasks and crashes do.
THEOREM TypeCorrect == Spec => []TypeOK
BY TypesHold, PTL DEF TypeInv

-----------------------------------------------------------------------------
\* Only these steps write reviews.
LEMMA ReviewWrites ==
  ASSUME TypeInv, [Next]_vars
  PROVE  \/ UNCHANGED review
         \/ \E p \in Procs : CreateInsert(p) \/ VerifyConfirm(p) \/ Moderate(p) \/ ResolveHide(p)
         \/ \E S : Remove(S)
         \/ \E r \in Rows : Expire(r)
<1>1. CASE Ask
  BY <1>1, Requests DEF Opens, reviewVars
<1>2. ASSUME NEW p \in Procs, Step(p)
      PROVE  \/ UNCHANGED review
             \/ CreateInsert(p) \/ VerifyConfirm(p) \/ Moderate(p) \/ ResolveHide(p)
             \/ \E S : Remove(S)
  BY <1>2 DEF Step, CreateCheck, CreateLink, VerifyRead, VerifyExpired, Delete, ChangeExternal,
              CountRead, CountWrite, VoteRead, VoteWrite, VoteTally, VoteStore, AnswerRead,
              AnswerWrite, ResolveRead, ResolveClose, reviewVars
<1>3. CASE CronStart \/ CronStep \/ (\E b \in Buyers : Age(b)) \/ Crash \/ UNCHANGED vars
  BY <1>3 DEF CronStart, CronStep, AskStore, AskMail, RemindMail, RemindMark, Age, Crash, vars, reviewVars
<1>4. CASE Cleanup
  BY <1>4 DEF Cleanup
<1>5. ASSUME NEW r \in Rows, OpenDispute(r)
      PROVE  UNCHANGED review
  BY <1>5 DEF OpenDispute, reviewVars
<1> QED
  BY <1>1, <1>2, <1>3, <1>4, <1>5 DEF Next

\* A handler comes to decide about a review only by a request from the page.
LEMMA Deciding ==
  ASSUME TypeInv, [Next]_vars, NEW q \in Procs, At(q, "moderate")'
  PROVE  \/ doing'[q] = doing[q]
         \/ Offered(doing'[q].on, doing'[q].arg) /\ UNCHANGED review
<1>a. \A p \in Procs : doing[p] \in HandlerRow /\ Fits(doing[p])
  BY DEF TypeInv, DoingOK
<1>b. doing \in [Procs -> HandlerRow]
  BY DEF TypeInv, DoingOK
<1>1. CASE Ask
  <2>o. PICK p \in Procs : \E h : Opens(p, h)
    BY <1>1, Requests
  <2>1. PICK h : Opens(p, h)
    BY <2>o
  <2> QED
    BY <2>1, <1>b DEF Opens, At, reviewVars
<1>2. ASSUME NEW p \in Procs, Step(p)
      PROVE  doing'[q] = doing[q]
  <2>1. ASSUME NEW task, task # "moderate", Go(p, task)
        PROVE  doing'[q] = doing[q]
    <3>1. [doing[p] EXCEPT !.do = task].do = task
      BY <1>a DEF HandlerRow
    <3> QED
      BY <2>1, <3>1, <1>b DEF Go, Then, At
  <2>2. ASSUME Finish(p)
        PROVE  doing'[q] = doing[q]
    BY <2>2, <1>b DEF Finish, Then, At, Idle
  <2>3. ASSUME NEW t, NEW last, Recount(p, t, last)
        PROVE  doing'[q] = doing[q]
    <3>1. [doing[p] EXCEPT !.do = "count", !.of = t, !.arg = last].do = "count"
      BY <1>a DEF HandlerRow
    <3> QED
      BY <2>3, <3>1, <1>b DEF Recount, Then, At
  <2>4. ASSUME NEW task, NEW t, NEW arg, NEW read, task # "moderate",
               \/ Then(p, [doing[p] EXCEPT !.do = task, !.of = t, !.arg = arg])
               \/ Then(p, [doing[p] EXCEPT !.do = task, !.read = read])
        PROVE  doing'[q] = doing[q]
    <3>1. /\ [doing[p] EXCEPT !.do = task, !.of = t, !.arg = arg].do = task
          /\ [doing[p] EXCEPT !.do = task, !.read = read].do = task
      BY <1>a DEF HandlerRow
    <3> QED
      BY <2>4, <3>1, <1>b DEF Then, At
  <2>5. CASE CreateCheck(p) \/ CountRead(p) \/ VoteTally(p)
    BY <2>5, <2>2, <2>4 DEF CreateCheck, CountRead, VoteTally
  <2>6. CASE CreateInsert(p) \/ CreateLink(p) \/ VerifyRead(p) \/ VerifyConfirm(p) \/ VerifyExpired(p)
             \/ CountWrite(p)
    BY <2>6, <2>1, <2>2 DEF CreateInsert, CreateLink, VerifyRead, VerifyConfirm, VerifyExpired, CountWrite
  <2>7. CASE VoteRead(p) \/ VoteWrite(p) \/ VoteStore(p) \/ AnswerRead(p) \/ AnswerWrite(p)
             \/ ResolveRead(p) \/ ResolveClose(p)
    BY <2>7, <2>1, <2>2 DEF VoteRead, VoteWrite, VoteStore, AnswerRead, AnswerWrite, ResolveRead, ResolveClose
  <2>8. CASE Moderate(p) \/ Delete(p) \/ ChangeExternal(p) \/ ResolveHide(p)
    BY <2>8, <2>2, <2>3 DEF Moderate, Delete, ChangeExternal, ResolveHide
  <2> QED
    BY <1>2, <2>5, <2>6, <2>7, <2>8 DEF Step
<1>3. CASE Crash
  BY <1>3 DEF Crash, At, Idle
<1>4. ASSUME CronStart \/ CronStep \/ (\E r \in Rows : Expire(r) \/ OpenDispute(r))
              \/ (\E b \in Buyers : Age(b)) \/ Cleanup \/ UNCHANGED vars
      PROVE  UNCHANGED doing
  BY <1>4 DEF CronStart, CronStep, AskStore, AskMail, RemindMail, RemindMark, Expire, OpenDispute,
              Age, Cleanup, vars
<1> QED
  BY <1>1, <1>2, <1>3, <1>4 DEF Next

\* What a step may do to a review: it is no less confirmed than before, and
\* one that moderators may decide about is confirmed.
VettedStep(r) ==
  /\ review'[r].status \in Judged => review'[r].confirmed
  /\ Stands(r) /\ review'[r].status # "none" /\ review[r].confirmed => review'[r].confirmed
  /\ ~Stands(r) /\ review'[r].status # "none" => Unused(r)

\* The scene of an instance never changes.
LEMMA SceneStays ==
  ASSUME TypeInv, [Next]_vars
  PROVE  UNCHANGED scene
<1>1. Ask => UNCHANGED scene
  BY Requests DEF Opens
<1> QED
  BY <1>1 DEF Next, Step, CreateCheck, CreateInsert, CreateLink, VerifyRead, VerifyConfirm, VerifyExpired,
     Moderate, Delete, ChangeExternal, CountRead, CountWrite, VoteRead, VoteWrite, VoteTally,
     VoteStore, AnswerRead, AnswerWrite, ResolveRead, ResolveHide, ResolveClose, CronStart,
     CronStep, AskStore, AskMail, RemindMail, RemindMark, Expire, OpenDispute, Age, Cleanup, Crash, vars

\* What a decision leaves behind, and no step undoes, under every overlap.
LEMMA VettingKept ==
  ASSUME TypeInv, ConfirmedInv, [Next]_vars
  PROVE  ConfirmedInv'
<1>0. UNCHANGED scene
  BY SceneStays
<1> SUFFICES ASSUME scene.page
             PROVE  /\ \A r \in Rows : review'[r].status \in Judged => review'[r].confirmed
                    /\ \A p \in Procs : At(p, "moderate")' /\ Stands(doing[p].on)'
                                          => review'[doing'[p].on].confirmed
  BY <1>0 DEF ConfirmedInv
<1>a. /\ review \in [Rows -> ReviewRow]
      /\ \A p \in Procs : doing[p] \in HandlerRow /\ Fits(doing[p])
      /\ \A r \in Rows : review[r].status \in Judged => review[r].confirmed
      /\ \A p \in Procs : At(p, "moderate") /\ Stands(doing[p].on) => review[doing[p].on].confirmed
      /\ scene.rows \subseteq Rows
  BY ReviewAssumption DEF ConfirmedInv, TypeInv, TypeOK, DoingOK, ReviewRow
\* What happens to a review that stands, and which rows come into use.
<1>1. \A r \in Rows : VettedStep(r)
  <2> SUFFICES ASSUME NEW r \in Rows PROVE VettedStep(r)
    OBVIOUS
  <2>r. review[r] \in ReviewRow
    BY <1>a
  <2>1. CASE UNCHANGED review
    BY <2>1, <1>a DEF Stands, VettedStep
  <2>2. ASSUME NEW p \in Procs, CreateInsert(p)
        PROVE  VettedStep(r)
    <3>1. PICK q \in Rows :
            /\ Unused(q)
            /\ review' = [review EXCEPT ![q] =
                 [status |-> IF doing[p].arg = "link" THEN "PENDING" ELSE "PENDING_EMAIL",
                  by |-> doing[p].on, of |-> doing[p].of, token |-> ~(doing[p].arg = "link"),
                  old |-> FALSE, confirmed |-> doing[p].arg = "link"]]
      BY <2>2, <1>a DEF CreateInsert
    <3> QED
      BY <3>1, <1>a DEF Stands, Judged, Unused, VettedStep
  <2>3. ASSUME NEW p \in Procs, VerifyConfirm(p)
        PROVE  VettedStep(r)
    <3>1. doing[p].on \in Rows
      BY <2>3, <1>a DEF VerifyConfirm, At, Fits, RowTasks
    <3> QED
      BY <2>3, <3>1, <1>a DEF VerifyConfirm, Stands, ReviewRow, VettedStep
  <2>4. ASSUME NEW p \in Procs, Moderate(p)
        PROVE  VettedStep(r)
    <3>1. doing[p].on \in Rows /\ (Stands(doing[p].on) => review[doing[p].on].confirmed)
      BY <2>4, <1>a DEF Moderate, At, Fits, RowTasks
    <3> QED
      BY <2>4, <3>1, <1>a DEF Moderate, Stands, ReviewRow, VettedStep
  <2>5. ASSUME NEW p \in Procs, ResolveHide(p)
        PROVE  VettedStep(r)
    <3>1. doing[p].on \in Rows
      BY <2>5, <1>a DEF ResolveHide, At, Fits, RowTasks
    <3> QED
      BY <2>5, <3>1, <1>a DEF ResolveHide, Stands, ReviewRow, Judged, VettedStep
  <2>6. ASSUME NEW S, Remove(S)
        PROVE  VettedStep(r)
    BY <2>6, <1>a DEF Remove, Stands, NoReview, Judged, VettedStep
  <2>7. ASSUME NEW q \in Rows, Expire(q)
        PROVE  VettedStep(r)
    BY <2>7, <1>a DEF Expire, Stands, ReviewRow, VettedStep
  <2> QED
    BY <2>1, <2>2, <2>3, <2>4, <2>5, <2>6, <2>7, ReviewWrites
<1>2. ASSUME NEW p \in Procs, At(p, "moderate")', Stands(doing[p].on)'
      PROVE  review'[doing'[p].on].confirmed
  <2>1. CASE doing'[p] = doing[p]
    <3>1. At(p, "moderate") /\ doing[p].on \in Rows
      BY <1>2, <2>1, <1>a DEF At, Fits, RowTasks
    <3>2. Stands(doing[p].on)' /\ doing'[p].on = doing[p].on
      BY <1>2, <2>1 DEF Stands
    <3>3. Stands(doing[p].on)
      BY <3>1, <3>2, <1>1 DEF Unused, VettedStep, Stands
    <3> QED
      BY <3>1, <3>2, <3>3, <1>1, <1>a DEF VettedStep, Stands
  <2>2. CASE Offered(doing'[p].on, doing'[p].arg) /\ UNCHANGED review
    <3>1. doing'[p].on \in Rows
      BY <1>2, TasksKept DEF DoingOK, At, Fits, RowTasks
    <3>2. review[doing'[p].on].status \in Judged
      BY <2>2 DEF Offered, Judged
    <3> QED
      BY <2>2, <3>1, <3>2, <1>a
  <2> QED
    BY <1>2, <2>1, <2>2, Deciding
<1> QED
  BY <1>1, <1>2 DEF VettedStep

-----------------------------------------------------------------------------
\* A step of one handler leaves the others alone, and a handler that was
\* not under way begins only by a request.
LEMMA Others ==
  ASSUME TypeInv, NEW p \in Procs, Step(p)
  PROVE  p \in Busy /\ \E h : doing' = [doing EXCEPT ![p] = h]
<1>1. p \in Busy
  BY DEF Step, Busy, At, CreateCheck, CreateInsert, CreateLink, VerifyRead, VerifyConfirm,
         VerifyExpired, Moderate, Delete, ChangeExternal, CountRead, CountWrite, VoteRead, VoteWrite,
         VoteTally, VoteStore, AnswerRead, AnswerWrite, ResolveRead, ResolveHide, ResolveClose
<1>2. \E h : doing' = [doing EXCEPT ![p] = h]
  <2>1. CASE CreateCheck(p) \/ CreateInsert(p) \/ CreateLink(p) \/ VerifyRead(p) \/ VerifyConfirm(p)
             \/ VerifyExpired(p)
    BY <2>1 DEF CreateCheck, CreateInsert, CreateLink, VerifyRead, VerifyConfirm, VerifyExpired, Go, Finish, Then
  <2>2. CASE Moderate(p) \/ Delete(p) \/ ChangeExternal(p) \/ CountRead(p) \/ CountWrite(p)
    BY <2>2 DEF Moderate, Delete, ChangeExternal, CountRead, CountWrite, Recount, Go, Finish, Then
  <2>3. CASE VoteRead(p) \/ VoteWrite(p) \/ VoteTally(p) \/ VoteStore(p) \/ AnswerRead(p) \/ AnswerWrite(p)
             \/ ResolveRead(p) \/ ResolveHide(p) \/ ResolveClose(p)
    BY <2>3 DEF VoteRead, VoteWrite, VoteTally, VoteStore, AnswerRead, AnswerWrite, ResolveRead,
                ResolveHide, ResolveClose, Recount, Go, Finish, Then
  <2> QED
    BY <2>1, <2>2, <2>3 DEF Step
<1> QED
  BY <1>1, <1>2

\* What is neither a request nor a step of a handler.
Timed ==
  \/ CronStart \/ CronStep
  \/ \E r \in Rows : Expire(r) \/ OpenDispute(r)
  \/ \E b \in Buyers : Age(b)
  \/ Cleanup
  \/ UNCHANGED vars

\* Timed tasks give no handler anything to do.
LEMMA TimedRests == Timed => UNCHANGED doing
BY DEF Timed, CronStart, CronStep, AskStore, AskMail, RemindMail, RemindMark, Expire, OpenDispute,
       Age, Cleanup, vars

\* With one handler at a time, a request is taken only when none is under way.
LEMMA FirstAlone ==
  ASSUME TypeInv, Serial, NEW p \in Procs, NEW h, Opens(p, h)
  PROVE  Busy = {}
<1>1. IsFiniteSet(Busy)
  BY ReviewAssumption, FS_Subset DEF Busy
<1>2. Cardinality(Busy) = 0
  BY <1>1, FS_CardinalityType DEF Opens, Serial
<1> QED
  BY <1>1, <1>2, FS_EmptySet

\* Handlers of a scene without overlap run in turn.
LEMMA TurnsKept ==
  ASSUME TypeInv, InTurn, [Next]_vars
  PROVE  InTurn'
<1> SUFFICES ASSUME Serial, NEW q \in Procs, NEW s \in Procs, q \in Busy', s \in Busy'
             PROVE  q = s
  BY SceneStays DEF InTurn, Serial
<1>a. doing \in [Procs -> HandlerRow] /\ \A p, o \in Procs : p \in Busy /\ o \in Busy => p = o
  BY DEF TypeInv, DoingOK, InTurn
<1>1. CASE Ask
  <2>o. PICK p \in Procs : \E h : Opens(p, h)
    BY <1>1, Requests
  <2>1. PICK h : Opens(p, h)
    BY <2>o
  <2>2. Busy = {} /\ doing' = [doing EXCEPT ![p] = h]
    BY <2>1, FirstAlone DEF Opens
  <2> QED
    BY <2>2, <1>a DEF Busy
<1>2. ASSUME NEW p \in Procs, Step(p)
      PROVE  q = s
  <2>1. p \in Busy /\ \E h : doing' = [doing EXCEPT ![p] = h]
    BY <1>2, Others
  <2> QED
    BY <2>1, <1>a DEF Busy
<1>3. CASE Crash
  BY <1>3 DEF Crash, Busy, Idle
<1>4. CASE Timed
  BY <1>4, TimedRests, <1>a DEF Busy
<1> QED
  BY <1>1, <1>2, <1>3, <1>4 DEF Next, Timed

-----------------------------------------------------------------------------
\* Only these steps write what a review, its dispute and its answer have in
\* common.
LEMMA RowWrites ==
  ASSUME TypeInv, [Next]_vars
  PROVE  \/ UNCHANGED <<review, answer, dispute>>
         \/ \E p \in Procs :
              \/ CreateInsert(p) \/ VerifyConfirm(p) \/ Moderate(p) \/ ResolveHide(p)
              \/ AnswerWrite(p) \/ ResolveClose(p)
         \/ \E S : Remove(S)
         \/ \E r \in Rows : Expire(r) \/ OpenDispute(r)
<1>1. CASE Ask
  BY <1>1, Requests DEF Opens, reviewVars, supplierVars
<1>2. ASSUME NEW p \in Procs, Step(p)
      PROVE  \/ UNCHANGED <<review, answer, dispute>>
             \/ CreateInsert(p) \/ VerifyConfirm(p) \/ Moderate(p) \/ ResolveHide(p)
             \/ AnswerWrite(p) \/ ResolveClose(p)
             \/ \E S : Remove(S)
  BY <1>2 DEF Step, CreateCheck, CreateLink, VerifyRead, VerifyExpired, Delete, ChangeExternal,
              CountRead, CountWrite, VoteRead, VoteWrite, VoteTally, VoteStore, AnswerRead,
              ResolveRead, reviewVars, supplierVars
<1>3. CASE CronStart \/ CronStep \/ (\E b \in Buyers : Age(b)) \/ Crash \/ UNCHANGED vars
  BY <1>3 DEF CronStart, CronStep, AskStore, AskMail, RemindMail, RemindMark, Age, Crash, vars,
              reviewVars, supplierVars
<1>4. CASE Cleanup
  BY <1>4 DEF Cleanup
<1> QED
  BY <1>1, <1>2, <1>3, <1>4 DEF Next

\* Handlers in turn leave every review sound: each write of a status, of an
\* answer or of a decision is of a row that is as the handler has read it.
LEMMA SoundKept ==
  ASSUME TypeInv, Serial, TurnInv, [Next]_vars, NEW r \in Rows
  PROVE  Sound(r)'
<1>a. /\ Sound(r) /\ \A p \in Procs : Current(p)
      /\ UNCHANGED scene /\ scene.rows \subseteq Rows
  BY SceneStays, ReviewAssumption DEF TurnInv, TypeInv, TypeOK
<1>b. /\ review \in [Rows -> ReviewRow] /\ answer \in [Rows -> AnswerRow]
      /\ dispute \in [Rows -> {"none", "MODERATOR_REVIEW"} \cup Outcomes]
      /\ review[r] \in ReviewRow /\ answer[r] \in AnswerRow
  BY DEF TypeInv, TypeOK, ReviewRow, AnswerRow
<1>c. \A p \in Procs : doing[p] \in HandlerRow /\ Fits(doing[p])
  BY DEF TypeInv, DoingOK
<1>1. CASE UNCHANGED <<review, answer, dispute>>
  BY <1>1, <1>a DEF Sound, Is
<1>2. ASSUME NEW p \in Procs, CreateInsert(p)
      PROVE  Sound(r)'
  <2>1. PICK q \in Rows :
          /\ Unused(q)
          /\ review' = [review EXCEPT ![q] =
               [status |-> IF doing[p].arg = "link" THEN "PENDING" ELSE "PENDING_EMAIL",
                by |-> doing[p].on, of |-> doing[p].of, token |-> ~(doing[p].arg = "link"),
                old |-> FALSE, confirmed |-> doing[p].arg = "link"]]
    BY <1>2, <1>a DEF CreateInsert
  <2>2. UNCHANGED <<answer, dispute>>
    BY <1>2 DEF CreateInsert, supplierVars
  <2> QED
    BY <2>1, <2>2, <1>a, <1>b DEF Sound, Is, Unused, Stands
<1>3. ASSUME NEW p \in Procs, VerifyConfirm(p)
      PROVE  Sound(r)'
  <2>1. doing[p].on \in Rows /\ review[doing[p].on].status \in {"none", "PENDING_EMAIL"}
    BY <1>3, <1>a, <1>c DEF VerifyConfirm, At, Fits, RowTasks, Current
  <2>2. UNCHANGED <<answer, dispute>>
    BY <1>3 DEF VerifyConfirm, supplierVars
  <2>3. review'[r] = review[r] \/ (~review'[r].token /\ review[r].status = "PENDING_EMAIL")
    BY <1>3, <2>1, <1>b DEF VerifyConfirm, ReviewRow, Stands
  <2> QED
    BY <2>2, <2>3, <1>a DEF Sound, Is
<1>4. ASSUME NEW p \in Procs, Moderate(p)
      PROVE  Sound(r)'
  <2>1. doing[p].on \in Rows /\ (scene.page => review[doing[p].on].status \in Judged)
    BY <1>4, <1>a, <1>c DEF Moderate, At, Fits, RowTasks, Current
  <2>2. UNCHANGED <<answer, dispute>>
    BY <1>4 DEF Moderate, supplierVars
  <2>3. review'[r] = review[r] \/ (review'[r].token = review[r].token /\ r = doing[p].on)
    BY <1>4, <2>1, <1>b DEF Moderate, ReviewRow
  <2> QED
    BY <2>1, <2>2, <2>3, <1>a DEF Sound, Is, Judged
<1>5. ASSUME NEW p \in Procs, ResolveHide(p)
      PROVE  Sound(r)'
  <2>1. UNCHANGED <<answer, dispute>>
    BY <1>5 DEF ResolveHide, supplierVars
  <2>2. review'[r] = review[r] \/ review'[r].status = "HIDDEN"
    BY <1>5, <1>b DEF ResolveHide, ReviewRow
  <2> QED
    BY <2>1, <2>2, <1>a DEF Sound, Is
<1>6. ASSUME NEW p \in Procs, AnswerWrite(p)
      PROVE  Sound(r)'
  <2> DEFINE q == doing[p].on
             to == doing[p].arg
  <2>1. /\ q \in Rows /\ to \in {"DRAFT", "PENDING_MODERATION"} \cup Decisions
        /\ Stands(q) => Allowed(to, q)
    BY <1>6, <1>a, <1>c DEF AnswerWrite, At, Fits, RowTasks, Current
  <2>2. UNCHANGED <<review, dispute>>
    BY <1>6 DEF AnswerWrite, reviewVars
  <2>3. CASE ~Stands(q)
    BY <1>6, <2>2, <2>3, <1>a DEF AnswerWrite, Sound, Is
  <2>4. CASE Stands(q) /\ to = "DRAFT"
    <3>1. PICK text \in 1..2 :
            answer' = [answer EXCEPT ![q].text = text,
                                     ![q].status = IF @ = "none" THEN "DRAFT" ELSE @]
      BY <1>6, <2>4 DEF AnswerWrite
    <3>2. answer[q].status \in {"none", "DRAFT"}
      BY <2>1, <2>4 DEF Allowed, Editable
    <3>3. answer'[r] = answer[r] \/ answer'[r].status = "DRAFT"
      BY <3>1, <3>2, <2>1, <1>b DEF AnswerRow
    <3> QED
      BY <3>3, <2>2, <1>a DEF Sound, Is
  <2>5. CASE Stands(q) /\ to = "PENDING_MODERATION"
    <3>1. answer' = [answer EXCEPT ![q].status = to, ![q].sent = answer[q].text]
      BY <1>6, <2>5 DEF AnswerWrite
    <3>2. answer'[r] = answer[r] \/ answer'[r].text = answer'[r].sent
      BY <3>1, <2>1, <1>b DEF AnswerRow
    <3> QED
      BY <3>2, <2>2, <1>a DEF Sound, Is
  <2>6. CASE Stands(q) /\ to \in Decisions
    <3>1. answer' = [answer EXCEPT ![q].status = to]
      BY <1>6, <2>6 DEF AnswerWrite, Decisions
    <3>2. answer[q].status = "PENDING_MODERATION"
      BY <2>1, <2>6 DEF Allowed, Decisions
    <3>3. \/ answer'[r] = answer[r]
          \/ r = q /\ answer'[r].text = answer[r].text /\ answer'[r].sent = answer[r].sent
      BY <3>1, <2>1, <1>b DEF AnswerRow
    <3> QED
      BY <3>2, <3>3, <2>2, <1>a DEF Sound, Is
  <2> QED
    BY <2>1, <2>3, <2>4, <2>5, <2>6
<1>7. ASSUME NEW p \in Procs, ResolveClose(p)
      PROVE  Sound(r)'
  <2>1. doing[p].arg = "HIDE" => Is(doing[p].on, "HIDDEN")
    BY <1>7, <1>a DEF ResolveClose, At, Current
  <2>2. UNCHANGED <<review, answer>>
    BY <1>7 DEF ResolveClose, reviewVars
  <2>3. dispute'[r] = dispute[r] \/ (r = doing[p].on /\ dispute'[r] = doing[p].arg)
    BY <1>7, <1>b DEF ResolveClose
  <2> QED
    BY <2>1, <2>2, <2>3, <1>a DEF Sound, Is
<1>8. ASSUME NEW S, Remove(S)
      PROVE  Sound(r)'
  <2>1. \/ review'[r] = review[r] /\ answer'[r] = answer[r] /\ dispute'[r] = dispute[r]
        \/ review'[r] = NoReview /\ answer'[r] = NoAnswer /\ dispute'[r] = "none"
    BY <1>8 DEF Remove
  <2> QED
    BY <2>1, <1>a DEF Sound, Is, NoReview, NoAnswer
<1>9. ASSUME NEW q \in Rows, Expire(q)
      PROVE  Sound(r)'
  <2>1. review'[r].status = review[r].status /\ review'[r].token = review[r].token
    BY <1>9, <1>b DEF Expire, ReviewRow
  <2> QED
    BY <1>9, <2>1, <1>a DEF Expire, supplierVars, Sound, Is
<1>10. ASSUME NEW q \in Rows, OpenDispute(q)
       PROVE  Sound(r)'
  <2>1. dispute'[r] = dispute[r] \/ dispute'[r] = "MODERATOR_REVIEW"
    BY <1>10, <1>b DEF OpenDispute
  <2> QED
    BY <1>10, <2>1, <1>a DEF OpenDispute, reviewVars, Sound, Is
<1> QED
  BY <1>1, <1>2, <1>3, <1>4, <1>5, <1>6, <1>7, <1>8, <1>9, <1>10, RowWrites

-----------------------------------------------------------------------------
\* Tasks that carry nothing that could be out of date.
Light == {"idle", "check", "insert", "link", "external", "verify", "delete", "vote", "cast",
          "tally", "answer", "resolve", "hide"}

\* Nothing that such a task carries has to be current.
LEMMA LightIsCurrent ==
  ASSUME NEW q \in Procs, doing'[q].do \in Light
  PROVE  Current(q)'
BY DEF Current, At, Light

\* While timed tasks run, time passes and disputes are opened, no review that a
\* handler is about is touched, unless its address never confirmed it.
LEMMA TimedTouches ==
  ASSUME TypeInv, Timed
  PROVE  /\ \A r \in Rows :
              \/ /\ review'[r].status = review[r].status /\ review'[r].of = review[r].of
                 /\ answer'[r] = answer[r] /\ vote'[r] = vote[r] /\ helpful'[r] = helpful[r]
              \/ /\ review[r].status = "PENDING_EMAIL" /\ review'[r] = NoReview
                 /\ vote'[r] = [i \in Ips |-> "none"] /\ helpful'[r] = 0
         /\ UNCHANGED <<external, rated>>
<1>b. review \in [Rows -> ReviewRow]
  BY DEF TypeInv, TypeOK, ReviewRow
<1>1. CASE CronStart \/ CronStep \/ (\E b \in Buyers : Age(b)) \/ UNCHANGED vars
  BY <1>1 DEF CronStart, CronStep, AskStore, AskMail, RemindMail, RemindMark, Age, vars,
              reviewVars, voteVars, supplierVars
<1>2. ASSUME NEW q \in Rows, Expire(q)
      PROVE  /\ \A r \in Rows : review'[r].status = review[r].status /\ review'[r].of = review[r].of
             /\ UNCHANGED <<external, rated, answer, vote, helpful>>
  BY <1>2, <1>b DEF Expire, ReviewRow, voteVars, supplierVars
<1>3. ASSUME NEW q \in Rows, OpenDispute(q)
      PROVE  UNCHANGED <<review, external, rated, answer, vote, helpful>>
  BY <1>3 DEF OpenDispute, reviewVars, voteVars
<1>4. CASE Cleanup
  BY <1>4 DEF Cleanup, Leftover, Unconfirmed, Is, Remove
<1> QED
  BY <1>1, <1>2, <1>3, <1>4 DEF Timed

\* Timed steps leave what the ratings count as it was.
LEMMA TimedCounts ==
  ASSUME TypeInv, Timed, NEW t
  PROVE  Counted(t)' = Counted(t)
<1>1. \A r \in Rows :
        /\ review'[r].status = "APPROVED" <=> review[r].status = "APPROVED"
        /\ review[r].status = "APPROVED" => review'[r].of = review[r].of
  BY TimedTouches DEF NoReview
<1>2. UNCHANGED external
  BY TimedTouches
<1>3. {r \in Rows : review'[r].status = "APPROVED"} = {r \in Rows : review[r].status = "APPROVED"}
  BY <1>1
<1>4. {r \in Rows : review'[r].status = "APPROVED" /\ review'[r].of = "event"}
        = {r \in Rows : review[r].status = "APPROVED" /\ review[r].of = "event"}
  BY <1>1
<1> QED
  BY <1>2, <1>3, <1>4 DEF Counted, Is

\* What a handler alone has read is still so when it writes.
LEMMA CurrentKept ==
  ASSUME TypeInv, InTurn, Serial, TurnInv, [Next]_vars, NEW q \in Procs
  PROVE  Current(q)'
<1>a. /\ \A r \in Rows : Sound(r)
      /\ \A p \in Procs : Current(p)
      /\ UNCHANGED scene
  BY SceneStays DEF TurnInv
<1>b. review \in [Rows -> ReviewRow] /\ answer \in [Rows -> AnswerRow]
  BY DEF TypeInv, TypeOK, ReviewRow, AnswerRow
<1>c. /\ \A p \in Procs : doing[p] \in HandlerRow /\ Fits(doing[p])
      /\ doing \in [Procs -> HandlerRow]
  BY DEF TypeInv, DoingOK
<1>1. CASE Ask
  <2>o. PICK p \in Procs : \E h : Opens(p, h)
    BY <1>1, Requests
  <2>1. PICK h : Opens(p, h)
    BY <2>o
  <2>2. Busy = {} /\ doing' = [doing EXCEPT ![p] = h]
    BY <2>1, FirstAlone DEF Opens
  <2>3. CASE q # p \/ h.do # "moderate"
    <3>1. doing'[q].do \in Light
      BY <2>1, <2>2, <2>3, <1>c DEF Opens, Light, Busy
    <3> QED
      BY <3>1, LightIsCurrent
  <2>4. CASE q = p /\ h.do = "moderate"
    <3>1. doing'[q] = h /\ Offered(h.on, h.arg) /\ UNCHANGED review
      BY <2>1, <2>2, <2>4, <1>c DEF Opens, reviewVars
    <3>2. scene.page => review[h.on].status \in Judged
      BY <3>1 DEF Offered, Judged
    <3> QED
      BY <3>1, <3>2, <2>4, <1>a DEF Current, At
  <2> QED
    BY <2>3, <2>4
<1>2. ASSUME NEW p \in Procs, Step(p)
      PROVE  Current(q)'
  <2>a. p \in Busy /\ \E h : doing' = [doing EXCEPT ![p] = h]
    BY <1>2, Others
  <2>1. CASE q # p
    <3>1. doing'[q].do \in Light
      BY <2>1, <2>a, <1>c DEF InTurn, Busy, Light
    <3> QED
      BY <3>1, LightIsCurrent
  <2>2. CASE q = p
    <3>0. SUFFICES Current(p)'
      BY <2>2 DEF Current, At, Is, Judged, Stands, Allowed, Editable, Ups, Counted
    <3>r. PICK r : r = doing[p].on
      OBVIOUS
    <3>f. ASSUME Finish(p)
          PROVE  Current(p)'
      <4>1. doing'[p].do \in Light
        BY <3>f, <1>c DEF Finish, Then, Idle, Light
      <4> QED
        BY <4>1, LightIsCurrent
    <3>g. ASSUME NEW task, Go(p, task)
          PROVE  /\ doing'[p].do = task /\ doing'[p].on = r
                 /\ doing'[p].arg = doing[p].arg
                 /\ task \in Light => Current(p)'
      <4>1. doing'[p] = [doing[p] EXCEPT !.do = task]
        BY <3>g, <1>c DEF Go, Then
      <4>2. doing'[p].do = task /\ doing'[p].on = r /\ doing'[p].arg = doing[p].arg
        BY <4>1, <1>c, <3>r DEF HandlerRow
      <4> QED
        BY <4>2, LightIsCurrent
    <3>h. ASSUME NEW t, NEW last, Recount(p, t, last), last = "HIDE" => review'[r].status = "HIDDEN"
          PROVE  Current(p)'
      <4>1. doing'[p] = [doing[p] EXCEPT !.do = "count", !.of = t, !.arg = last]
        BY <3>h, <1>c DEF Recount, Then
      <4>2. doing'[p].do = "count" /\ doing'[p].arg = last /\ doing'[p].on = r
        BY <4>1, <1>c, <3>r DEF HandlerRow
      <4> QED
        BY <4>2, <3>h DEF Current, At, Is
    <3>1. CASE CreateCheck(p)
      <4>1. ASSUME NEW t, NEW proof, Then(p, [doing[p] EXCEPT !.do = "insert", !.of = t, !.arg = proof])
            PROVE  Current(p)'
        <5>1. doing'[p].do \in Light
          BY <4>1, <1>c DEF Then, HandlerRow, Light
        <5> QED
          BY <5>1, LightIsCurrent
      <4> QED
        BY <3>1, <4>1, <3>f DEF CreateCheck
    <3>2. CASE CreateInsert(p) \/ CreateLink(p) \/ VerifyConfirm(p) \/ VerifyExpired(p)
      BY <3>2, <3>f, <3>g DEF CreateInsert, CreateLink, VerifyConfirm, VerifyExpired, Light
    <3>3. CASE VerifyRead(p)
      <4>1. r \in Rows
        BY <3>3, <1>c, <3>r DEF VerifyRead, At, Fits, RowTasks
      <4>2. UNCHANGED review
        BY <3>3 DEF VerifyRead, reviewVars
      <4>3. ASSUME review[r].token, Go(p, "expired")
            PROVE  Current(p)'
        <5>1. doing'[p].do = "expired" /\ doing'[p].on = r
          BY <4>3, <3>g
        <5>2. scene.page => review[r].status \in {"none", "PENDING_EMAIL", "HIDDEN"}
          BY <4>1, <4>3, <1>a DEF Sound
        <5> QED
          BY <5>1, <5>2, <4>2, <1>a DEF Current, At
      <4>4. ASSUME review[r].status = "PENDING_EMAIL", Go(p, "confirm")
            PROVE  Current(p)'
        <5>1. doing'[p].do = "confirm" /\ doing'[p].on = r
          BY <4>4, <3>g
        <5> QED
          BY <5>1, <4>4, <4>2 DEF Current, At
      <4> QED
        BY <3>3, <3>r, <4>1, <4>3, <4>4, <3>f, <1>b DEF VerifyRead, ReviewRow
    <3>4. CASE Moderate(p) \/ Delete(p) \/ ChangeExternal(p)
      BY <3>4, <3>f, <3>h DEF Moderate, Delete, ChangeExternal
    <3>5. CASE CountRead(p)
      <4>1. doing'[p] = [doing[p] EXCEPT !.do = "rate", !.read = Counted(doing[p].of)]
        BY <3>5, <1>c DEF CountRead, Then
      <4>2. /\ doing'[p].do = "rate" /\ doing'[p].on = r /\ doing'[p].arg = doing[p].arg
            /\ doing'[p].read = Counted(doing[p].of) /\ doing'[p].of = doing[p].of
        BY <4>1, <1>c, <3>r DEF HandlerRow
      <4>3. UNCHANGED <<review, external>>
        BY <3>5 DEF CountRead, reviewVars
      <4>5. doing'[p].read = Counted(doing[p].of)'
        BY <4>2, <4>3 DEF Counted, Is
      <4>6. doing[p].arg = "HIDE" => review[r].status = "HIDDEN"
        BY <3>5, <1>a, <3>r DEF CountRead, At, Current, Is
      <4> QED
        BY <4>2, <4>3, <4>5, <4>6 DEF Current, At, Is
    <3>6. CASE CountWrite(p)
      <4>1. UNCHANGED review
        BY <3>6 DEF CountWrite
      <4>2. doing[p].arg = "HIDE" => review[r].status = "HIDDEN"
        BY <3>6, <1>a, <3>r DEF CountWrite, At, Current, Is
      <4>3. ASSUME Go(p, "close")
            PROVE  Current(p)'
        BY <4>1, <4>2, <4>3, <3>g DEF Current, At, Is
      <4> QED
        BY <3>6, <4>3, <3>f DEF CountWrite
    <3>7. CASE VoteRead(p) \/ VoteWrite(p) \/ VoteStore(p) \/ AnswerWrite(p) \/ ResolveClose(p)
      BY <3>7, <3>f, <3>g DEF VoteRead, VoteWrite, VoteStore, AnswerWrite, ResolveClose, Light
    <3>8. CASE VoteTally(p)
      <4>1. doing'[p] = [doing[p] EXCEPT !.do = "store", !.read = Tally(r)]
        BY <3>8, <1>c, <3>r DEF VoteTally, Then
      <4>2. doing'[p].do = "store" /\ doing'[p].on = r /\ doing'[p].read = Ups(r)
        BY <4>1, <1>c, <3>r DEF HandlerRow, Tally
      <4>3. UNCHANGED vote
        BY <3>8 DEF VoteTally, voteVars
      <4> QED
        BY <4>2, <4>3 DEF Current, At, Ups
    <3>9. CASE AnswerRead(p)
      <4>1. UNCHANGED <<review, answer>>
        BY <3>9 DEF AnswerRead, reviewVars, supplierVars
      <4>2. ASSUME Go(p, "writeAnswer"), Allowed(doing[p].arg, r)
            PROVE  Current(p)'
        BY <4>1, <4>2, <3>g DEF Current, At, Allowed, Editable
      <4> QED
        BY <3>9, <3>r, <4>2, <3>f DEF AnswerRead, Allowed
    <3>10. CASE ResolveRead(p)
      <4>1. ASSUME Go(p, "close"), doing[p].arg # "HIDE"
            PROVE  Current(p)'
        BY <4>1, <3>g DEF Current, At
      <4> QED
        BY <3>10, <4>1, <3>f, <3>g DEF ResolveRead, Light
    <3>11. CASE ResolveHide(p)
      <4>1. r \in Rows
        BY <3>11, <1>c, <3>r DEF ResolveHide, At, Fits, RowTasks
      <4>2. Stands(r) => review'[r].status = "HIDDEN"
        <5>1. Stands(r) => review' = [review EXCEPT ![r].status = "HIDDEN"]
          BY <3>11, <3>r DEF ResolveHide
        <5>2. review[r] \in ReviewRow
          BY <4>1, <1>b
        <5>3. Stands(r) => review'[r].status = "HIDDEN"
          BY <5>1, <5>2, <4>1, <1>b DEF ReviewRow
        <5> QED
          BY <5>3
      <4> QED
        BY <3>11, <3>r, <4>2, <3>f, <3>h DEF ResolveHide
    <3> QED
      BY <1>2, <2>2, <3>1, <3>2, <3>3, <3>4, <3>5, <3>6, <3>7, <3>8, <3>9, <3>10, <3>11 DEF Step
  <2> QED
    BY <2>1, <2>2
<1>3. CASE Crash
  <2>1. doing'[q].do \in Light
    BY <1>3 DEF Crash, Idle, Light
  <2> QED
    BY <2>1, LightIsCurrent
<1>4. CASE Timed
  <2>r. PICK r : r = doing[q].on
    OBVIOUS
  <2>1. doing' = doing
    BY <1>4, TimedRests
  <2>2. CASE r \in Rows
    <3>1. \/ /\ review'[r].status = review[r].status
             /\ answer'[r] = answer[r] /\ vote'[r] = vote[r]
          \/ review[r].status = "PENDING_EMAIL" /\ review'[r].status = "none"
      BY <1>4, <2>2, TimedTouches DEF NoReview
    <3>2. Counted(doing[q].of)' = Counted(doing[q].of)
      <4>1. \A t : Counted(t)' = Counted(t)
        BY <1>4, TimedCounts
      <4>2. doing'[q].of = doing[q].of
        BY <2>1
      <4> QED
        BY <4>1, <4>2 DEF Counted, Is
    <3>3. Current(q)
      BY <1>a
    <3> QED
      BY <3>1, <3>2, <3>3, <2>r, <2>1, <1>a DEF Current, At, Is, Judged, Stands, Allowed, Editable, Ups
  <2>3. CASE r \notin Rows
    <3>1. \A t : Counted(t)' = Counted(t)
      BY <1>4, TimedCounts
    <3>2. doing[q].do \notin RowTasks /\ doing[q].arg # "HIDE"
      BY <2>3, <2>r, <1>c DEF Fits
    <3>3. At(q, "rate") => doing[q].read = Counted(doing[q].of)
      BY <1>a DEF Current
    <3>4. At(q, "rate") => doing[q].read = Counted(doing[q].of)'
      BY <3>1, <3>3, <2>1 DEF Counted, Is
    <3> QED
      BY <3>2, <3>4, <2>1 DEF Current, At, RowTasks
  <2> QED
    BY <2>2, <2>3
<1> QED
  BY <1>1, <1>2, <1>3, <1>4 DEF Next, Timed

-----------------------------------------------------------------------------
\* Votes and counts change only in these steps.
LEMMA VoteWrites ==
  ASSUME TypeInv, NEW p \in Procs, Step(p)
  PROVE  \/ UNCHANGED voteVars
         \/ VoteWrite(p) \/ VoteStore(p)
         \/ \E S : Remove(S)
BY DEF Step, CreateCheck, CreateInsert, CreateLink, VerifyRead, VerifyConfirm, VerifyExpired, Moderate,
       Delete, ChangeExternal, CountRead, CountWrite, VoteRead, VoteTally, AnswerRead, AnswerWrite,
       ResolveRead, ResolveHide, ResolveClose, voteVars

\* The count shown with a review is that of its votes, or about to be stored.
LEMMA HelpfulKept ==
  ASSUME TypeInv, InTurn, Serial, TurnInv, faults' = 0, [Next]_vars, NEW r \in Rows,
         \A q \in Rows : Helped(q) \/ (Tallying(q) /\ Stands(q))
  PROVE  Helped(r)' \/ (Tallying(r)' /\ review'[r].status # "none")
<1>a. /\ \A p \in Procs : Current(p)
      /\ \A p, q \in Procs : p \in Busy /\ q \in Busy => p = q
  BY DEF TurnInv, InTurn
<1>b. /\ helpful \in [Rows -> 0..Cardinality(Ips)] /\ vote \in [Rows -> [Ips -> Choices]]
      /\ faults \in Nat
  BY ReviewAssumption DEF TypeInv, TypeOK
<1>c. /\ \A p \in Procs : doing[p] \in HandlerRow /\ Fits(doing[p])
      /\ doing \in [Procs -> HandlerRow]
  BY DEF TypeInv, DoingOK
<1>d. ASSUME ~Tallying(r), UNCHANGED voteVars
      PROVE  Helped(r)'
  BY <1>d DEF Helped, Ups, voteVars
<1>e. ASSUME NEW S, Remove(S), ~Tallying(r)
      PROVE  Helped(r)'
  <2>1. CASE r \in S
    <3>1. Ups(r)' = {}
      BY <1>e, <2>1 DEF Remove, Ups
    <3>2. helpful'[r] = 0
      BY <1>e, <2>1 DEF Remove
    <3> QED
      BY <3>1, <3>2, FS_EmptySet DEF Helped
  <2>2. CASE r \notin S
    BY <1>e, <2>2 DEF Remove, Helped, Ups
  <2> QED
    BY <2>1, <2>2
<1>1. CASE Ask
  <2>o. PICK p \in Procs : \E h : Opens(p, h)
    BY <1>1, Requests
  <2>1. PICK h : Opens(p, h)
    BY <2>o
  <2>2. Busy = {} /\ UNCHANGED voteVars
    BY <2>1, FirstAlone DEF Opens
  <2>3. ~Tallying(r)
    BY <2>2 DEF Tallying, Busy
  <2> QED
    BY <2>2, <2>3, <1>d
<1>2. ASSUME NEW p \in Procs, Step(p)
      PROVE  Helped(r)' \/ (Tallying(r)' /\ review'[r].status # "none")
  <2>a. p \in Busy
    BY <1>2, Others
  <2>b. Tallying(r) => doing[p].do \in {"tally", "store"} /\ doing[p].on = r
    BY <2>a, <1>a DEF Tallying, Busy
  <2>1. CASE VoteWrite(p)
    <3>1. ~Tallying(r)
      BY <2>1, <2>b DEF VoteWrite, At
    <3>2. CASE r = doing[p].on /\ Stands(r)
      <4>1. doing' = [doing EXCEPT ![p] = [doing[p] EXCEPT !.do = "tally"]] /\ UNCHANGED review
        BY <2>1, <3>2 DEF VoteWrite, Go, Then, reviewVars
      <4>2. doing'[p].do = "tally" /\ doing'[p].on = r
        BY <4>1, <3>2, <1>c DEF HandlerRow
      <4> QED
        BY <4>1, <4>2, <3>2 DEF Tallying, Stands
    <3>3. CASE ~(r = doing[p].on /\ Stands(r))
      <4>1. vote'[r] = vote[r] /\ helpful'[r] = helpful[r]
        <5>1. CASE Stands(doing[p].on)
          <6>1. r # doing[p].on
            BY <5>1, <3>3
          <6>2. PICK i \in Ips : vote' = [vote EXCEPT ![doing[p].on][i] =
                                      IF @ = doing[p].arg THEN "none" ELSE doing[p].arg]
            BY <2>1, <5>1 DEF VoteWrite
          <6> QED
            BY <6>1, <6>2, <2>1, <1>b DEF VoteWrite
        <5>2. CASE ~Stands(doing[p].on)
          BY <5>2, <2>1 DEF VoteWrite
        <5> QED
          BY <5>1, <5>2
      <4> QED
        BY <4>1, <3>1 DEF Helped, Ups
    <3> QED
      BY <3>2, <3>3
  <2>2. CASE VoteStore(p)
    <3>1. UNCHANGED <<vote, review>>
      BY <2>2 DEF VoteStore, reviewVars
    <3>2. CASE r # doing[p].on
      <4>1. helpful'[r] = helpful[r] /\ ~Tallying(r)
        BY <2>2, <2>b, <3>2, <1>b DEF VoteStore
      <4> QED
        BY <4>1, <3>1 DEF Helped, Ups
    <3>3. CASE r = doing[p].on /\ ~Stands(r)
      BY <2>2, <3>1, <3>3 DEF VoteStore, Helped, Ups
    <3>4. CASE r = doing[p].on /\ Stands(r)
      <4>1. doing[p].read = Ups(r)
        BY <2>2, <3>4, <1>a DEF VoteStore, At, Current
      <4>2. helpful'[r] = Cardinality(Ups(r))
        BY <2>2, <3>4, <4>1, <1>b DEF VoteStore
      <4> QED
        BY <4>2, <3>1 DEF Helped, Ups
    <3> QED
      BY <3>2, <3>3, <3>4
  <2>3. CASE VoteTally(p)
    <3>1. UNCHANGED <<vote, helpful, review>>
      BY <2>3 DEF VoteTally, voteVars, reviewVars
    <3>2. CASE Tallying(r) /\ Stands(r)
      <4>1. doing' = [doing EXCEPT ![p] = [doing[p] EXCEPT !.do = "store", !.read = Tally(doing[p].on)]]
        BY <2>3 DEF VoteTally, Then
      <4>2. doing'[p].do = "store" /\ doing'[p].on = r
        BY <4>1, <3>2, <2>b, <1>c DEF HandlerRow
      <4> QED
        BY <4>2, <3>1, <3>2 DEF Tallying, Stands
    <3>3. CASE Helped(r)
      BY <3>1, <3>3 DEF Helped, Ups
    <3> QED
      BY <3>2, <3>3
  <2>4. CASE ~VoteWrite(p) /\ ~VoteStore(p) /\ ~VoteTally(p)
    <3>1. doing[p].do \notin {"tally", "store"}
      BY <1>2, <2>4 DEF Step, At, CreateCheck, CreateInsert, CreateLink, VerifyRead, VerifyConfirm,
           VerifyExpired, Moderate, Delete, ChangeExternal, CountRead, CountWrite, VoteRead,
           AnswerRead, AnswerWrite, ResolveRead, ResolveHide, ResolveClose
    <3>2. ~Tallying(r)
      BY <3>1, <2>b
    <3> QED
      BY <3>2, <2>4, <1>2, <1>d, <1>e, VoteWrites
  <2> QED
    BY <2>1, <2>2, <2>3, <2>4
<1>3. CASE Crash
  BY <1>3, <1>b DEF Crash
<1>4. CASE Timed
  <2>1. CASE review[r].status = "PENDING_EMAIL" /\ vote'[r] = [i \in Ips |-> "none"] /\ helpful'[r] = 0
    <3>1. Ups(r)' = {}
      BY <2>1 DEF Ups
    <3> QED
      BY <2>1, <3>1, FS_EmptySet DEF Helped
  <2>2. CASE vote'[r] = vote[r] /\ helpful'[r] = helpful[r] /\ review'[r].status = review[r].status
    <3>1. doing' = doing
      BY <1>4, TimedRests
    <3>2. Helped(r) => Helped(r)'
      BY <2>2 DEF Helped, Ups
    <3>3. Tallying(r) /\ Stands(r) => Tallying(r)' /\ review'[r].status # "none"
      BY <3>1, <2>2 DEF Tallying, Stands
    <3> QED
      BY <3>2, <3>3
  <2> QED
    BY <2>1, <2>2, <1>4, TimedTouches
<1> QED
  BY <1>1, <1>2, <1>3, <1>4 DEF Next, Timed

-----------------------------------------------------------------------------
\* Reviews, external ones and ratings change only in these steps.
LEMMA RatingWrites ==
  ASSUME TypeInv, NEW p \in Procs, Step(p)
  PROVE  \/ UNCHANGED reviewVars
         \/ CreateInsert(p) \/ VerifyConfirm(p) \/ VerifyExpired(p) \/ Moderate(p) \/ Delete(p)
         \/ ResolveHide(p) \/ ChangeExternal(p) \/ CountWrite(p)
BY DEF Step, CreateCheck, CreateLink, VerifyRead, CountRead, VoteRead, VoteWrite, VoteTally, VoteStore,
       AnswerRead, AnswerWrite, ResolveRead, ResolveClose, reviewVars

\* A review that is not counted before or after a step leaves the ratings right.
Uncounted(r) ==
  \/ review'[r].status = review[r].status /\ review'[r].of = review[r].of
  \/ /\ review[r].status # "APPROVED" /\ review'[r].status # "APPROVED"
     /\ review'[r].of = "venue" => r \notin rated["venue"] \/ review[r].of = "venue"

\* Then a rating that was right is right still.
LEMMA StillRight ==
  ASSUME \A r \in Rows : Uncounted(r), UNCHANGED <<external, rated>>
  PROVE  (EventRight => EventRight') /\ (VenueRight => VenueRight')
BY DEF Uncounted, EventRight, VenueRight

\* A rating that no handler is about to store counts what is published.
LEMMA RatedKept ==
  ASSUME TypeInv, InTurn, Serial, TurnInv, scene.page, faults' = 0, [Next]_vars,
         EventRight \/ Counting("event"), VenueRight \/ Counting("venue")
  PROVE  (EventRight' \/ Counting("event")') /\ (VenueRight' \/ Counting("venue")')
<1>a. /\ \A p \in Procs : Current(p)
      /\ \A p, q \in Procs : p \in Busy /\ q \in Busy => p = q
      /\ \A r \in Rows : Sound(r)
      /\ scene.rows \subseteq Rows
  BY ReviewAssumption DEF TurnInv, InTurn, TypeInv, TypeOK
<1>b. /\ review \in [Rows -> ReviewRow] /\ external \subseteq Externals
      /\ rated \in [Targets -> SUBSET (Rows \cup Externals)]
      /\ faults \in Nat
  BY ReviewAssumption DEF TypeInv, TypeOK, ReviewRow
<1>c. /\ \A p \in Procs : doing[p] \in HandlerRow /\ Fits(doing[p])
      /\ doing \in [Procs -> HandlerRow]
  BY DEF TypeInv, DoingOK
<1>1. CASE Ask
  <2>o. PICK p \in Procs : \E h : Opens(p, h)
    BY <1>1, Requests
  <2>1. PICK h : Opens(p, h)
    BY <2>o
  <2>2. Busy = {} /\ UNCHANGED reviewVars
    BY <2>1, FirstAlone DEF Opens
  <2>3. ~Counting("event") /\ ~Counting("venue")
    BY <2>2 DEF Counting, Busy
  <2> QED
    BY <2>2, <2>3 DEF EventRight, VenueRight, reviewVars
<1>2. ASSUME NEW p \in Procs, Step(p)
      PROVE  (EventRight' \/ Counting("event")') /\ (VenueRight' \/ Counting("venue")')
  <2>a. p \in Busy
    BY <1>2, Others
  <2>b. \A t : Counting(t) => doing[p].do \in {"count", "rate"} /\ doing[p].of = t
    BY <2>a, <1>a DEF Counting, Busy
  <2>c. ASSUME NEW t, NEW last, Recount(p, t, last)
        PROVE  Counting(t)'
    <3>1. doing'[p] = [doing[p] EXCEPT !.do = "count", !.of = t, !.arg = last]
      BY <2>c, <1>c DEF Recount, Then
    <3>2. doing'[p].do = "count" /\ doing'[p].of = t
      BY <3>1, <1>c DEF HandlerRow
    <3> QED
      BY <3>2 DEF Counting
  <2>d. PICK r : r = doing[p].on
    OBVIOUS
  <2>1. CASE CountRead(p)
    <3>1. doing'[p] = [doing[p] EXCEPT !.do = "rate", !.read = Counted(doing[p].of)]
      BY <2>1, <1>c DEF CountRead, Then
    <3>2. doing'[p].do = "rate" /\ doing'[p].of = doing[p].of
      BY <3>1, <1>c DEF HandlerRow
    <3>3. \A t : Counting(t) => Counting(t)'
      BY <3>2, <2>b DEF Counting
    <3>4. (EventRight => EventRight') /\ (VenueRight => VenueRight')
      BY <2>1 DEF CountRead, reviewVars, EventRight, VenueRight
    <3> QED
      BY <3>3, <3>4
  <2>2. CASE CountWrite(p)
    <3>1. /\ rated' = [rated EXCEPT ![doing[p].of] = Counted(doing[p].of)]
          /\ UNCHANGED <<review, external>>
      BY <2>2, <1>a DEF CountWrite, At, Current
    <3>2. doing[p].of \in Targets
      BY <1>c DEF HandlerRow
    <3>3. CASE doing[p].of = "event"
      <4>1. rated'["event"] = Counted("event") /\ rated'["venue"] = rated["venue"]
        BY <3>1, <3>3, <1>b DEF Targets
      <4>2. EventRight'
        BY <4>1, <3>1, <1>b, ReviewAssumption DEF EventRight, Counted, Is
      <4>3. VenueRight
        BY <3>3, <2>b
      <4> QED
        BY <4>1, <4>2, <4>3, <3>1 DEF VenueRight
    <3>4. CASE doing[p].of = "venue"
      <4>1. rated'["venue"] = Counted("venue") /\ rated'["event"] = rated["event"]
        BY <3>1, <3>4, <1>b DEF Targets
      <4>2. VenueRight'
        BY <4>1, <3>1 DEF VenueRight, Counted, Is
      <4>3. EventRight
        BY <3>4, <2>b
      <4> QED
        BY <4>1, <4>2, <4>3, <3>1 DEF EventRight
    <3> QED
      BY <3>2, <3>3, <3>4 DEF Targets
  <2>3. CASE ~CountRead(p) /\ ~CountWrite(p)
    <3>1. doing[p].do \notin {"count", "rate"}
      BY <1>2, <2>3 DEF Step, At, CreateCheck, CreateInsert, CreateLink, VerifyRead, VerifyConfirm,
           VerifyExpired, Moderate, Delete, ChangeExternal, VoteRead, VoteWrite, VoteTally, VoteStore,
           AnswerRead, AnswerWrite, ResolveRead, ResolveHide, ResolveClose
    <3>2. EventRight /\ VenueRight
      BY <3>1, <2>b
    <3>3. CASE UNCHANGED reviewVars
      BY <3>2, <3>3 DEF EventRight, VenueRight, reviewVars
    <3>4. CASE CreateInsert(p)
      <4>1. PICK q \in Rows :
              /\ Unused(q)
              /\ review' = [review EXCEPT ![q] =
                   [status |-> IF doing[p].arg = "link" THEN "PENDING" ELSE "PENDING_EMAIL",
                    by |-> doing[p].on, of |-> doing[p].of, token |-> ~(doing[p].arg = "link"),
                    old |-> FALSE, confirmed |-> doing[p].arg = "link"]]
        BY <3>4, <1>a DEF CreateInsert
      <4>2. \A x \in Rows : Uncounted(x)
        BY <4>1, <1>b DEF Uncounted, Unused, Stands, Targets
      <4> QED
        BY <4>2, <3>2, <3>4, StillRight DEF CreateInsert
    <3>5. CASE VerifyConfirm(p)
      <4>1. r \in Rows /\ review[r].status \in {"none", "PENDING_EMAIL"}
        BY <3>5, <2>d, <1>a, <1>c DEF VerifyConfirm, At, Fits, RowTasks, Current
      <4>2. \A x \in Rows : x # r => review'[x] = review[x]
        BY <3>5, <2>d, <4>1, <1>b DEF VerifyConfirm
      <4>3. review'[r] = review[r] \/ (review'[r].status = "PENDING" /\ review'[r].of = review[r].of)
        BY <3>5, <2>d, <4>1, <1>b DEF VerifyConfirm, ReviewRow
      <4>4. \A x \in Rows : Uncounted(x)
        BY <4>1, <4>2, <4>3 DEF Uncounted
      <4> QED
        BY <4>4, <3>2, <3>5, StillRight DEF VerifyConfirm
    <3>6. CASE VerifyExpired(p)
      <4>1. r \in Rows /\ review[r].status \in {"none", "PENDING_EMAIL", "HIDDEN"}
        BY <3>6, <2>d, <1>a, <1>c DEF VerifyExpired, At, Fits, RowTasks, Current
      <4>2. \A x \in Rows : review'[x] = IF x = r THEN NoReview ELSE review[x]
        BY <3>6, <2>d DEF VerifyExpired, Remove
      <4>3. \A x \in Rows : Uncounted(x)
        BY <4>1, <4>2 DEF Uncounted, NoReview
      <4> QED
        BY <4>3, <3>2, <3>6, StillRight DEF VerifyExpired
    <3>7. ASSUME r \in Rows, \A x \in Rows : x # r => review'[x] = review[x],
                 review'[r].of = review[r].of \/ review'[r] = NoReview,
                 NEW last, Recount(p, review[r].of, last), UNCHANGED <<external, rated>>
          PROVE  (EventRight' \/ Counting("event")') /\ (VenueRight' \/ Counting("venue")')
      <4>1. review[r].of \in Targets
        BY <3>7, <1>b DEF ReviewRow
      <4>2. CASE review[r].of = "event"
        <5>1. Counting("event")'
          BY <3>7, <4>2, <2>c
        <5>2. VenueRight'
          BY <3>7, <4>2, <3>2 DEF VenueRight, NoReview
        <5> QED
          BY <5>1, <5>2
      <4>3. CASE review[r].of = "venue"
        <5>1. Counting("venue")'
          BY <3>7, <4>3, <2>c
        <5>2. CASE review'[r].of = "venue"
          <6>1. EventRight'
            BY <3>7, <4>3, <5>2, <3>2 DEF EventRight
          <6> QED
            BY <5>1, <6>1
        <5>3. CASE review'[r] = NoReview
          <6>1. EventRight'
            BY <3>7, <4>3, <5>3, <3>2 DEF EventRight, NoReview
          <6> QED
            BY <5>1, <6>1
        <5> QED
          BY <5>2, <5>3, <3>7, <4>3
      <4> QED
        BY <4>1, <4>2, <4>3 DEF Targets
    <3>8. CASE Moderate(p) \/ ResolveHide(p)
      <4>1. r \in Rows
        BY <3>8, <2>d, <1>c DEF Moderate, ResolveHide, At, Fits, RowTasks
      <4>2. CASE ~Stands(r)
        <5>1. UNCHANGED reviewVars
          BY <3>8, <4>2, <2>d DEF Moderate, ResolveHide, reviewVars
        <5> QED
          BY <5>1, <3>3
      <4>3. CASE Stands(r)
        <5>1. \E to, last : review' = [review EXCEPT ![r].status = to] /\ Recount(p, review[r].of, last)
          BY <3>8, <4>3, <2>d DEF Moderate, ResolveHide
        <5>2. UNCHANGED <<external, rated>>
          BY <3>8 DEF Moderate, ResolveHide
        <5>3. review'[r].of = review[r].of /\ \A x \in Rows : x # r => review'[x] = review[x]
          BY <5>1, <4>1, <1>b DEF ReviewRow
        <5> QED
          BY <5>1, <5>2, <5>3, <4>1, <3>7
      <4> QED
        BY <4>2, <4>3
    <3>9. CASE Delete(p)
      <4>1. r \in Rows
        BY <3>9, <2>d, <1>c DEF Delete, At, Fits, RowTasks
      <4>2. CASE ~Stands(r)
        <5>1. UNCHANGED reviewVars
          BY <3>9, <4>2, <2>d DEF Delete, reviewVars
        <5> QED
          BY <5>1, <3>3
      <4>3. CASE Stands(r)
        <5>1. Remove({r}) /\ Recount(p, review[r].of, "none") /\ UNCHANGED <<external, rated>>
          BY <3>9, <4>3, <2>d DEF Delete
        <5>2. review'[r] = NoReview /\ \A x \in Rows : x # r => review'[x] = review[x]
          BY <5>1, <4>1 DEF Remove
        <5> QED
          BY <5>1, <5>2, <4>1, <3>7
      <4> QED
        BY <4>2, <4>3
    <3>10. CASE ChangeExternal(p)
      <4>1. Counting("event")'
        BY <3>10, <2>c DEF ChangeExternal
      <4>2. VenueRight'
        BY <3>10, <3>2 DEF ChangeExternal, VenueRight
      <4> QED
        BY <4>1, <4>2
    <3> QED
      BY <1>2, <2>3, <3>3, <3>4, <3>5, <3>6, <3>8, <3>9, <3>10, RatingWrites
  <2> QED
    BY <2>1, <2>2, <2>3
<1>3. CASE Crash
  BY <1>3, <1>b DEF Crash
<1>4. CASE Timed
  <2>1. doing' = doing
    BY <1>4, TimedRests
  <2>2. \A t : Counting(t) => Counting(t)'
    BY <2>1 DEF Counting
  <2>3. (\A r \in Rows : Uncounted(r)) /\ UNCHANGED <<external, rated>>
    BY <1>4, TimedTouches DEF Uncounted, NoReview
  <2> QED
    BY <2>2, <2>3, StillRight
<1> QED
  BY <1>1, <1>2, <1>3, <1>4 DEF Next, Timed

-----------------------------------------------------------------------------
\* Faults are only counted up.
LEMMA FaultsGrow ==
  ASSUME TypeInv, [Next]_vars
  PROVE  faults' \in {faults, faults + 1}
<1>1. Ask => UNCHANGED faults
  BY Requests DEF Opens
<1> QED
  BY <1>1 DEF Next, Step, CreateCheck, CreateInsert, CreateLink, VerifyRead, VerifyConfirm, VerifyExpired,
     Moderate, Delete, ChangeExternal, CountRead, CountWrite, VoteRead, VoteWrite, VoteTally,
     VoteStore, AnswerRead, AnswerWrite, ResolveRead, ResolveHide, ResolveClose, CronStart,
     CronStep, AskStore, AskMail, RemindMail, RemindMark, Queue, Expire, OpenDispute, Age, Cleanup, Crash, vars

\* The invariant holds at the start and is kept by every step.
LEMMA InductiveAtStart == Init => Inductive
<1> SUFFICES ASSUME Init PROVE Inductive
  OBVIOUS
<1>1. TypeInv
  BY TypesAtStart
<1>2. \A p \in Procs : doing[p].do = "idle" /\ doing[p].arg = "none"
  BY DEF Init, Idle
<1>3. ConfirmedInv /\ InTurn
  BY <1>2 DEF Init, ConfirmedInv, InTurn, Busy, At, NoReview, Judged
<1>4. TurnInv
  BY <1>2 DEF Init, TurnInv, Current, Sound, At, NoReview, NoAnswer, Is
<1>5. \A r \in Rows : Helped(r)
  <2> SUFFICES ASSUME NEW r \in Rows PROVE Helped(r)
    OBVIOUS
  <2>1. Ups(r) = {} /\ helpful[r] = 0
    BY DEF Init, Ups
  <2> QED
    BY <2>1, FS_EmptySet DEF Helped
<1>6. EventRight /\ VenueRight
  BY DEF Init, EventRight, VenueRight, NoReview, Targets
<1> QED
  BY <1>1, <1>3, <1>4, <1>5, <1>6 DEF Inductive, FigureInv

\* Every step keeps the inductive invariant.
LEMMA InductiveKept == Inductive /\ [Next]_vars => Inductive'
<1> SUFFICES ASSUME Inductive, [Next]_vars PROVE Inductive'
  OBVIOUS
<1>1. TypeInv' /\ ConfirmedInv' /\ InTurn' /\ UNCHANGED scene
  BY TasksKept, TablesKept, VettingKept, TurnsKept, SceneStays DEF Inductive, TypeInv
<1>2. TurnInv'
  <2> SUFFICES ASSUME Serial PROVE (\A p \in Procs : Current(p)') /\ \A r \in Rows : Sound(r)'
    BY <1>1 DEF TurnInv, Serial
  <2> QED
    BY SoundKept, CurrentKept DEF Inductive
<1>3. FigureInv'
  <2>1. SUFFICES ASSUME Serial, faults' = 0
                 PROVE  /\ \A r \in Rows : Helped(r)' \/ (Tallying(r)' /\ Stands(r)')
                        /\ scene.page => /\ EventRight' \/ Counting("event")'
                                         /\ VenueRight' \/ Counting("venue")'
    BY <1>1 DEF FigureInv, Serial
  <2>2. faults = 0
    <3>1. faults \in Nat
      BY ReviewAssumption DEF Inductive, TypeInv, TypeOK
    <3>2. faults' \in {faults, faults + 1}
      BY FaultsGrow DEF Inductive
    <3> QED
      BY <2>1, <3>1, <3>2
  <2>3. /\ \A r \in Rows : Helped(r) \/ (Tallying(r) /\ Stands(r))
        /\ scene.page => /\ EventRight \/ Counting("event")
                         /\ VenueRight \/ Counting("venue")
    BY <2>1, <2>2 DEF Inductive, FigureInv
  <2>4. \A r \in Rows : Helped(r)' \/ (Tallying(r)' /\ review'[r].status # "none")
    BY <2>1, <2>3, HelpfulKept DEF Inductive
  <2>5. scene.page => /\ EventRight' \/ Counting("event")'
                      /\ VenueRight' \/ Counting("venue")'
    BY <2>1, <2>3, RatedKept DEF Inductive
  <2> QED
    BY <2>4, <2>5 DEF Stands
<1> QED
  BY <1>1, <1>2, <1>3 DEF Inductive

\* So it holds in every reachable state.
LEMMA InductiveHolds == Spec => []Inductive
BY InductiveAtStart, InductiveKept, PTL DEF Spec

\* What visitors see has been vetted: in every interleaving of confirmations,
\* moderation from the page and cleaning a published review was confirmed;
\* with handlers in turn it is not one a dispute has hidden, and the answer
\* shown has the text that was sent to the moderators.
THEOREM ShownIsVetted == Spec => []OnlyVettedIsShown
<1>1. Inductive => OnlyVettedIsShown
  BY DEF Inductive, OnlyVettedIsShown, ConfirmedInv, TurnInv, Sound, Is, Judged
<1> QED
  BY <1>1, InductiveHolds, PTL

\* When no handler runs and none has died, the ratings count what is published
\* and the count shown with a review is the number of its helpful votes.
THEOREM FiguresFollow == Spec => []FiguresAreCurrent
<1>1. Inductive => FiguresAreCurrent
  <2> SUFFICES ASSUME Inductive, Quiet
               PROVE  /\ \A r \in Rows : helpful[r] = Cardinality(Ups(r))
                      /\ scene.page =>
                           /\ rated["event"] = Counted("event")
                           /\ LET direct == {r \in Rows : review[r].of = "venue"} IN
                                rated["venue"] \cap direct = Counted("venue") \cap direct
    BY DEF FiguresAreCurrent
  <2>1. /\ \A r \in Rows : ~Tallying(r)
        /\ \A t : ~Counting(t)
        /\ Serial /\ faults = 0
    BY DEF Quiet, Busy, Tallying, Counting
  <2>2. \A r \in Rows : helpful[r] = Cardinality(Ups(r))
    BY <2>1 DEF Inductive, FigureInv, Helped
  <2>3. scene.page => EventRight /\ VenueRight
    BY <2>1 DEF Inductive, FigureInv
  <2>4. rated["event"] \subseteq Rows \cup Externals /\ external \subseteq Externals
    BY DEF Inductive, TypeInv, TypeOK, Targets
  <2>5. EventRight => rated["event"] = Counted("event")
    BY <2>4, ReviewAssumption DEF EventRight, Counted, Is
  <2>6. VenueRight => LET direct == {r \in Rows : review[r].of = "venue"} IN
                        rated["venue"] \cap direct = Counted("venue") \cap direct
    BY DEF VenueRight, Counted, Is
  <2> QED
    BY <2>2, <2>3, <2>5, <2>6
<1> QED
  BY <1>1, InductiveHolds, PTL
=============================================================================
