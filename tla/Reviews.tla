------------------------------- MODULE Reviews -------------------------------
(***************************************************************************)
(* Reviews of one event and of its venue: writing and confirming a review, *)
(* moderation and the ratings computed from it, votes, the answer of the   *)
(* supplier and his dispute, and the timed tasks that ask visitors for a   *)
(* review, remind them, and remove what nobody confirmed.                  *)
(*                                                                         *)
(* None of these handlers uses a transaction: every await between a read   *)
(* and a write that depends on it separates two steps.                     *)
(***************************************************************************)
EXTENDS Naturals, FiniteSets

CONSTANTS
  Rows,       \* Review rows
  Externals,  \* ExternalReview rows of the event
  Buyers,     \* e-mail addresses
  Ips,        \* hashed addresses that vote
  Nobody,
  Procs,      \* requests that may be in progress
  Scenes,     \* who acts on which rows, and how many handlers at one time
  MaxFaults   \* bound: crashes, and mails the queue does not take

Roles == {"create", "verify", "moderate", "delete", "external", "vote",
          "answer", "dispute", "cron"}
Targets == {"event", "venue"}

ASSUME ReviewAssumption ==
  /\ Nobody \notin Rows \cup Buyers \cup Externals /\ Rows \cap Externals = {}
  /\ Scenes \subseteq [roles : SUBSET Roles, rows : SUBSET Rows, overlap : Nat, page : BOOLEAN]
  /\ IsFiniteSet(Procs) /\ IsFiniteSet(Ips)
  /\ MaxFaults \in Nat

VARIABLES
  scene,      \* who acts in this behaviour
  review,     \* the Review rows
  external,   \* the ExternalReview rows of the event
  rated,      \* the reviews that each stored rating was computed from
  vote,       \* the ReviewVote rows of each review
  helpful,    \* Review.helpfulCount
  answer,     \* ReviewSupplierResponse of each review
  dispute,    \* ReviewDispute.status of each review
  asked,      \* the ReviewRequest of each buyer
  mails,      \* requests and reminders that were queued for each buyer
  cron,       \* the run of a timed task
  doing,      \* what each handler does next and what it has read
  faults

reviewVars == <<review, external, rated>>
voteVars == <<vote, helpful>>
supplierVars == <<answer, dispute>>
askVars == <<asked, mails, cron>>
vars == <<scene, reviewVars, voteVars, supplierVars, askVars, doing, faults>>

Statuses == {"PENDING_EMAIL", "PENDING", "APPROVED", "REJECTED", "HIDDEN"}
NoReview == [status |-> "none", by |-> Nobody, of |-> "event", token |-> FALSE,
             old |-> FALSE, confirmed |-> FALSE]

NoAnswer == [status |-> "none", text |-> 0, sent |-> 0]
NotAsked == [sent |-> FALSE, old |-> FALSE, reminded |-> FALSE, reviewed |-> FALSE]

Choices == {"none", "up", "down"}
Outcomes == {"KEEP", "HIDE", "DELETE"}

Idle == [do |-> "idle", on |-> Nobody, arg |-> "none", read |-> {}, of |-> "event"]
NoRun == [do |-> "idle", batch |-> {}, on |-> Nobody]

TypeOK ==
  /\ scene \in Scenes
  /\ review \in [Rows -> [status : Statuses \cup {"none"}, by : Buyers \cup {Nobody},
                          of : Targets, token : BOOLEAN, old : BOOLEAN,
                          confirmed : BOOLEAN]]
  /\ external \subseteq Externals
  /\ rated \in [Targets -> SUBSET (Rows \cup Externals)]
  /\ vote \in [Rows -> [Ips -> Choices]]
  /\ helpful \in [Rows -> 0..Cardinality(Ips)]
  /\ answer \in [Rows -> [status : {"none", "DRAFT", "PENDING_MODERATION", "APPROVED", "REJECTED"},
                          text : 0..2, sent : 0..2]]
  /\ dispute \in [Rows -> {"none", "MODERATOR_REVIEW"} \cup Outcomes]
  /\ asked \in [Buyers -> [sent : BOOLEAN, old : BOOLEAN, reminded : BOOLEAN, reviewed : BOOLEAN]]
  /\ mails \in [Buyers -> Nat]
  /\ cron.batch \subseteq Buyers /\ cron.on \in Buyers \cup {Nobody}
  /\ \A p \in Procs : doing[p].on \in Rows \cup Buyers \cup Externals \cup {Nobody}
  /\ faults \in 0..MaxFaults

Init ==
  /\ scene \in Scenes
  /\ review = [r \in Rows |-> NoReview]
  /\ external = {}
  /\ rated = [t \in Targets |-> {}]
  /\ vote = [r \in Rows |-> [i \in Ips |-> "none"]]
  /\ helpful = [r \in Rows |-> 0]
  /\ answer = [r \in Rows |-> NoAnswer]
  /\ dispute = [r \in Rows |-> "none"]
  /\ asked = [b \in Buyers |-> NotAsked]
  /\ mails = [b \in Buyers |-> 0]
  /\ cron = NoRun
  /\ doing = [p \in Procs |-> Idle]
  /\ faults = 0

Stands(r) == review[r].status # "none"
Is(r, status) == review[r].status = status

-----------------------------------------------------------------------------
(***************************************************************************)
(* Handlers.                                                               *)
(***************************************************************************)
Busy == {p \in Procs : doing[p].do # "idle"}

Begin(role, p, do, on, arg) ==
  /\ role \in scene.roles
  /\ doing[p].do = "idle" /\ Cardinality(Busy) < scene.overlap
  /\ doing' = [doing EXCEPT ![p] = [Idle EXCEPT !.do = do, !.on = on, !.arg = arg]]
  /\ UNCHANGED <<scene, reviewVars, voteVars, supplierVars, askVars, faults>>

At(p, task) == doing[p].do = task
Then(p, task) == doing' = [doing EXCEPT ![p] = task]
Go(p, task) == Then(p, [doing[p] EXCEPT !.do = task])
Finish(p) == Then(p, Idle)

\* A restart ends the handlers and the timed tasks.
Crash ==
  /\ faults < MaxFaults /\ (Busy # {} \/ cron.do # "idle")
  /\ doing' = [p \in Procs |-> Idle]
  /\ cron' = NoRun
  /\ faults' = faults + 1
  /\ UNCHANGED <<scene, reviewVars, voteVars, supplierVars, asked, mails>>

-----------------------------------------------------------------------------
(***************************************************************************)
(* Writing a review.                                                       *)
(***************************************************************************)
ReviewsBy(b, t) == {r \in Rows : Stands(r) /\ review[r].by = b /\ review[r].of = t}

Duplicates(b, t) == ReviewsBy(b, t)

\* create: the duplicate is looked up, and a voucher or the link of a request
\* (anybody's, for the event) stands for the confirmed address.
CreateCheck(p) ==
  /\ At(p, "check")
  /\ \E t \in Targets :
       IF Duplicates(doing[p].on, t) # {} THEN Finish(p)
       ELSE \E proof \in {"none", "link"} :
              /\ proof = "link" => t = "event" /\ \E b \in Buyers : asked[b].sent
              /\ Then(p, [doing[p] EXCEPT !.do = "insert", !.of = t, !.arg = proof])
  /\ UNCHANGED <<scene, reviewVars, voteVars, supplierVars, askVars, faults>>

\* A row stands for a fresh id: no handler and no rating has it from its last use.
Unused(r) ==
  ~Stands(r) /\ (\A p \in Procs : doing[p].on # r) /\ \A t \in Targets : r \notin rated[t]

\* A mistake: every review goes to the moderators at once.
InsertPending(p) ==
  /\ At(p, "insert")
  /\ \E r \in scene.rows :
       /\ Unused(r)
       /\ review' = [review EXCEPT ![r] =
            [NoReview EXCEPT !.status = "PENDING", !.by = doing[p].on, !.of = doing[p].of,
                             !.confirmed = doing[p].arg = "link"]]
  /\ IF doing[p].arg = "link" THEN Go(p, "link") ELSE Finish(p)
  /\ UNCHANGED <<scene, external, rated, voteVars, supplierVars, askVars, faults>>

\* The unique index over address, event and venue never refuses a row: one
\* of the two targets is NULL.
CreateInsert(p) ==
  /\ At(p, "insert")
  /\ LET known == doing[p].arg = "link" IN
       /\ \E r \in scene.rows :
            /\ Unused(r)
            /\ review' = [review EXCEPT ![r] =
                 [status |-> IF known THEN "PENDING" ELSE "PENDING_EMAIL",
                  by |-> doing[p].on, of |-> doing[p].of, token |-> ~known,
                  old |-> FALSE, confirmed |-> known]]
       /\ IF known THEN Go(p, "link") ELSE Finish(p)
  /\ UNCHANGED <<scene, external, rated, voteVars, supplierVars, askVars, faults>>

\* The request the link belongs to is answered.
CreateLink(p) ==
  /\ At(p, "link")
  /\ \E b \in Buyers : asked[b].sent /\ asked' = [asked EXCEPT ![b].reviewed = TRUE]
  /\ Finish(p)
  /\ UNCHANGED <<scene, reviewVars, voteVars, supplierVars, mails, cron, faults>>

\* Removing a row takes its votes, answer and dispute with it.
Remove(S) ==
  /\ review' = [r \in Rows |-> IF r \in S THEN NoReview ELSE review[r]]
  /\ vote' = [r \in Rows |-> IF r \in S THEN [i \in Ips |-> "none"] ELSE vote[r]]
  /\ helpful' = [r \in Rows |-> IF r \in S THEN 0 ELSE helpful[r]]
  /\ answer' = [r \in Rows |-> IF r \in S THEN NoAnswer ELSE answer[r]]
  /\ dispute' = [r \in Rows |-> IF r \in S THEN "none" ELSE dispute[r]]

\* verifyEmail: an old link removes the review before its status is looked at.
VerifyRead(p) ==
  /\ At(p, "verify")
  /\ LET row == review[doing[p].on] IN
       CASE ~row.token                -> Finish(p)
         [] row.token /\ row.old      -> Go(p, "expired")
         [] row.token /\ ~row.old     -> IF row.status = "PENDING_EMAIL"
                                         THEN Go(p, "confirm") ELSE Finish(p)
  /\ UNCHANGED <<scene, reviewVars, voteVars, supplierVars, askVars, faults>>

VerifyConfirm(p) ==
  /\ At(p, "confirm")
  /\ LET r == doing[p].on IN
       IF Stands(r)
       THEN review' = [review EXCEPT ![r].status = "PENDING", ![r].token = FALSE,
                                     ![r].confirmed = TRUE]
       ELSE UNCHANGED review
  /\ Finish(p)
  /\ UNCHANGED <<scene, external, rated, voteVars, supplierVars, askVars, faults>>

VerifyExpired(p) ==
  /\ At(p, "expired")
  /\ Remove({doing[p].on})
  /\ Finish(p)
  /\ UNCHANGED <<scene, external, rated, askVars, faults>>

\* Forty-eight hours pass; the age of a review without a link is of no account.
Expire(r) ==
  /\ review[r].token /\ ~review[r].old
  /\ review' = [review EXCEPT ![r].old = TRUE]
  /\ UNCHANGED <<scene, external, rated, voteVars, supplierVars, askVars, doing, faults>>

Unconfirmed == {r \in Rows : Is(r, "PENDING_EMAIL") /\ review[r].old}

Leftover == Unconfirmed

\* cleanupExpiredTokens: one deleteMany.
Cleanup ==
  /\ Leftover # {}
  /\ Remove(Leftover)
  /\ UNCHANGED <<scene, external, rated, askVars, doing, faults>>

-----------------------------------------------------------------------------
(***************************************************************************)
(* Moderation and ratings.                                                 *)
(***************************************************************************)
\* recalculateEventRating counts the event's own reviews and the external
\* ones, recalculateVenueRating those of the venue and of its events.
Counted(t) ==
  IF t = "event" THEN {r \in Rows : Is(r, "APPROVED") /\ review[r].of = "event"} \cup external
  ELSE {r \in Rows : Is(r, "APPROVED")}

\* After a change of a review the rating of its own target is computed, then
\* comes what the handler does last.
Recount(p, t, last) ==
  Then(p, [doing[p] EXCEPT !.do = "count", !.of = t, !.arg = last])

CountRead(p) ==
  /\ At(p, "count")
  /\ Then(p, [doing[p] EXCEPT !.do = "rate", !.read = Counted(doing[p].of)])
  /\ UNCHANGED <<scene, reviewVars, voteVars, supplierVars, askVars, faults>>

CountWrite(p) ==
  /\ At(p, "rate")
  /\ rated' = [rated EXCEPT ![doing[p].of] = doing[p].read]
  /\ IF doing[p].arg = "HIDE" THEN Go(p, "close") ELSE Finish(p)
  /\ UNCHANGED <<scene, review, external, voteVars, supplierVars, askVars, faults>>

\* The moderators' page offers less than the endpoint takes.
Offered(r, to) ==
  IF scene.page
  THEN <<review[r].status, to>> \in {<<"PENDING", "APPROVED">>, <<"PENDING", "REJECTED">>,
                                     <<"REJECTED", "APPROVED">>, <<"APPROVED", "REJECTED">>}
  ELSE Stands(r) /\ to \in {"APPROVED", "REJECTED"}

\* A mistake: no new rating after a rejection.
ModerateQuietly(p) ==
  /\ At(p, "moderate")
  /\ LET r == doing[p].on IN
       IF Stands(r)
       THEN /\ review' = [review EXCEPT ![r].status = doing[p].arg]
            /\ IF doing[p].arg = "APPROVED" THEN Recount(p, review[r].of, "none") ELSE Finish(p)
       ELSE Finish(p) /\ UNCHANGED review
  /\ UNCHANGED <<scene, external, rated, voteVars, supplierVars, askVars, faults>>

\* adminModerate
Moderate(p) ==
  /\ At(p, "moderate")
  /\ LET r == doing[p].on IN
       IF Stands(r)
       THEN /\ review' = [review EXCEPT ![r].status = doing[p].arg]
            /\ Recount(p, review[r].of, "none")
       ELSE Finish(p) /\ UNCHANGED review
  /\ UNCHANGED <<scene, external, rated, voteVars, supplierVars, askVars, faults>>

\* adminDelete
Delete(p) ==
  /\ At(p, "delete")
  /\ LET r == doing[p].on IN
       IF Stands(r)
       THEN Remove({r}) /\ Recount(p, review[r].of, "none")
       ELSE Finish(p) /\ UNCHANGED <<review, voteVars, supplierVars>>
  /\ UNCHANGED <<scene, external, rated, askVars, faults>>

\* createExternalReview and deleteExternalReview
ChangeExternal(p) ==
  /\ At(p, "external")
  /\ LET x == doing[p].on IN
       external' = IF x \in external THEN external \ {x} ELSE external \cup {x}
  /\ Recount(p, "event", "none")
  /\ UNCHANGED <<scene, review, rated, voteVars, supplierVars, askVars, faults>>

-----------------------------------------------------------------------------
(***************************************************************************)
(* vote: one vote of each address; the same vote again takes it back.      *)
(***************************************************************************)
VoteRead(p) ==
  /\ At(p, "vote")
  /\ IF Is(doing[p].on, "APPROVED") THEN Go(p, "cast") ELSE Finish(p)
  /\ UNCHANGED <<scene, reviewVars, voteVars, supplierVars, askVars, faults>>

VoteWrite(p) ==
  /\ At(p, "cast")
  /\ LET r == doing[p].on IN
       IF Stands(r)
       THEN /\ \E i \in Ips :
                 vote' = [vote EXCEPT ![r][i] = IF @ = doing[p].arg THEN "none" ELSE doing[p].arg]
            /\ Go(p, "tally")
       ELSE Finish(p) /\ UNCHANGED vote
  /\ UNCHANGED <<scene, reviewVars, helpful, supplierVars, askVars, faults>>

Ups(r) == {i \in Ips : vote[r][i] = "up"}
Tally(r) == Ups(r)

VoteTally(p) ==
  /\ At(p, "tally")
  /\ Then(p, [doing[p] EXCEPT !.do = "store", !.read = Tally(doing[p].on)])
  /\ UNCHANGED <<scene, reviewVars, voteVars, supplierVars, askVars, faults>>

VoteStore(p) ==
  /\ At(p, "store")
  /\ LET r == doing[p].on IN
       helpful' = IF Stands(r) THEN [helpful EXCEPT ![r] = Cardinality(doing[p].read)] ELSE helpful
  /\ Finish(p)
  /\ UNCHANGED <<scene, reviewVars, vote, supplierVars, askVars, faults>>

-----------------------------------------------------------------------------
(***************************************************************************)
(* The supplier's answer and dispute, and the moderators' decisions.       *)
(***************************************************************************)
Editable(r) == answer[r].status \in {"none", "DRAFT"}

\* upsertResponse, submitResponse and adminModerateSupplierResponse look at
\* the status first ...
AnswerRead(p) ==
  /\ At(p, "answer")
  /\ LET r == doing[p].on
         allowed == CASE doing[p].arg = "DRAFT" -> Editable(r)
                      [] doing[p].arg = "PENDING_MODERATION" -> answer[r].status = "DRAFT"
                      [] OTHER -> answer[r].status = "PENDING_MODERATION" IN
       IF Stands(r) /\ allowed THEN Go(p, "writeAnswer") ELSE Finish(p)
  /\ UNCHANGED <<scene, reviewVars, voteVars, supplierVars, askVars, faults>>

\* ... and then update the row whatever it is by now.
AnswerWrite(p) ==
  /\ At(p, "writeAnswer")
  /\ LET r == doing[p].on
         to == doing[p].arg IN
       /\ ~Stands(r) => UNCHANGED answer
       /\ Stands(r) /\ to = "DRAFT" =>
            \E text \in 1..2 :
              answer' = [answer EXCEPT ![r].text = text,
                                       ![r].status = IF @ = "none" THEN "DRAFT" ELSE @]
       /\ Stands(r) /\ to = "PENDING_MODERATION" =>
            answer' = [answer EXCEPT ![r].status = to, ![r].sent = answer[r].text]
       /\ Stands(r) /\ to \in {"APPROVED", "REJECTED"} =>
            answer' = [answer EXCEPT ![r].status = to]
  /\ Finish(p)
  /\ UNCHANGED <<scene, reviewVars, voteVars, dispute, askVars, faults>>

\* createDispute: the index on the review lets one row in.
OpenDispute(r) ==
  /\ "dispute" \in scene.roles /\ Busy = {}
  /\ Stands(r) /\ dispute[r] = "none"
  /\ dispute' = [dispute EXCEPT ![r] = "MODERATOR_REVIEW"]
  /\ UNCHANGED <<scene, reviewVars, voteVars, answer, askVars, doing, faults>>

\* adminResolveDispute
ResolveRead(p) ==
  /\ At(p, "resolve")
  /\ IF dispute[doing[p].on] # "MODERATOR_REVIEW" THEN Finish(p)
     ELSE Go(p, IF doing[p].arg = "HIDE" THEN "hide" ELSE "close")
  /\ UNCHANGED <<scene, reviewVars, voteVars, supplierVars, askVars, faults>>

\* A mistake: the review is given the status of the dispute.
HideMisnamed(p) ==
  /\ At(p, "hide")
  /\ review' = [review EXCEPT ![doing[p].on].status = "RESOLVED_HIDE"]
  /\ Recount(p, review[doing[p].on].of, "HIDE")
  /\ UNCHANGED <<scene, external, rated, voteVars, supplierVars, askVars, faults>>

ResolveHide(p) ==
  /\ At(p, "hide")
  /\ LET r == doing[p].on IN
       IF Stands(r)
       THEN /\ review' = [review EXCEPT ![r].status = "HIDDEN"]
            /\ Recount(p, review[r].of, "HIDE")
       ELSE Finish(p) /\ UNCHANGED review
  /\ UNCHANGED <<scene, external, rated, voteVars, supplierVars, askVars, faults>>

ResolveClose(p) ==
  /\ At(p, "close")
  /\ LET r == doing[p].on IN
       IF dispute[r] # "none"
       THEN /\ dispute' = [dispute EXCEPT ![r] = doing[p].arg]
            /\ IF doing[p].arg = "DELETE" THEN Go(p, "delete") ELSE Finish(p)
       ELSE Finish(p) /\ UNCHANGED dispute
  /\ UNCHANGED <<scene, reviewVars, voteVars, answer, askVars, faults>>

-----------------------------------------------------------------------------
(***************************************************************************)
(* Timed tasks that ask for reviews.  A mail the queue does not take ends  *)
(* the run.                                                                *)
(***************************************************************************)
Old(b) == asked[b].sent /\ asked[b].old
\* A mistake: only who was reminded before is reminded.
RemindedAgain == {b \in Buyers : Old(b) /\ asked[b].reminded /\ ~asked[b].reviewed}

Unreminded == {b \in Buyers : Old(b) /\ ~asked[b].reminded /\ ~asked[b].reviewed}

CronStart ==
  /\ "cron" \in scene.roles /\ cron.do = "idle"
  /\ \/ \E S \in SUBSET Buyers :
          S # {} /\ cron' = [do |-> "ask", batch |-> S, on |-> Nobody]
     \/ Unreminded # {} /\ cron' = [do |-> "remind", batch |-> Unreminded, on |-> Nobody]
  /\ UNCHANGED <<scene, reviewVars, voteVars, supplierVars, asked, mails, doing, faults>>

CronNext(b) == cron.on = Nobody /\ b \in cron.batch
CronRest(b) == IF cron.batch = {b} THEN NoRun
               ELSE [cron EXCEPT !.batch = @ \ {b}, !.on = Nobody]

\* handleSendReviewRequests: the request is stored, then its mail is queued.
AskStore ==
  /\ cron.do = "ask"
  /\ \E b \in Buyers :
       /\ CronNext(b)
       /\ IF asked[b].sent THEN cron' = CronRest(b) /\ UNCHANGED asked
          ELSE /\ asked' = [asked EXCEPT ![b].sent = TRUE]
               /\ cron' = [cron EXCEPT !.on = b]
  /\ UNCHANGED <<scene, reviewVars, voteVars, supplierVars, mails, doing, faults>>

Queue(b) ==
  \/ /\ mails' = [mails EXCEPT ![b] = @ + 1]
     /\ cron' = IF cron.do = "ask" THEN CronRest(b) ELSE [cron EXCEPT !.on = b]
     /\ UNCHANGED faults
  \/ /\ faults < MaxFaults
     /\ faults' = faults + 1 /\ cron' = NoRun /\ UNCHANGED mails

AskMail ==
  /\ cron.do = "ask" /\ cron.on # Nobody
  /\ Queue(cron.on)
  /\ UNCHANGED <<scene, reviewVars, voteVars, supplierVars, asked, doing>>

\* handleSendReminders: the mail is queued, then the request is marked.
RemindMail ==
  /\ cron.do = "remind"
  /\ \E b \in Buyers : CronNext(b) /\ Queue(b)
  /\ UNCHANGED <<scene, reviewVars, voteVars, supplierVars, asked, doing>>

RemindMark ==
  /\ cron.do = "remind" /\ cron.on # Nobody
  /\ asked' = [asked EXCEPT ![cron.on].reminded = TRUE]
  /\ cron' = CronRest(cron.on)
  /\ UNCHANGED <<scene, reviewVars, voteVars, supplierVars, mails, doing, faults>>

\* Seven days pass since the request.
Age(b) ==
  /\ asked[b].sent /\ ~asked[b].old
  /\ asked' = [asked EXCEPT ![b].old = TRUE]
  /\ UNCHANGED <<scene, reviewVars, voteVars, supplierVars, mails, cron, doing, faults>>

-----------------------------------------------------------------------------
Ask ==
  \E p \in Procs :
    \/ \E b \in Buyers : Begin("create", p, "check", b, "none")
    \/ \E x \in Externals : Begin("external", p, "external", x, "none")
    \/ \E r \in Rows :
         \/ review[r].token /\ Begin("verify", p, "verify", r, "none")
         \/ \E to \in {"APPROVED", "REJECTED"} :
              Offered(r, to) /\ Begin("moderate", p, "moderate", r, to)
         \/ Stands(r) /\ Begin("delete", p, "delete", r, "none")
         \/ \E v \in {"up", "down"} : Begin("vote", p, "vote", r, v)
         \/ \E to \in {"DRAFT", "PENDING_MODERATION", "APPROVED", "REJECTED"} :
              Begin("answer", p, "answer", r, to)
         \/ \E o \in Outcomes : Begin("dispute", p, "resolve", r, o)

Step(p) ==
  \/ CreateCheck(p) \/ CreateInsert(p) \/ CreateLink(p)
  \/ VerifyRead(p) \/ VerifyConfirm(p) \/ VerifyExpired(p)
  \/ Moderate(p) \/ Delete(p) \/ ChangeExternal(p) \/ CountRead(p) \/ CountWrite(p)
  \/ VoteRead(p) \/ VoteWrite(p) \/ VoteTally(p) \/ VoteStore(p)
  \/ AnswerRead(p) \/ AnswerWrite(p)
  \/ ResolveRead(p) \/ ResolveHide(p) \/ ResolveClose(p)

CronStep == AskStore \/ AskMail \/ RemindMail \/ RemindMark

Next ==
  \/ Ask
  \/ \E p \in Procs : Step(p)
  \/ CronStart \/ CronStep
  \/ \E r \in Rows : Expire(r) \/ OpenDispute(r)
  \/ \E b \in Buyers : Age(b)
  \/ Cleanup
  \/ Crash

\* Timers fire and time passes.
Reminding == CronStart /\ cron'.do = "remind"
Fairness ==
  /\ WF_vars(CronStep) /\ SF_vars(Reminding) /\ WF_vars(Cleanup)
  /\ \A r \in Rows : WF_vars(Expire(r))
  /\ \A b \in Buyers : WF_vars(Age(b))

Spec == Init /\ [][Next]_vars /\ Fairness

-----------------------------------------------------------------------------
(***************************************************************************)
(* Properties.                                                             *)
(***************************************************************************)
Serial == scene.overlap = 1
Quiet == Serial /\ Busy = {} /\ faults = 0

\* What visitors see has been vetted: a published review was confirmed by its
\* address, or came with proof of a visit, in every interleaving of
\* confirmations, moderation and cleaning; and while handlers do not overlap it
\* is not one that a dispute has hidden, and the answer shown with it has the
\* text that was sent to the moderators.  (scene.page: moderators send what
\* their page offers.)
OnlyVettedIsShown ==
  scene.page => \A r \in Rows :
    /\ Is(r, "APPROVED") => review[r].confirmed
    /\ Serial /\ Is(r, "APPROVED") => dispute[r] # "HIDE"
    /\ Serial /\ answer[r].status = "APPROVED" => answer[r].text = answer[r].sent

\* When no handler runs, the stored rating of the event counts the published
\* reviews and the external ones, that of the venue every review written about
\* it, and the count shown with a review is the number of its helpful votes; a
\* handler that dies may leave an old one.
FiguresAreCurrent ==
  Quiet =>
    /\ \A r \in Rows : helpful[r] = Cardinality(Ups(r))
    /\ scene.page =>
         /\ rated["event"] = Counted("event")
         /\ LET direct == {r \in Rows : review[r].of = "venue"} IN
              rated["venue"] \cap direct = Counted("venue") \cap direct

\* A stored request leads to a mail or a review: the reminder makes up for a
\* first mail that was lost.
RequestIsMailed ==
  \A b \in Buyers : asked[b].sent ~> (mails[b] > 0 \/ asked[b].reviewed)
=============================================================================
