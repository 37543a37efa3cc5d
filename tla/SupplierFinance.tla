--------------------------- MODULE SupplierFinance ---------------------------
(***************************************************************************)
(* The money and the papers of one supplier: the ledger, the payout        *)
(* requests with the administrator's decisions, the disputes that block    *)
(* them, settlements and the numbered documents issued for them.           *)
(*                                                                         *)
(* A running handler is a record of what it does next and what it has      *)
(* read.  A transaction is one step as far as it writes; at PostgreSQL's   *)
(* default isolation what it has read before its write may be stale, so    *)
(* the balance a payout is checked against is read in a step of its own.   *)
(***************************************************************************)
EXTENDS Integers, Sequences, FiniteSets, FiniteSetsExt

CONSTANTS
  Payouts,      \* rows of SupplierPayoutRequest
  Disputes,     \* rows of SupplierDispute, of one report
  NoId,
  Procs,        \* requests that may be in progress
  Scenes,       \* who acts together, and how many handlers at one time
  Closing,      \* closing document of the supplier's profile: the act, or else the UPD
  Invoices,     \* the profile asks for invoices
  VatPayer,     \* and may issue them with VAT
  MaxAmount,    \* bound: largest payout asked for
  MaxSold,      \* bound: sum of all sales
  MaxNumbers,   \* bound: document numbers given
  MaxFaults     \* bound: crashes

DocTypes == {"AGENT_REPORT", "SERVICE_ACT", "UPD", "INVOICE", "VAT_INVOICE"}
AllRoles == {"sale", "profile", "supplier", "admin", "api", "dispute",
             "settle", "issue", "cancel"}

ASSUME FinanceAssumption ==
  /\ NoId \notin Payouts \cup Disputes
  /\ IsFiniteSet(Procs) /\ IsFiniteSet(Payouts)
  /\ Scenes \subseteq [roles : SUBSET AllRoles, overlap : Nat]
  /\ Closing \in {"SERVICE_ACT", "UPD"} /\ {Invoices, VatPayer} \subseteq BOOLEAN
  /\ {MaxAmount, MaxSold, MaxNumbers, MaxFaults} \subseteq Nat

VARIABLES
  scene,       \* who acts in this behaviour
  verified,    \* SupplierLegalProfile.status is VERIFIED
  sold,        \* sum of the SALE entries of the ledger
  entries,     \* number of PAYOUT entries that refer to each request
  payout,      \* the SupplierPayoutRequest rows
  dispute,     \* SupplierDispute.status, "none" without a row
  covers,      \* the requests each open dispute has blocked when it was opened
  settlement,  \* SupplierSettlement.status
  lastNumber,  \* DocumentSequence of each number type
  docs,        \* the SupplierDocument rows, in the order of their insertion
  doing,       \* what each handler does next
  faults

money == <<sold, entries, payout>>
claims == <<dispute, covers>>
papers == <<settlement, lastNumber, docs>>
vars == <<scene, verified, money, claims, papers, doing, faults>>

PayoutStatuses == {"NEW", "APPROVED", "REJECTED", "PAID"}
NoRow == [status |-> "none", amount |-> 0, blocked |-> FALSE]

SettlementStatuses == {"none", "CALCULATED", "APPROVED", "FINALIZED", "PAID"}
SettlementMoves ==   \* assertTransition, as far as an endpoint asks for it
  {<<"CALCULATED", "APPROVED">>, <<"APPROVED", "FINALIZED">>, <<"FINALIZED", "PAID">>}

\* getNumberType: acts and invoices share a sequence.
NumberType(type) ==
  CASE type = "AGENT_REPORT" -> "AGENT_REPORT"
    [] type = "UPD"          -> "UPD_2"
    [] type = "VAT_INVOICE"  -> "UPD_1"
    [] OTHER                 -> "INVOICE"
NumberTypes == {NumberType(t) : t \in DocTypes}

\* A number is taken before its document is made.
Planned == [type : DocTypes, number : Nat]
Tasks == {"idle", "balance", "pending", "create", "profile", "sum", "pay",
          "write", "open", "settle", "number", "validate", "draft", "render"}

Idle == [do |-> "idle", id |-> NoId, amount |-> 0, read |-> 0, to |-> "none",
         plan |-> <<>>]

TypeOK ==
  /\ scene \in Scenes
  /\ verified \in BOOLEAN
  /\ sold \in Nat
  /\ entries \in [Payouts -> Nat]
  /\ payout \in [Payouts -> [status : PayoutStatuses \cup {"none"}, amount : Nat,
                             blocked : BOOLEAN]]
  /\ dispute \in [Disputes -> {"none", "OPEN", "CLOSED"}]
  /\ covers \in [Disputes -> SUBSET Payouts]
  /\ settlement \in SettlementStatuses
  /\ lastNumber \in [NumberTypes -> Nat]
  /\ \A n \in 1..Len(docs) :
       docs[n] \in [type : DocTypes, number : Nat, status : {"DRAFT", "ISSUED", "FAILED", "CANCELED"}]
  /\ \A p \in Procs :
       /\ doing[p].do \in Tasks
       /\ doing[p].id \in Payouts \cup {NoId}
       /\ \A n \in 1..Len(doing[p].plan) : doing[p].plan[n] \in Planned
  /\ faults \in Nat

Init ==
  /\ scene \in Scenes
  /\ verified = TRUE
  /\ sold = 0
  /\ entries = [r \in Payouts |-> 0]
  /\ payout = [r \in Payouts |-> NoRow]
  /\ dispute = [d \in Disputes |-> "none"]
  /\ covers = [d \in Disputes |-> {}]
  /\ settlement = "none"
  /\ lastNumber = [t \in NumberTypes |-> 0]
  /\ docs = <<>>
  /\ doing = [p \in Procs |-> Idle]
  /\ faults = 0

\* getBalance: the sum of the book; a payout is booked with a negative amount.
SumOver(f, S) == MapThenSumSet(LAMBDA r : f[r], S)
Balance == sold - SumOver([r \in Payouts |-> entries[r] * payout[r].amount], Payouts)

Open(r) == payout[r].status \in {"NEW", "APPROVED"}
Pending == SumOver([r \in Payouts |-> payout[r].amount], {r \in Payouts : Open(r)})

-----------------------------------------------------------------------------
(***************************************************************************)
(* Handlers.                                                               *)
(***************************************************************************)
Busy == {p \in Procs : doing[p].do # "idle"}

Begin(role, p, task) ==
  /\ role \in scene.roles
  /\ doing[p].do = "idle" /\ Cardinality(Busy) < scene.overlap
  /\ doing' = [doing EXCEPT ![p] = task]
  /\ UNCHANGED <<scene, verified, money, claims, papers, faults>>

At(p, task) == doing[p].do = task
Then(p, task) == doing' = [doing EXCEPT ![p] = task]
Go(p, task) == Then(p, [doing[p] EXCEPT !.do = task])
Finish(p) == Then(p, Idle)

\* recordSale, of a session's payment.
RecordSale ==
  /\ "sale" \in scene.roles
  /\ sold < MaxSold
  /\ sold' = sold + 1
  /\ UNCHANGED <<scene, verified, entries, payout, claims, papers, doing, faults>>

\* The administrator verifies or rejects the legal profile.
JudgeProfile ==
  /\ "profile" \in scene.roles
  /\ verified' = ~verified
  /\ UNCHANGED <<scene, money, claims, papers, doing, faults>>

\* createPayoutRequest: the profile, the balance, what is pending, the insert.
RequestPayout(p, n) ==
  /\ verified
  /\ Begin("supplier", p, [Idle EXCEPT !.do = "balance", !.amount = n])

ReadBalance(p) ==
  /\ At(p, "balance")
  /\ Then(p, [doing[p] EXCEPT !.do = "pending", !.read = Balance])
  /\ UNCHANGED <<scene, verified, money, claims, papers, faults>>

\* A bug the code avoids: pending requests are not taken off the balance.
IgnorePending(p) ==
  /\ At(p, "pending")
  /\ IF doing[p].amount <= doing[p].read THEN Go(p, "create") ELSE Finish(p)
  /\ UNCHANGED <<scene, verified, money, claims, papers, faults>>

ReadPending(p) ==
  /\ At(p, "pending")
  /\ IF doing[p].amount <= doing[p].read - Pending THEN Go(p, "create") ELSE Finish(p)
  /\ UNCHANGED <<scene, verified, money, claims, papers, faults>>

CreatePayout(p) ==
  /\ At(p, "create")
  /\ \E r \in Payouts :
       /\ payout[r] = NoRow
       /\ payout' = [payout EXCEPT ![r] =
                       [status |-> "NEW", amount |-> doing[p].amount, blocked |-> FALSE]]
  /\ Finish(p)
  /\ UNCHANGED <<scene, verified, sold, entries, claims, papers, faults>>

\* What the page of payouts offers (PayoutsListPage.tsx); the endpoint takes any.
Offered(r, to) == Open(r) /\ to \in {"REJECTED", "PAID"}

\* A bug the code avoids: the flag of a dispute is not looked at.
DecideUnasked(p, r, to) ==
  /\ payout[r] # NoRow
  /\ "api" \in scene.roles \/ Offered(r, to)
  /\ Begin("admin", p, [Idle EXCEPT !.do = IF to = "PAID" THEN "profile" ELSE "write",
                                    !.id = r, !.to = to])

\* updateStatus of a payout: refused while the row is blocked.
Decide(p, r, to) ==
  /\ payout[r] # NoRow /\ ~payout[r].blocked
  /\ "api" \in scene.roles \/ Offered(r, to)
  /\ Begin("admin", p, [Idle EXCEPT !.do = IF to = "PAID" THEN "profile" ELSE "write",
                                    !.id = r, !.to = to])

WriteStatus(p) ==
  /\ At(p, "write")
  /\ payout' = [payout EXCEPT ![doing[p].id].status = doing[p].to]
  /\ Finish(p)
  /\ UNCHANGED <<scene, verified, sold, entries, claims, papers, faults>>

CheckProfile(p) ==
  /\ At(p, "profile")
  /\ IF verified THEN Go(p, "sum") ELSE Finish(p)
  /\ UNCHANGED <<scene, verified, money, claims, papers, faults>>

\* The transaction of a payment begins with the sum of the book ...
SumLedger(p) ==
  /\ At(p, "sum")
  /\ IF payout[doing[p].id].amount <= Balance THEN Go(p, "pay") ELSE Finish(p)
  /\ UNCHANGED <<scene, verified, money, claims, papers, faults>>

\* ... and ends with the status and the entry.
Pay(p) ==
  /\ At(p, "pay")
  /\ payout' = [payout EXCEPT ![doing[p].id].status = "PAID"]
  /\ entries' = [entries EXCEPT ![doing[p].id] = @ + 1]
  /\ Finish(p)
  /\ UNCHANGED <<scene, verified, sold, claims, papers, faults>>

-----------------------------------------------------------------------------
(***************************************************************************)
(* Disputes.                                                               *)
(***************************************************************************)
StillOpen == {d \in Disputes : dispute[d] = "OPEN"}

\* openDispute: one at a time, then a transaction that blocks what is pending.
Complain(p) ==
  /\ StillOpen = {}
  /\ Begin("dispute", p, [Idle EXCEPT !.do = "open"])

OpenDispute(p) ==
  /\ At(p, "open")
  /\ LET pending == {r \in Payouts : Open(r)}
     IN \E d \in Disputes :
          /\ dispute[d] = "none"
          /\ dispute' = [dispute EXCEPT ![d] = "OPEN"]
          /\ covers' = [covers EXCEPT ![d] = pending]
          /\ payout' = [r \in Payouts |-> IF r \in pending
                                          THEN [payout[r] EXCEPT !.blocked = TRUE] ELSE payout[r]]
  /\ Finish(p)
  /\ UNCHANGED <<scene, verified, sold, entries, papers, faults>>

\* resolveDispute: does not look at the dispute's status, and unblocks every
\* request of the supplier.
ResolveDispute(d) ==
  /\ "dispute" \in scene.roles
  /\ Cardinality(Busy) < scene.overlap
  /\ dispute[d] = "OPEN" \/ ("api" \in scene.roles /\ dispute[d] = "CLOSED")
  /\ dispute' = [dispute EXCEPT ![d] = "CLOSED"]
  /\ covers' = [covers EXCEPT ![d] = {}]
  /\ payout' = [r \in Payouts |-> [payout[r] EXCEPT !.blocked = FALSE]]
  /\ UNCHANGED <<scene, verified, sold, entries, papers, doing, faults>>

-----------------------------------------------------------------------------
(***************************************************************************)
(* Settlements and documents.                                              *)
(***************************************************************************)
\* calculateDraftSettlement: there must be entries in the period.
Calculate ==
  /\ "settle" \in scene.roles
  /\ settlement = "none" /\ sold > 0
  /\ settlement' = "CALCULATED"
  /\ UNCHANGED <<scene, verified, money, claims, lastNumber, docs, doing, faults>>

\* approve, finalize and mark-paid: the table is asked about the row that was
\* read, the update is by id.
MoveSettlement(p, to) ==
  /\ <<settlement, to>> \in SettlementMoves
  /\ Begin("settle", p, [Idle EXCEPT !.do = "settle", !.to = to])

WriteSettlement(p) ==
  /\ At(p, "settle")
  /\ settlement' = doing[p].to
  /\ Finish(p)
  /\ UNCHANGED <<scene, verified, money, claims, lastNumber, docs, faults>>

\* getRequiredDocumentsForSettlement
Required ==
  <<"AGENT_REPORT", Closing>>
    \o (IF Invoices THEN <<"INVOICE">> ELSE <<>>)
    \o (IF Invoices /\ VatPayer THEN <<"VAT_INVOICE">> ELSE <<>>)

\* issueDocumentsForSettlement, also by way of regenerateDocument.
IssueDocuments(p) ==
  /\ settlement = "FINALIZED" /\ verified
  /\ SumOver(lastNumber, NumberTypes) + Len(Required) * (1 + Cardinality(Busy)) <= MaxNumbers
  /\ Begin("issue", p, [Idle EXCEPT !.do = "number"])

\* A bug the code avoids: numbers are counted from the documents there are.
CountDocuments(p) ==
  /\ At(p, "number")
  /\ LET type == Required[Len(doing[p].plan) + 1]
         number == 1 + Cardinality({n \in 1..Len(docs) :
                                      NumberType(docs[n].type) = NumberType(type)})
         plan == Append(doing[p].plan, [type |-> type, number |-> number])
     IN Then(p, [doing[p] EXCEPT !.plan = plan,
                   !.do = IF Len(plan) < Len(Required) THEN "number" ELSE "validate"])
  /\ UNCHANGED <<scene, verified, money, claims, papers, faults>>

\* nextNumber, an atomic increment, for each required document in turn.
NextNumber(p) ==
  /\ At(p, "number")
  /\ LET type == Required[Len(doing[p].plan) + 1]
         seq == NumberType(type)
         plan == Append(doing[p].plan, [type |-> type, number |-> lastNumber[seq] + 1])
     IN /\ lastNumber' = [lastNumber EXCEPT ![seq] = @ + 1]
        /\ Then(p, [doing[p] EXCEPT !.plan = plan,
                      !.do = IF Len(plan) < Len(Required) THEN "number" ELSE "validate"])
  /\ UNCHANGED <<scene, verified, money, claims, settlement, docs, faults>>

\* A payload that lacks something stops the whole set; the numbers are gone.
Validate(p) ==
  /\ At(p, "validate")
  /\ Go(p, "draft") \/ Finish(p)
  /\ UNCHANGED <<scene, verified, money, claims, papers, faults>>

Draft(p) ==
  /\ At(p, "draft")
  /\ LET next == Head(doing[p].plan)
     IN docs' = Append(docs, [type |-> next.type, number |-> next.number, status |-> "DRAFT"])
  /\ Then(p, [doing[p] EXCEPT !.do = "render", !.read = Len(docs) + 1])
  /\ UNCHANGED <<scene, verified, money, claims, settlement, lastNumber, faults>>

\* Rendering yields a PDF or not; the row is updated by id.
Render(p) ==
  /\ At(p, "render")
  /\ \E status \in {"ISSUED", "FAILED"} :
       docs' = [docs EXCEPT ![doing[p].read].status = status]
  /\ LET rest == Tail(doing[p].plan)
     IN Then(p, IF rest = <<>> THEN Idle ELSE [doing[p] EXCEPT !.do = "draft", !.plan = rest])
  /\ UNCHANGED <<scene, verified, money, claims, settlement, lastNumber, faults>>

\* A bug the code avoids: the other spelling, which other tables use.
CancelMisspelt ==
  /\ "cancel" \in scene.roles
  /\ \E n \in 1..Len(docs) : docs' = [docs EXCEPT ![n].status = "CANCELLED"]
  /\ UNCHANGED <<scene, verified, money, claims, settlement, lastNumber, doing, faults>>

\* cancelDocument, by id and in whatever status.
CancelDocument ==
  /\ "cancel" \in scene.roles
  /\ \E n \in 1..Len(docs) : docs' = [docs EXCEPT ![n].status = "CANCELED"]
  /\ UNCHANGED <<scene, verified, money, claims, settlement, lastNumber, doing, faults>>

\* A restart.
Crash ==
  /\ faults < MaxFaults /\ faults' = faults + 1
  /\ Busy # {}
  /\ doing' = [p \in Procs |-> Idle]
  /\ UNCHANGED <<scene, verified, money, claims, papers>>

Start(p) ==
  \/ \E n \in 1..MaxAmount : RequestPayout(p, n)
  \/ \E r \in Payouts, to \in PayoutStatuses : Decide(p, r, to)
  \/ Complain(p)
  \/ \E to \in SettlementStatuses : MoveSettlement(p, to)
  \/ IssueDocuments(p)

Step(p) ==
  \/ ReadBalance(p) \/ ReadPending(p) \/ CreatePayout(p)
  \/ WriteStatus(p) \/ CheckProfile(p) \/ SumLedger(p) \/ Pay(p)
  \/ OpenDispute(p)
  \/ WriteSettlement(p)
  \/ NextNumber(p) \/ Validate(p) \/ Draft(p) \/ Render(p)

Next ==
  \/ \E p \in Procs : Start(p) \/ Step(p)
  \/ \E d \in Disputes : ResolveDispute(d)
  \/ RecordSale \/ JudgeProfile \/ Calculate \/ CancelDocument \/ Crash

Spec == Init /\ [][Next]_vars

-----------------------------------------------------------------------------
(***************************************************************************)
(* Properties.                                                             *)
(***************************************************************************)
OneAtATime == scene.overlap = 1
AsOffered  == OneAtATime /\ "api" \notin scene.roles

\* Under an open dispute about the report, no request that was pending when it was
\* opened is decided: not paid, not approved, not rejected (docs/Diary.md:1175).
DisputedIsFrozen ==
  AsOffered => \A d \in StillOpen : \A r \in covers[d] : payout[r].blocked /\ Open(r)

\* No two documents of one type carry the same number, however many sets are
\* issued at one time and whichever of them fails half-way.
NumbersAreUnique ==
  \A m, n \in 1..Len(docs) :
    m # n /\ docs[m].type = docs[n].type => docs[m].number # docs[n].number

\* Used as offered and one at a time, the code keeps an account that holds what is
\* asked for and pays out what is held (SupplierAccount); other scenes stutter.
Account == INSTANCE SupplierAccount
  WITH balance <- IF AsOffered THEN Balance ELSE 0,
       held <- IF AsOffered THEN Pending ELSE 0

KeepsAccount == Account!Solvent
=============================================================================
