------------------------ MODULE RefundRequestsProofs ------------------------
(***************************************************************************)
(* Theorems about RefundRequests for any number of positions, requests,    *)
(* handlers and faults, and any scene: every handler may overlap every     *)
(* other, and answers of the provider may be refusals, say that a refund   *)
(* is canceled, or get lost.                                               *)
(*                                                                         *)
(* RefundedIsAnswered is not inductive.  Missing is what a handler knows   *)
(* between the provider's answer and its write (AnswerIsKnown), and that   *)
(* a request that was answered and counted is decided for good, so that    *)
(* nobody completes it once more (SeatsOfDecided).                         *)
(*                                                                         *)
(* The last part is about calm scenes, in which handlers that write to one *)
(* request take turns: what a handler has read is still so when it writes  *)
(* (RowsAgree), so that every request is the request of one return.        *)
(***************************************************************************)
EXTENDS RefundRequests, FiniteSetTheorems, TLAPS

OnRequest == {"readReject", "writeReject", "read", "claim", "call", "complete", "fail"}

\* What a handler works on is a position, or a request that has been made.
OnItsRow(h) ==
  /\ h.do \in {"check", "insert"} => h.on \in Items
  /\ h.do \in OnRequest => h.on \in Requests /\ request[h.on] # NoRow

AllOnRows == \A p \in Procs : OnItsRow(doing[p])

\* The refunds the provider has answered for, made or canceled.
Answered == returned \cup canceled

AnswerIsKnown ==
  \A p \in Procs :
    /\ doing[p].do = "complete" => doing[p].on \in Answered
    /\ doing[p].do \in {"markIntent", "markItems"} => Nobody \in Answered

Settled(i) == {r \in AnswersOf(i) : request[r].status \in Decided}

SeatsOfDecided == \A i \in Items : released[i] <= Cardinality(Settled(i))

MarkedIsAnswered ==
  \A i \in Items : item[i] = "REFUNDED" => AnswersOf(i) # {} \/ Nobody \in Answered

TypeInv == TypeOK /\ AllOnRows
MoneyInv == AnswerIsKnown /\ SeatsOfDecided /\ MarkedIsAnswered

RowsStay == \A r \in Requests : request[r] # NoRow => request'[r] # NoRow

(***************************************************************************)
(* A step of one handler, which leaves the others as they are.             *)
(***************************************************************************)
LEMMA OneMoves ==
  ASSUME TypeInv, RowsStay, NEW p \in Procs, NEW h \in Handlers, OnItsRow(h)',
         doing' = [doing EXCEPT ![p] = h]
  PROVE  doing' \in [Procs -> Handlers] /\ AllOnRows'
<1>1. doing' \in [Procs -> Handlers]
  BY DEF TypeInv, TypeOK
<1>2. \A q \in Procs : doing'[q] = IF q = p THEN h ELSE doing[q]
  BY DEF TypeInv, TypeOK
<1>3. ASSUME NEW q \in Procs PROVE OnItsRow(doing[q])'
  <2>1. CASE q = p
    BY <1>2, <2>1 DEF OnItsRow
  <2>2. CASE q # p
    BY <1>2, <2>2 DEF OnItsRow, TypeInv, AllOnRows, RowsStay
  <2>3. QED
    BY <2>1, <2>2
<1>4. QED
  BY <1>1, <1>3 DEF AllOnRows

\* It ends.
LEMMA OneEnds ==
  ASSUME TypeInv, RowsStay, NEW p \in Procs, Finish(p)
  PROVE  doing' \in [Procs -> Handlers] /\ AllOnRows'
<1>1. Idle \in Handlers /\ OnItsRow(Idle)'
  BY DEF Idle, Handlers, Tasks, OnItsRow, OnRequest
<1>2. QED
  BY <1>1, OneMoves DEF Finish

\* It goes on with the same row.
LEMMA OneGoesOn ==
  ASSUME TypeInv, RowsStay, NEW p \in Procs, NEW to \in Tasks, Go(p, to),
         \/ doing[p].do \in {"check", "insert"} /\ to \notin OnRequest
         \/ doing[p].do \in OnRequest /\ to \notin {"check", "insert"}
         \/ to \notin OnRequest \cup {"check", "insert"}
  PROVE  doing' \in [Procs -> Handlers] /\ AllOnRows'
<1>1. doing[p] \in Handlers /\ OnItsRow(doing[p])
  BY DEF TypeInv, TypeOK, AllOnRows
<1> DEFINE next == [doing[p] EXCEPT !.do = to]
<1>a. next \in Handlers /\ next.do = to /\ next.on = doing[p].on
  BY <1>1 DEF Handlers
<1>2. PICK h \in Handlers : h = next /\ h.do = to /\ h.on = doing[p].on
  BY <1>a
<1>3. OnItsRow(h)'
  BY <1>1, <1>2 DEF OnItsRow, RowsStay
<1>4. QED
  BY <1>1, <1>2, <1>3, OneMoves DEF Go, TypeInv, TypeOK

(***************************************************************************)
(* Every variable has its type, and handlers work on rows that exist.      *)
(***************************************************************************)
MoneyTyped ==
  returned \subseteq Requests \cup {Nobody} /\ canceled \subseteq Requests \cup {Nobody}

LEMMA TypesHold == Spec => []TypeInv
<1>1. Init => TypeInv
  BY RefundAssumption
     DEF Init, TypeInv, TypeOK, AllOnRows, OnItsRow, Idle, Handlers, Tasks, OnRequest
<1>2. TypeInv /\ [Next]_vars => TypeInv'
  <2> SUFFICES ASSUME TypeInv, [Next]_vars PROVE TypeInv'
    OBVIOUS
  <2> DEFINE RestTyped ==
         /\ scene \in Scenes /\ session \in {"ahead", "started", "canceled"}
         /\ intent \in {"PAID", "REFUNDED"}
         /\ item \in [Items -> {"CONFIRMED", "REFUND_PENDING", "REFUNDED"}]
         /\ request \in [Requests -> [status : Active \cup Decided, item : Items] \cup {NoRow}]
         /\ released \in [Items -> Nat]
         /\ MoneyTyped
         /\ faults \in 0..MaxFaults
  <2>a. RestTyped /\ doing \in [Procs -> Handlers]
    BY DEF TypeInv, TypeOK, MoneyTyped
  <2>m. money' = money => MoneyTyped'
    BY <2>a DEF MoneyTyped, money
  <2>b. ASSUME RestTyped', doing' \in [Procs -> Handlers] /\ AllOnRows' PROVE TypeInv'
    BY <2>b DEF TypeInv, TypeOK, MoneyTyped
  <2>c. ASSUME NEW p \in Procs
        PROVE  doing[p] \in Handlers /\ OnItsRow(doing[p])
    BY DEF TypeInv, TypeOK, AllOnRows
  <2>1. ASSUME NEW p \in Procs, NEW role \in Roles, NEW do \in Tasks, NEW on,
               \/ do = "check" /\ on \in Items
               \/ do \in {"readReject", "read"} /\ on \in Requests /\ request[on] # NoRow
               \/ do = "readIntent" /\ on = Nobody,
               Begin(role, p, do, on)
        PROVE  TypeInv'
    <3> DEFINE h == [Idle EXCEPT !.role = role, !.do = do, !.on = on]
    <3>1. h \in Handlers /\ h.do = do /\ h.on = on
      BY <2>1 DEF Idle, Handlers
    <3>2. OnItsRow(h)' /\ RowsStay /\ RestTyped'
      BY <2>1, <2>a, <2>m, <3>1 DEF Begin, OnItsRow, OnRequest, RowsStay
    <3>3. QED
      BY <2>1, <2>b, <3>1, <3>2, OneMoves DEF Begin
  <2>2. CASE Ask
    BY <2>1, <2>2 DEF Ask, Exists, Roles, Tasks
  <2>3. ASSUME NEW p \in Procs, Crash(p) PROVE TypeInv'
    <3>1. RestTyped' /\ RowsStay /\ Finish(p)
      BY <2>3, <2>a, <2>m, RefundAssumption DEF Crash, RowsStay
    <3>2. QED
      BY <2>b, <3>1, OneEnds
  <2>4. CASE SessionMoves
    BY <2>4 DEF SessionMoves, TypeInv, TypeOK, AllOnRows, OnItsRow, money
  <2>5. ASSUME NEW p \in Procs, CreateCheck(p) PROVE TypeInv'
    <3>1. RestTyped' /\ RowsStay /\ doing[p].do = "check"
      BY <2>5, <2>a, <2>m DEF CreateCheck, At, RowsStay
    <3>2. Go(p, "insert") \/ Finish(p)
      BY <2>5 DEF CreateCheck
    <3>3. QED
      BY <2>b, <3>1, <3>2, OneEnds, OneGoesOn DEF Tasks, OnRequest
  <2>6. ASSUME NEW p \in Procs, CreateInsert(p) PROVE TypeInv'
    <3>1. doing[p].on \in Items /\ Finish(p)
      BY <2>6, <2>c DEF CreateInsert, At, OnItsRow
    <3>2. PICK r \in Requests :
            request' = [request EXCEPT ![r] = [status |-> "CREATED", item |-> doing[p].on]]
      BY <2>6 DEF CreateInsert
    <3>3. [status |-> "CREATED", item |-> doing[p].on]
            \in [status : Active \cup Decided, item : Items]
      BY <3>1 DEF Active
    <3>4. RestTyped'
      BY <2>6, <2>a, <2>m, <3>1, <3>2, <3>3 DEF CreateInsert
    <3>5. RowsStay
      BY <2>a, <2>m, <3>2, <3>3 DEF RowsStay, NoRow
    <3>6. QED
      BY <2>b, <3>1, <3>4, <3>5, OneEnds
  <2>7. ASSUME NEW r \in Requests, Approve(r) PROVE TypeInv'
    <3>1. RestTyped' /\ UNCHANGED doing
      BY <2>7, <2>a, <2>m DEF Approve, Active, Decided, NoRow
    <3>2. RowsStay
      BY <2>7, <2>a, <2>m DEF Approve, Active, NoRow, RowsStay
    <3>3. AllOnRows'
      BY <2>c, <3>1, <3>2 DEF AllOnRows, OnItsRow, RowsStay
    <3>4. QED
      BY <2>a, <2>m, <2>b, <3>1, <3>3
  <2>8. ASSUME NEW p \in Procs, RejectRead(p) PROVE TypeInv'
    <3>1. RestTyped' /\ RowsStay
      BY <2>8, <2>a, <2>m DEF RejectRead, RowsStay
    <3>2. CASE Finish(p)
      BY <2>b, <3>1, <3>2, OneEnds
    <3>3. CASE ~Finish(p)
      <4> DEFINE waits == item[request[doing[p].on].item] = "REFUND_PENDING"
                 next == [doing[p] EXCEPT !.do = "writeReject", !.pending = waits]
      <4>a. next \in Handlers /\ next.do = "writeReject" /\ next.on = doing[p].on
        BY <2>c DEF Handlers, Tasks
      <4>1. PICK h \in Handlers :
              h = next /\ h.do = "writeReject" /\ h.on = doing[p].on
        BY <4>a
      <4>2. doing' = [doing EXCEPT ![p] = h]
        BY <2>8, <2>a, <2>m, <3>3, <4>1 DEF RejectRead
      <4>3. OnItsRow(h)'
        BY <2>8, <2>c, <3>1, <4>1 DEF RejectRead, At, OnItsRow, OnRequest, RowsStay
      <4>4. QED
        BY <2>b, <3>1, <4>2, <4>3, OneMoves
    <3>4. QED
      BY <3>2, <3>3
  <2>9. ASSUME NEW p \in Procs, RejectWrite(p) PROVE TypeInv'
    <3>1. doing[p].on \in Requests /\ request[doing[p].on] # NoRow
      BY <2>9, <2>c DEF RejectWrite, At, OnItsRow, OnRequest
    <3>2. request[doing[p].on] \in [status : Active \cup Decided, item : Items]
      BY <2>a, <2>m, <3>1
    <3>3. [request[doing[p].on] EXCEPT !.status = "REJECTED"]
            \in [status : Active \cup Decided, item : Items]
      BY <3>2 DEF Decided
    <3>4. RestTyped' /\ Finish(p)
      BY <2>9, <2>a, <2>m, <3>1, <3>2, <3>3 DEF RejectWrite
    <3>5. RowsStay
      BY <2>9, <2>a, <2>m, <3>1, <3>3 DEF RejectWrite, RowsStay, NoRow, Active, Decided
    <3>6. QED
      BY <2>b, <3>4, <3>5, OneEnds
  <2>10. ASSUME NEW p \in Procs, ProcessRead(p) PROVE TypeInv'
    <3>1. RestTyped' /\ RowsStay
      BY <2>10, <2>a, <2>m DEF ProcessRead, RowsStay
    <3>2. CASE Finish(p)
      BY <2>b, <3>1, <3>2, OneEnds
    <3>3. CASE ~Finish(p)
      <4> DEFINE status == request[doing[p].on].status
                 next == [doing[p] EXCEPT !.do = "claim", !.seen = status]
      <4>1. doing[p].on \in Requests /\ request[doing[p].on] # NoRow
        BY <2>10, <2>c DEF ProcessRead, At, OnItsRow, OnRequest
      <4>2. status \in Active
        BY <2>10, <2>a, <2>m, <3>3, <4>1 DEF ProcessRead
      <4>3. next \in Handlers /\ next.do = "claim" /\ next.on = doing[p].on
        BY <2>c, <4>2 DEF Handlers, Tasks
      <4>4. PICK h \in Handlers : h = next /\ h.do = "claim" /\ h.on = doing[p].on
        BY <4>3
      <4>5. doing' = [doing EXCEPT ![p] = h]
        BY <2>10, <2>a, <2>m, <3>3, <4>4 DEF ProcessRead
      <4>6. OnItsRow(h)'
        BY <3>1, <4>1, <4>4 DEF OnItsRow, OnRequest, RowsStay
      <4>7. QED
        BY <2>b, <3>1, <4>5, <4>6, OneMoves
    <3>4. QED
      BY <3>2, <3>3
  <2>11. ASSUME NEW p \in Procs, Claim(p) PROVE TypeInv'
    <3>1. doing[p].do = "claim" /\ doing[p].on \in Requests /\ request[doing[p].on] # NoRow
      BY <2>11, <2>c DEF Claim, At, OnItsRow, OnRequest
    <3>2. request[doing[p].on] \in [status : Active \cup Decided, item : Items]
      BY <2>a, <2>m, <3>1
    <3>3. [request[doing[p].on] EXCEPT !.status = "PROCESSING"]
            \in [status : Active \cup Decided, item : Items]
      BY <3>2 DEF Active
    <3>4. RestTyped' /\ (Finish(p) \/ Go(p, "call"))
      BY <2>11, <2>a, <2>m, <3>1, <3>3 DEF Claim
    <3>5. RowsStay
      BY <2>11, <2>a, <2>m, <3>1, <3>3 DEF Claim, RowsStay, NoRow, Active, Decided
    <3>6. QED
      BY <2>b, <3>1, <3>4, <3>5, OneEnds, OneGoesOn DEF Tasks, OnRequest
  <2>12. ASSUME NEW p \in Procs, CallProvider(p) PROVE TypeInv'
    <3>1. doing[p].do = "call" /\ doing[p].on \in Requests
      BY <2>12, <2>c DEF CallProvider, At, OnItsRow, OnRequest
    <3>2. RestTyped' /\ RowsStay
      BY <2>12, <2>a, <2>m, <3>1, RefundAssumption
         DEF CallProvider, Call, Returns, Cancels, MoneyTyped, money, RowsStay
    <3>3. Go(p, "complete") \/ Go(p, "fail")
      BY <2>12 DEF CallProvider, Call
    <3>4. QED
      BY <2>b, <3>1, <3>2, <3>3, OneGoesOn DEF Tasks, OnRequest
  <2>13. ASSUME NEW p \in Procs, CompleteRefund(p) PROVE TypeInv'
    <3>1. doing[p].on \in Requests /\ request[doing[p].on] # NoRow
      BY <2>13, <2>c DEF CompleteRefund, At, OnItsRow, OnRequest
    <3>2. request[doing[p].on] \in [status : Active \cup Decided, item : Items]
      BY <2>a, <2>m, <3>1
    <3>3. [request[doing[p].on] EXCEPT !.status = "COMPLETED"]
            \in [status : Active \cup Decided, item : Items]
      BY <3>2 DEF Decided
    <3>4. RestTyped' /\ Finish(p)
      BY <2>13, <2>a, <2>m, <3>1, <3>2, <3>3 DEF CompleteRefund
    <3>5. RowsStay
      BY <2>13, <2>a, <2>m, <3>1, <3>3 DEF CompleteRefund, RowsStay, NoRow, Active, Decided
    <3>6. QED
      BY <2>b, <3>4, <3>5, OneEnds
  <2>14. ASSUME NEW p \in Procs, FailRefund(p) PROVE TypeInv'
    <3>1. doing[p].on \in Requests /\ request[doing[p].on] # NoRow
      BY <2>14, <2>c DEF FailRefund, At, OnItsRow, OnRequest
    <3>2. request[doing[p].on] \in [status : Active \cup Decided, item : Items]
      BY <2>a, <2>m, <3>1
    <3>3. [request[doing[p].on] EXCEPT !.status = "FAILED"]
            \in [status : Active \cup Decided, item : Items]
      BY <3>2 DEF Decided
    <3>4. RestTyped' /\ Finish(p)
      BY <2>14, <2>a, <2>m, <3>1, <3>2, <3>3 DEF FailRefund
    <3>5. RowsStay
      BY <2>14, <2>a, <2>m, <3>1, <3>3 DEF FailRefund, RowsStay, NoRow, Active, Decided
    <3>6. QED
      BY <2>b, <3>4, <3>5, OneEnds
  <2>15. ASSUME NEW p \in Procs, FullRead(p) PROVE TypeInv'
    <3>1. RestTyped' /\ RowsStay /\ (Finish(p) \/ Go(p, "callFull"))
      BY <2>15, <2>a, <2>m DEF FullRead, RowsStay
    <3>2. QED
      BY <2>b, <3>1, OneEnds, OneGoesOn DEF Tasks, OnRequest
  <2>16. ASSUME NEW p \in Procs, FullCall(p) PROVE TypeInv'
    <3>1. RestTyped' /\ RowsStay
      BY <2>16, <2>a, <2>m, RefundAssumption
         DEF FullCall, Call, Returns, Cancels, MoneyTyped, money, RowsStay
    <3>2. Finish(p) \/ Go(p, "markIntent")
      BY <2>16 DEF FullCall, Call
    <3>3. QED
      BY <2>b, <3>1, <3>2, OneEnds, OneGoesOn DEF Tasks, OnRequest
  <2>17. ASSUME NEW p \in Procs, MarkIntent(p) PROVE TypeInv'
    <3>1. RestTyped' /\ RowsStay /\ Go(p, "markItems")
      BY <2>17, <2>a, <2>m DEF MarkIntent, RowsStay
    <3>2. QED
      BY <2>b, <3>1, OneGoesOn DEF Tasks, OnRequest
  <2>18. ASSUME NEW p \in Procs, MarkItems(p) PROVE TypeInv'
    <3>1. RestTyped' /\ RowsStay /\ Finish(p)
      BY <2>18, <2>a, <2>m DEF MarkItems, RowsStay
    <3>2. QED
      BY <2>b, <3>1, OneEnds
  <2>19. CASE UNCHANGED vars
    BY <2>19 DEF vars, TypeInv, TypeOK, AllOnRows, OnItsRow
  <2>20. QED
    BY <2>2, <2>3, <2>4, <2>5, <2>6, <2>7, <2>8, <2>9, <2>10, <2>11, <2>12, <2>13,
       <2>14, <2>15, <2>16, <2>17, <2>18, <2>19 DEF Next, Step
<1>3. QED
  BY <1>1, <1>2, PTL DEF Spec

\* Every variable has its type, through any overlap and fault.
THEOREM TypeCorrect == Spec => []TypeOK
BY TypesHold, PTL DEF TypeInv

-----------------------------------------------------------------------------
(***************************************************************************)
(* What no step does: take back an answer, move a request to another        *)
(* position, or reopen one that has been decided.                          *)
(***************************************************************************)
BooksGrow ==
  /\ Answered \subseteq Answered'
  /\ \A r \in Requests : request[r] # NoRow =>
       /\ request'[r].item = request[r].item
       /\ request[r].status \in Decided => request'[r].status \in Decided

\* Then what was answered and decided for a position only grows.
LEMMA AnswersGrow ==
  ASSUME TypeInv, BooksGrow, NEW i \in Items
  PROVE  /\ AnswersOf(i) \subseteq AnswersOf(i)'
         /\ Settled(i) \subseteq Settled(i)'
         /\ IsFiniteSet(Settled(i)) /\ IsFiniteSet(Settled(i)')
         /\ Cardinality(Settled(i)) <= Cardinality(Settled(i)')
<1>1. \A r \in RequestsOf(i) : request[r] # NoRow
  BY RefundAssumption DEF RequestsOf, NoRow
<1>2. RequestsOf(i) \subseteq RequestsOf(i)'
  BY <1>1 DEF RequestsOf, BooksGrow
<1>3. AnswersOf(i) \subseteq AnswersOf(i)'
  BY <1>2 DEF AnswersOf, BooksGrow, Answered
<1>4. Settled(i) \subseteq Settled(i)'
  BY <1>1, <1>3 DEF Settled, AnswersOf, RequestsOf, BooksGrow
<1>5. Settled(i) \subseteq Requests /\ Settled(i)' \subseteq Requests
  BY DEF Settled, AnswersOf, RequestsOf
<1>6. IsFiniteSet(Settled(i)) /\ IsFiniteSet(Settled(i)')
  BY <1>5, RefundAssumption, FS_Subset
<1>7. QED
  BY <1>3, <1>4, <1>6, FS_Subset

\* A step that marks nothing as refunded and gives back no seats.
LEMMA NothingMarked ==
  ASSUME TypeInv, MoneyInv, BooksGrow, released' = released,
         \A i \in Items : item'[i] = "REFUNDED" => item[i] = "REFUNDED"
  PROVE  SeatsOfDecided' /\ MarkedIsAnswered'
<1>1. ASSUME NEW i \in Items PROVE released'[i] <= Cardinality(Settled(i)')
  <2>1. Cardinality(Settled(i)) \in Nat /\ Cardinality(Settled(i)') \in Nat
    BY AnswersGrow, FS_CardinalityType
  <2>2. released[i] \in Nat /\ released[i] <= Cardinality(Settled(i))
    BY DEF TypeInv, TypeOK, MoneyInv, SeatsOfDecided
  <2>3. QED
    BY <2>1, <2>2, AnswersGrow
<1>2. ASSUME NEW i \in Items, item'[i] = "REFUNDED"
      PROVE  AnswersOf(i)' # {} \/ Nobody \in Answered'
  <2>1. AnswersOf(i) # {} \/ Nobody \in Answered
    BY <1>2 DEF MoneyInv, MarkedIsAnswered
  <2>2. QED
    BY <2>1, AnswersGrow DEF BooksGrow
<1>3. QED
  BY <1>1, <1>2 DEF SeatsOfDecided, MarkedIsAnswered

\* A handler that ends knows nothing any more.
LEMMA KnownAtEnd ==
  ASSUME TypeInv, AnswerIsKnown, BooksGrow, NEW p \in Procs, Finish(p)
  PROVE  AnswerIsKnown'
BY DEF TypeInv, TypeOK, AnswerIsKnown, BooksGrow, Finish, Idle

\* A handler goes on to write only with the answer it needs.
LEMMA KnownGoingOn ==
  ASSUME TypeInv, AnswerIsKnown, BooksGrow, NEW p \in Procs, NEW to, Go(p, to),
         to = "complete" => doing[p].on \in Answered',
         to \in {"markIntent", "markItems"} => Nobody \in Answered'
  PROVE  AnswerIsKnown'
<1>1. ASSUME NEW q \in Procs, q # p PROVE doing'[q] = doing[q]
  BY <1>1 DEF TypeInv, TypeOK, Go
<1>2. doing'[p].do = to /\ doing'[p].on = doing[p].on
  BY DEF TypeInv, TypeOK, Handlers, Go
<1>3. QED
  BY <1>1, <1>2 DEF AnswerIsKnown, BooksGrow

(***************************************************************************)
(* Items are marked, and seats given back, only after an answer of the     *)
(* provider to a refund that covers them: for any number of administrators *)
(* who create, reject, process and refund in any order and at one time,    *)
(* with restarts and lost answers anywhere.                                *)
(***************************************************************************)
THEOREM RefundedWasAnswered == Spec => []RefundedIsAnswered
<1>1. Init => MoneyInv
  <2> SUFFICES ASSUME Init PROVE MoneyInv
    OBVIOUS
  <2>1. \A i \in Items : Settled(i) = {}
    BY DEF Init, Settled, AnswersOf
  <2>2. \A i \in Items : Cardinality(Settled(i)) = 0
    BY <2>1, FS_EmptySet
  <2>3. QED
    BY <2>2 DEF Init, MoneyInv, AnswerIsKnown, SeatsOfDecided, MarkedIsAnswered, Idle
<1>2. TypeInv /\ MoneyInv /\ [Next]_vars => MoneyInv'
  <2> SUFFICES ASSUME TypeInv, MoneyInv, [Next]_vars PROVE MoneyInv'
    OBVIOUS
  <2> DEFINE Unmarked == /\ released' = released
                         /\ \A i \in Items : item'[i] = "REFUNDED" => item[i] = "REFUNDED"
             RowIn(r) == request[r] \in [status : Active \cup Decided, item : Items]
  <2>a. AnswerIsKnown /\ SeatsOfDecided /\ MarkedIsAnswered
    BY DEF MoneyInv
  <2>b. ASSUME BooksGrow, Unmarked, AnswerIsKnown' PROVE MoneyInv'
    BY <2>b, NothingMarked DEF MoneyInv
  <2>c. ASSUME NEW p \in Procs, doing[p].do \in OnRequest
        PROVE  doing[p].on \in Requests /\ request[doing[p].on] # NoRow /\ RowIn(doing[p].on)
    BY <2>c DEF TypeInv, TypeOK, AllOnRows, OnItsRow
  <2>d. request \in [Requests -> [status : Active \cup Decided, item : Items] \cup {NoRow}]
    BY DEF TypeInv, TypeOK
  <2>e. item \in [Items -> {"CONFIRMED", "REFUND_PENDING", "REFUNDED"}]
    BY DEF TypeInv, TypeOK
  <2>1. ASSUME NEW p \in Procs, NEW role, NEW do, NEW on, Begin(role, p, do, on),
               do \notin {"complete", "markIntent", "markItems"}
        PROVE  MoneyInv'
    <3>1. BooksGrow /\ Unmarked
      BY <2>1 DEF Begin, BooksGrow, Answered, money
    <3>2. AnswerIsKnown'
      BY <2>1, <2>a DEF Begin, AnswerIsKnown, Answered, money, Idle, TypeInv, TypeOK
    <3>3. QED
      BY <2>b, <3>1, <3>2
  <2>2. CASE Ask
    BY <2>1, <2>2 DEF Ask
  <2>3. ASSUME NEW p \in Procs, Crash(p) PROVE MoneyInv'
    <3>1. BooksGrow /\ Unmarked /\ Finish(p)
      BY <2>3 DEF Crash, BooksGrow, Answered, money
    <3>2. QED
      BY <2>a, <2>b, <3>1, KnownAtEnd
  <2>4. CASE SessionMoves
    <3>1. BooksGrow /\ Unmarked /\ AnswerIsKnown'
      BY <2>4, <2>a DEF SessionMoves, BooksGrow, Answered, money, AnswerIsKnown
    <3>2. QED
      BY <2>b, <3>1
  <2>5. ASSUME NEW p \in Procs, CreateCheck(p) PROVE MoneyInv'
    <3>1. BooksGrow /\ Unmarked /\ (Finish(p) \/ Go(p, "insert"))
      BY <2>5 DEF CreateCheck, BooksGrow, Answered, money
    <3>2. QED
      BY <2>a, <2>b, <3>1, KnownAtEnd, KnownGoingOn
  <2>6. ASSUME NEW p \in Procs, CreateInsert(p) PROVE MoneyInv'
    <3>1. BooksGrow /\ Finish(p)
      BY <2>6, <2>d DEF CreateInsert, BooksGrow, Answered, money
    <3>2. Unmarked
      BY <2>6, <2>e DEF CreateInsert
    <3>3. QED
      BY <2>a, <2>b, <3>1, <3>2, KnownAtEnd
  <2>7. ASSUME NEW r \in Requests, Approve(r) PROVE MoneyInv'
    <3>1. BooksGrow
      BY <2>7, <2>d DEF Approve, BooksGrow, Answered, money, Decided, NoRow
    <3>2. Unmarked /\ AnswerIsKnown'
      BY <2>7, <2>a DEF Approve, AnswerIsKnown, Answered, money
    <3>3. QED
      BY <2>b, <3>1, <3>2
  <2>8. ASSUME NEW p \in Procs, RejectRead(p) PROVE MoneyInv'
    <3>1. BooksGrow /\ Unmarked
      BY <2>8 DEF RejectRead, BooksGrow, Answered, money
    <3>2. CASE Finish(p)
      BY <2>a, <2>b, <3>1, <3>2, KnownAtEnd
    <3>3. CASE ~Finish(p)
      <4>1. doing'[p].do = "writeReject" /\ \A q \in Procs : q # p => doing'[q] = doing[q]
        BY <2>8, <3>3 DEF RejectRead, TypeInv, TypeOK, Handlers
      <4>2. AnswerIsKnown'
        BY <2>a, <3>1, <4>1 DEF AnswerIsKnown, BooksGrow
      <4>3. QED
        BY <2>b, <3>1, <4>2
    <3>4. QED
      BY <3>2, <3>3
  <2>9. ASSUME NEW p \in Procs, RejectWrite(p) PROVE MoneyInv'
    <3>1. doing[p].on \in Requests /\ RowIn(doing[p].on)
      BY <2>9, <2>c DEF RejectWrite, At, OnRequest
    <3>2. BooksGrow
      BY <2>9, <2>d, <3>1 DEF RejectWrite, BooksGrow, Answered, money, Decided
    <3>3. Unmarked /\ Finish(p)
      BY <2>9, <2>e, <3>1 DEF RejectWrite
    <3>4. QED
      BY <2>a, <2>b, <3>2, <3>3, KnownAtEnd
  <2>10. ASSUME NEW p \in Procs, ProcessRead(p) PROVE MoneyInv'
    <3>1. BooksGrow /\ Unmarked
      BY <2>10 DEF ProcessRead, BooksGrow, Answered, money
    <3>2. CASE Finish(p)
      BY <2>a, <2>b, <3>1, <3>2, KnownAtEnd
    <3>3. CASE ~Finish(p)
      <4>1. doing'[p].do = "claim" /\ \A q \in Procs : q # p => doing'[q] = doing[q]
        BY <2>10, <3>3 DEF ProcessRead, TypeInv, TypeOK, Handlers
      <4>2. AnswerIsKnown'
        BY <2>a, <3>1, <4>1 DEF AnswerIsKnown, BooksGrow
      <4>3. QED
        BY <2>b, <3>1, <4>2
    <3>4. QED
      BY <3>2, <3>3
  <2>11. ASSUME NEW p \in Procs, Claim(p) PROVE MoneyInv'
    <3>1. doing[p].on \in Requests /\ RowIn(doing[p].on)
      BY <2>11, <2>c DEF Claim, At, OnRequest
    <3>2. BooksGrow
      BY <2>11, <2>d, <3>1 DEF Claim, BooksGrow, Answered, money, Decided
    <3>3. Unmarked /\ (Finish(p) \/ Go(p, "call"))
      BY <2>11 DEF Claim
    <3>4. QED
      BY <2>a, <2>b, <3>2, <3>3, KnownAtEnd, KnownGoingOn
  <2>12. ASSUME NEW p \in Procs, CallProvider(p) PROVE MoneyInv'
    <3>1. BooksGrow /\ Unmarked
      BY <2>12 DEF CallProvider, Call, Returns, Cancels, Answered, money, BooksGrow
    <3>2. (Go(p, "complete") /\ doing[p].on \in Answered') \/ Go(p, "fail")
      BY <2>12 DEF CallProvider, Call, Returns, Cancels, Answered, money
    <3>3. QED
      BY <2>a, <2>b, <3>1, <3>2, KnownGoingOn
  <2>13. ASSUME NEW p \in Procs, CompleteRefund(p) PROVE MoneyInv'
    <3>1. PICK r \in Requests, i \in Items :
            r = doing[p].on /\ i = request[r].item /\ RowIn(r) /\ r \in Answered
      BY <2>13, <2>a, <2>c DEF CompleteRefund, At, OnRequest, AnswerIsKnown
    <3>2. AnswerIsKnown' /\ BooksGrow
      <4>1. BooksGrow
        BY <2>13, <2>d, <3>1 DEF CompleteRefund, BooksGrow, Answered, money, Decided
      <4>2. QED
        BY <2>13, <2>a, <4>1, KnownAtEnd DEF CompleteRefund
    <3>3. CASE request[r].status # "PROCESSING"
      BY <2>13, <2>b, <3>1, <3>2, <3>3 DEF CompleteRefund
    <3>4. CASE request[r].status = "PROCESSING"
      <4>1. /\ request' = [request EXCEPT ![r].status = "COMPLETED"]
            /\ item' = [item EXCEPT ![i] = "REFUNDED"]
            /\ released' = [released EXCEPT ![i] = @ + 1]
            /\ Answered' = Answered
        BY <2>13, <3>1, <3>4 DEF CompleteRefund, Answered, money
      <4>2. request'[r].item = i /\ request'[r].status \in Decided
        BY <2>d, <3>1, <4>1 DEF Decided
      <4>3. r \notin Settled(i)
        BY <3>4 DEF Settled, Decided
      <4>4. r \in Settled(i)'
        BY <3>1, <4>1, <4>2 DEF Settled, AnswersOf, RequestsOf, Answered
      <4>5. Settled(i) \cup {r} \subseteq Settled(i)' /\ IsFiniteSet(Settled(i)')
        BY <3>1, <3>2, <4>4, AnswersGrow
      <4>6. IsFiniteSet(Settled(i)) /\ Cardinality(Settled(i)) \in Nat
        BY <3>1, <3>2, AnswersGrow, FS_CardinalityType
      <4>7. Cardinality(Settled(i) \cup {r}) = Cardinality(Settled(i)) + 1
        BY <4>3, <4>6, FS_AddElement
      <4>b. Cardinality(Settled(i) \cup {r}) <= Cardinality(Settled(i)')
        BY <4>5, FS_Subset
      <4>8. ASSUME NEW j \in Items PROVE released'[j] <= Cardinality(Settled(j)')
        <5>1. Cardinality(Settled(j)) \in Nat /\ Cardinality(Settled(j)') \in Nat
          BY <3>2, AnswersGrow, FS_CardinalityType
        <5>2. released \in [Items -> Nat] /\ released[j] <= Cardinality(Settled(j))
          BY <2>a DEF TypeInv, TypeOK, SeatsOfDecided
        <5>3. CASE j = i
          <6>1. released'[j] = released[j] + 1
            BY <4>1, <5>2, <5>3
          <6>2. Cardinality(Settled(j)) + 1 <= Cardinality(Settled(j)')
            BY <4>7, <4>b, <5>3
          <6>3. QED
            BY <5>1, <5>2, <6>1, <6>2
        <5>4. CASE j # i
          <6>1. released'[j] = released[j]
            BY <4>1, <5>2, <5>4
          <6>2. Cardinality(Settled(j)) <= Cardinality(Settled(j)')
            BY <3>2, AnswersGrow
          <6>3. QED
            BY <5>1, <5>2, <6>1, <6>2
        <5>5. QED
          BY <5>3, <5>4
      <4>9. ASSUME NEW j \in Items, item'[j] = "REFUNDED"
            PROVE  AnswersOf(j)' # {} \/ Nobody \in Answered'
        <5>1. CASE j = i
          BY <4>4, <5>1 DEF Settled
        <5>2. CASE j # i
          <6>1. item[j] = "REFUNDED"
            BY <2>e, <4>1, <4>9, <5>2
          <6>2. QED
            BY <2>a, <3>2, <6>1, AnswersGrow DEF MarkedIsAnswered, BooksGrow
        <5>3. QED
          BY <5>1, <5>2
      <4>10. QED
        BY <3>2, <4>8, <4>9 DEF MoneyInv, SeatsOfDecided, MarkedIsAnswered
    <3>5. QED
      BY <3>3, <3>4
  <2>14. ASSUME NEW p \in Procs, FailRefund(p) PROVE MoneyInv'
    <3>1. doing[p].on \in Requests /\ RowIn(doing[p].on)
      BY <2>14, <2>c DEF FailRefund, At, OnRequest
    <3>2. BooksGrow
      BY <2>14, <2>d, <3>1 DEF FailRefund, BooksGrow, Answered, money, Decided
    <3>3. Unmarked /\ Finish(p)
      BY <2>14, <2>e, <3>1 DEF FailRefund
    <3>4. QED
      BY <2>a, <2>b, <3>2, <3>3, KnownAtEnd
  <2>15. ASSUME NEW p \in Procs, FullRead(p) PROVE MoneyInv'
    <3>1. BooksGrow /\ Unmarked /\ (Finish(p) \/ Go(p, "callFull"))
      BY <2>15 DEF FullRead, BooksGrow, Answered, money
    <3>2. QED
      BY <2>a, <2>b, <3>1, KnownAtEnd, KnownGoingOn
  <2>16. ASSUME NEW p \in Procs, FullCall(p) PROVE MoneyInv'
    <3>1. BooksGrow /\ Unmarked
      BY <2>16 DEF FullCall, Call, Returns, Cancels, Answered, money, BooksGrow
    <3>2. (Go(p, "markIntent") /\ Nobody \in Answered') \/ Finish(p)
      BY <2>16 DEF FullCall, Call, Returns, Cancels, Answered, money
    <3>3. QED
      BY <2>a, <2>b, <3>1, <3>2, KnownAtEnd, KnownGoingOn
  <2>17. ASSUME NEW p \in Procs, MarkIntent(p) PROVE MoneyInv'
    <3>1. BooksGrow /\ Unmarked /\ Go(p, "markItems") /\ Nobody \in Answered'
      BY <2>17, <2>a DEF MarkIntent, At, BooksGrow, Answered, money, AnswerIsKnown
    <3>2. QED
      BY <2>a, <2>b, <3>1, KnownGoingOn
  <2>18. ASSUME NEW p \in Procs, MarkItems(p) PROVE MoneyInv'
    <3>1. BooksGrow /\ Finish(p) /\ released' = released /\ Nobody \in Answered'
      BY <2>18, <2>a DEF MarkItems, At, BooksGrow, Answered, money, AnswerIsKnown
    <3>2. AnswerIsKnown' /\ MarkedIsAnswered'
      BY <2>a, <3>1, KnownAtEnd DEF MarkedIsAnswered
    <3>3. SeatsOfDecided'
      <4>1. ASSUME NEW j \in Items PROVE released'[j] <= Cardinality(Settled(j)')
        <5>1. Cardinality(Settled(j)) \in Nat /\ Cardinality(Settled(j)') \in Nat
          BY <3>1, AnswersGrow, FS_CardinalityType
        <5>2. released[j] \in Nat /\ released[j] <= Cardinality(Settled(j))
          BY <2>a DEF TypeInv, TypeOK, SeatsOfDecided
        <5>3. QED
          BY <3>1, <5>1, <5>2, AnswersGrow
      <4>2. QED
        BY <4>1 DEF SeatsOfDecided
    <3>4. QED
      BY <3>2, <3>3 DEF MoneyInv
  <2>19. CASE UNCHANGED vars
    <3>1. BooksGrow /\ Unmarked /\ AnswerIsKnown'
      BY <2>19, <2>a DEF vars, BooksGrow, AnswerIsKnown, Answered
    <3>2. QED
      BY <2>b, <3>1
  <2>20. QED
    BY <2>2, <2>3, <2>4, <2>5, <2>6, <2>7, <2>8, <2>9, <2>10, <2>11, <2>12, <2>13,
       <2>14, <2>15, <2>16, <2>17, <2>18, <2>19 DEF Next, Step
<1>3. TypeInv /\ MoneyInv => RefundedIsAnswered
  <2> SUFFICES ASSUME TypeInv, MoneyInv, NEW i \in Items
               PROVE  /\ item[i] = "REFUNDED" => AnswersOf(i) # {} \/ Nobody \in Answered
                      /\ released[i] <= Cardinality(AnswersOf(i))
    BY DEF RefundedIsAnswered, Answered
  <2>1. Settled(i) \subseteq AnswersOf(i) /\ AnswersOf(i) \subseteq Requests
    BY DEF Settled, AnswersOf, RequestsOf
  <2>2. IsFiniteSet(Settled(i)) /\ IsFiniteSet(AnswersOf(i))
    BY <2>1, RefundAssumption, FS_Subset
  <2>3. Cardinality(Settled(i)) <= Cardinality(AnswersOf(i))
    BY <2>1, <2>2, FS_Subset
  <2>4. Cardinality(Settled(i)) \in Nat /\ Cardinality(AnswersOf(i)) \in Nat
    BY <2>2, FS_CardinalityType
  <2>5. released[i] \in Nat /\ released[i] <= Cardinality(Settled(i))
    BY DEF TypeInv, TypeOK, MoneyInv, SeatsOfDecided
  <2>6. QED
    BY <2>3, <2>4, <2>5 DEF MoneyInv, MarkedIsAnswered
<1>4. QED
  BY <1>1, <1>2, <1>3, TypesHold, PTL DEF Spec
-----------------------------------------------------------------------------
(***************************************************************************)
(* Handlers in turn.  A scene is Calm when no two handlers overlap, except *)
(* that a request may be processed by several calls.                       *)
(***************************************************************************)
ProcessTasks == {"read", "claim", "call", "complete", "fail"}
FullTasks == {"readIntent", "callFull", "markIntent", "markItems"}

\* The steps of a handler belong to its role.
RoleFits ==
  \A p \in Procs :
    /\ doing[p].do # "idle" => doing[p].role \in scene.roles
    /\ (doing[p].do \in ProcessTasks) <=> (doing[p].role = "process")
    /\ doing[p].do \in FullTasks => doing[p].role = "full"

\* In a calm scene two handlers are under way only if both process.
InTurn ==
  Calm => \A p, q \in Procs :
    p # q /\ doing[p].do # "idle" /\ doing[q].do # "idle" =>
      doing[p].role = "process" /\ scene.together = {"process"}

RoleInv == RoleFits /\ InTurn

\* Where a handler goes with one step.
Flows(p) ==
  \/ doing'[p] = Idle
  \/ /\ doing'[p].role = doing[p].role /\ doing'[p].on = doing[p].on
     /\ \/ doing[p].do = "check" /\ doing'[p].do = "insert"
        \/ doing[p].do = "readReject" /\ doing'[p].do = "writeReject"
        \/ doing[p].do = "read" /\ doing'[p].do = "claim"
        \/ doing[p].do = "claim" /\ doing'[p].do = "call"
        \/ doing[p].do = "call" /\ doing'[p].do \in {"complete", "fail"}
        \/ doing[p].do = "readIntent" /\ doing'[p].do = "callFull"
        \/ doing[p].do = "callFull" /\ doing'[p].do = "markIntent"
        \/ doing[p].do = "markIntent" /\ doing'[p].do = "markItems"

OthersRest(p) == \A q \in Procs : q # p => doing'[q] = doing[q]

\* The step of a handler is its own.
LEMMA HandlersFlow ==
  ASSUME TypeInv, NEW p \in Procs, Step(p) \/ Crash(p)
  PROVE  scene' = scene /\ OthersRest(p) /\ Flows(p) /\ doing[p].do # "idle"
<1>1. doing \in [Procs -> Handlers] /\ doing[p] \in Handlers
  BY DEF TypeInv, TypeOK
<1>2. ASSUME Finish(p) PROVE OthersRest(p) /\ Flows(p)
  BY <1>1, <1>2 DEF Finish, OthersRest, Flows
<1>3. ASSUME NEW to, Go(p, to)
      PROVE  /\ OthersRest(p) /\ doing'[p].do = to
             /\ doing'[p].role = doing[p].role /\ doing'[p].on = doing[p].on
  BY <1>1, <1>3 DEF Go, OthersRest, Handlers
<1>4. CASE CreateCheck(p) \/ Claim(p) \/ FullRead(p) \/ MarkIntent(p)
  BY <1>2, <1>3, <1>4 DEF CreateCheck, Claim, FullRead, MarkIntent, At, Flows
<1>5. CASE CallProvider(p) \/ FullCall(p)
  BY <1>2, <1>3, <1>5 DEF CallProvider, FullCall, Call, At, Flows
<1>6. CASE CreateInsert(p) \/ RejectWrite(p) \/ CompleteRefund(p) \/ FailRefund(p)
           \/ MarkItems(p) \/ Crash(p)
  BY <1>2, <1>6 DEF CreateInsert, RejectWrite, CompleteRefund, FailRefund, MarkItems,
     Crash, At
<1>7. CASE RejectRead(p)
  BY <1>1, <1>2, <1>7 DEF RejectRead, At, Handlers, OthersRest, Flows
<1>8. CASE ProcessRead(p)
  BY <1>1, <1>2, <1>8 DEF ProcessRead, At, Handlers, OthersRest, Flows
<1>9. QED
  BY <1>4, <1>5, <1>6, <1>7, <1>8 DEF Step

\* What a request that begins is given.
LEMMA Beginnings ==
  ASSUME TypeInv, NEW p \in Procs, NEW role, NEW do, NEW on, Begin(role, p, do, on)
  PROVE  /\ OthersRest(p) /\ doing[p].do = "idle" /\ scene' = scene
         /\ doing'[p].role = role /\ doing'[p].do = do /\ doing'[p].on = on
BY DEF TypeInv, TypeOK, Begin, OthersRest, Idle

\* In a calm scene a handler that does not process is alone.
LEMMA Alone ==
  ASSUME TypeInv, RoleInv, Calm, NEW p \in Procs, doing[p].do # "idle",
         doing[p].do \notin ProcessTasks \/ scene.together = {}
  PROVE  \A q \in Procs : q # p => doing[q].do = "idle"
BY DEF RoleInv, RoleFits, InTurn

\* Roles and turns are kept by every step of the system.
LEMMA RolesAreKept == TypeInv /\ RoleInv /\ [Next]_vars => RoleInv'
<1> SUFFICES ASSUME TypeInv, RoleInv, [Next]_vars PROVE RoleInv'
  OBVIOUS
<1>1. ASSUME NEW p \in Procs, NEW role \in Roles, NEW do, NEW on, Begin(role, p, do, on),
             do # "idle", do \in ProcessTasks <=> role = "process",
             do \in FullTasks => role = "full"
      PROVE  RoleInv'
  <2>1. /\ OthersRest(p) /\ doing[p].do = "idle" /\ scene' = scene
        /\ doing'[p].role = role /\ doing'[p].do = do
    BY <1>1, Beginnings
  <2>a. role \in scene.roles
    BY <1>1 DEF Begin
  <2>2. RoleFits'
    BY <1>1, <2>1, <2>a DEF RoleInv, RoleFits, OthersRest
  <2>3. ASSUME Calm, NEW q \in Procs, q # p, doing[q].do # "idle"
        PROVE  role = "process" /\ doing[q].role = "process" /\ scene.together = {"process"}
    <3>1. q \in Busy
      BY <2>3 DEF Busy
    <3>2. {role, doing[q].role} \subseteq scene.together
      BY <1>1, <3>1 DEF Begin
    <3>3. QED
      BY <2>3, <3>2 DEF Calm
  <2>4. InTurn'
    BY <2>1, <2>3 DEF RoleInv, InTurn, OthersRest, Calm
  <2>5. QED
    BY <2>2, <2>4 DEF RoleInv
<1>2. CASE Ask
  BY <1>1, <1>2 DEF Ask, Roles, ProcessTasks, FullTasks
<1>3. ASSUME NEW p \in Procs, Step(p) \/ Crash(p) PROVE RoleInv'
  <2>1. scene' = scene /\ OthersRest(p) /\ Flows(p) /\ doing[p].do # "idle"
    BY <1>3, HandlersFlow
  <2>2. RoleFits'
    BY <2>1 DEF RoleInv, RoleFits, OthersRest, Flows, Idle, ProcessTasks, FullTasks
  <2>3. InTurn'
    BY <2>1 DEF RoleInv, InTurn, OthersRest, Flows, Idle, Calm
  <2>4. QED
    BY <2>2, <2>3 DEF RoleInv
<1>4. CASE \E r \in Requests : Approve(r)
  BY <1>4 DEF Approve, RoleInv, RoleFits, InTurn, Calm
<1>5. CASE SessionMoves \/ UNCHANGED vars
  BY <1>5 DEF SessionMoves, vars, RoleInv, RoleFits, InTurn, Calm
<1>6. QED
  BY <1>2, <1>3, <1>4, <1>5 DEF Next

\* A request that is open, or has been carried out.
Live(r) == request[r].status \in Active \cup {"COMPLETED"}

\* No two of them are about one position.
OneLive ==
  \A r, s \in Requests : Live(r) /\ Live(s) /\ request[r].item = request[s].item => r = s

\* What a handler has read is still so.
Sound(h) ==
  /\ h.do = "insert" => \A r \in RequestsOf(h.on) : ~Live(r)
  /\ h.do = "writeReject" =>
       /\ request[h.on].status \in {"CREATED", "APPROVED"}
       /\ h.pending = (item[request[h.on].item] = "REFUND_PENDING")
  /\ h.do \in {"claim", "call", "complete", "fail"} =>
       /\ \A s \in RequestsOf(request[h.on].item) : Live(s) => s = h.on
       /\ request[h.on].status \in Active \cup {"COMPLETED", "FAILED"}
  /\ h.do \in {"call", "complete", "fail"} =>
       request[h.on].status \in {"PROCESSING", "COMPLETED", "FAILED"}
  /\ scene.together = {} =>
       /\ h.do = "claim" => h.seen = request[h.on].status
       /\ h.do \in {"call", "complete", "fail"} => request[h.on].status = "PROCESSING"

PlansSound == \A p \in Procs : Sound(doing[p])

Waits ==
  \A i \in Items :
    /\ item[i] = "REFUND_PENDING" => \E r \in RequestsOf(i) : request[r].status \in Active
    /\ "full" \notin scene.roles =>
         \A r \in RequestsOf(i) : request[r].status \in Active => item[i] = "REFUND_PENDING"

RowsAgree == OneLive /\ PlansSound /\ Waits

CalmInv == Calm => RowsAgree

\* An idle handler has read nothing.
LEMMA IdleIsSound == \A h : h.do = "idle" => Sound(h)'
BY DEF Sound

\* A step that writes no row leaves what others have read.
LEMMA RowsUntouched ==
  ASSUME TypeInv, RowsAgree, NEW p \in Procs, OthersRest(p), scene' = scene,
         request' = request, item' = item, Sound(doing'[p])
  PROVE  RowsAgree'
<1>1. \A h : Sound(h)' <=> Sound(h)
  BY DEF Sound, RequestsOf, Live
<1>2. ASSUME NEW q \in Procs PROVE Sound(doing[q])'
  <2>1. PICK h : h = doing'[q]
    OBVIOUS
  <2>2. Sound(h)
    BY <2>1 DEF RowsAgree, PlansSound, OthersRest
  <2>3. Sound(h)'
    BY <1>1, <2>2
  <2>4. QED
    BY <2>1, <2>3 DEF Sound, RequestsOf, Live
<1>3. QED
  BY <1>2 DEF RowsAgree, PlansSound, OneLive, Waits, RequestsOf, Live

\* One status is written; every request stays with its position.
LEMMA StatusWritten ==
  ASSUME TypeInv, NEW r \in Requests, NEW x, request' = [request EXCEPT ![r].status = x]
  PROVE  /\ \A s \in Requests : /\ request'[s].item = request[s].item
                                /\ request'[s].status = IF s = r THEN x ELSE request[s].status
         /\ \A i : RequestsOf(i)' = RequestsOf(i)
<1>1. request \in [Requests -> [status : Active \cup Decided, item : Items] \cup {NoRow}]
  BY DEF TypeInv, TypeOK
<1>2. \A s \in Requests : /\ request'[s].item = request[s].item
                          /\ request'[s].status = IF s = r THEN x ELSE request[s].status
  BY <1>1 DEF NoRow
<1>3. QED
  BY <1>2 DEF RequestsOf

\* process writes its request; what other calls of process have read stays right.
LEMMA ProcessWrites ==
  ASSUME TypeInv, RoleInv, RowsAgree, Calm, NEW p \in Procs, doing[p].do \in ProcessTasks,
         OthersRest(p), scene' = scene, NEW r \in Requests,
         NEW x \in {"PROCESSING", "COMPLETED", "FAILED"}, x # "FAILED" => Live(r),
         request' = [request EXCEPT ![r].status = x], Sound(doing[p])'
  PROVE  OneLive' /\ PlansSound' /\ \A s \in Requests : Live(s)' => Live(s)
<1>1. /\ \A s \in Requests : /\ request'[s].item = request[s].item
                             /\ request'[s].status = IF s = r THEN x ELSE request[s].status
      /\ \A i : RequestsOf(i)' = RequestsOf(i)
  BY StatusWritten
<1>2. \A s \in Requests : Live(s)' => Live(s)
  BY <1>1 DEF Live, Active
<1>3. OneLive'
  BY <1>1, <1>2 DEF RowsAgree, OneLive
<1>4. ASSUME NEW q \in Procs, q # p PROVE Sound(doing[q])'
  <2>1. PICK h : h = doing[q] /\ h = doing'[q]
    BY <1>4 DEF OthersRest
  <2>2. CASE h.do = "idle"
    <3>1. Sound(h)'
      BY <2>2, IdleIsSound
    <3>2. QED
      BY <2>1, <3>1 DEF Sound, RequestsOf, Live
  <2>3. CASE h.do # "idle"
    <3>a. doing[p].do # "idle" /\ doing[q].do # "idle"
      BY <2>1, <2>3 DEF ProcessTasks
    <3>b. doing[q].role = "process" /\ scene.together = {"process"}
      BY <1>4, <3>a DEF RoleInv, InTurn
    <3>1. h.do \in ProcessTasks /\ scene.together # {}
      BY <2>1, <3>b DEF RoleInv, RoleFits
    <3>2. h.do # "read" => h.on \in Requests
      BY <2>1, <3>1 DEF TypeInv, AllOnRows, OnItsRow, OnRequest, ProcessTasks
    <3>3. Sound(h)
      BY <2>1 DEF RowsAgree, PlansSound
    <3>4. ASSUME h.do # "read"
          PROVE  /\ request'[h.on].item = request[h.on].item
                 /\ request'[h.on].status \in {request[h.on].status, x}
                 /\ \A s \in RequestsOf(request[h.on].item) : Live(s) => s = h.on
      BY <1>1, <3>1, <3>2, <3>3, <3>4 DEF Sound, ProcessTasks
    <3>5. ASSUME h.do # "read", NEW s \in Requests,
                 request'[s].item = request'[h.on].item, Live(s)'
          PROVE  s = h.on
      BY <1>1, <1>2, <3>4, <3>5 DEF RequestsOf
    <3>6. h.do \in {"claim", "call", "complete", "fail"} =>
            request'[h.on].status \in Active \cup {"COMPLETED", "FAILED"}
      BY <3>3, <3>4 DEF Sound, Active
    <3>7. h.do \in {"call", "complete", "fail"} =>
            request'[h.on].status \in {"PROCESSING", "COMPLETED", "FAILED"}
      BY <3>3, <3>4 DEF Sound
    <3>8. Sound(h)'
      BY <3>1, <3>5, <3>6, <3>7 DEF Sound, RequestsOf, ProcessTasks
    <3>9. QED
      BY <2>1, <3>8 DEF Sound, RequestsOf, Live
  <2>4. QED
    BY <2>2, <2>3
<1>5. QED
  BY <1>2, <1>3, <1>4 DEF PlansSound

\* A handler that was alone ends: nobody has read anything.
LEMMA LastOneEnds ==
  ASSUME TypeInv, RoleInv, Calm, NEW p \in Procs, OthersRest(p),
         doing[p].do \notin ProcessTasks \cup {"idle"}, Finish(p)
  PROVE  PlansSound'
<1>1. \A q \in Procs : doing'[q].do = "idle"
  BY Alone DEF OthersRest, Finish, Idle, TypeInv, TypeOK
<1>2. QED
  BY <1>1 DEF PlansSound, Sound

\* In a calm scene every step keeps the rows in agreement.
LEMMA CalmIsKept == TypeInv /\ RoleInv /\ CalmInv /\ [Next]_vars => CalmInv'
<1> SUFFICES ASSUME TypeInv, RoleInv, CalmInv, [Next]_vars, Calm'
             PROVE  RowsAgree'
  BY DEF CalmInv
<1>a. scene' = scene /\ Calm /\ RowsAgree
  <2>1. scene' = scene
    <3>1. ASSUME NEW p \in Procs, Step(p) \/ Crash(p) PROVE scene' = scene
      BY <3>1, HandlersFlow
    <3>2. ASSUME NEW p \in Procs, NEW role, NEW do, NEW on, Begin(role, p, do, on)
          PROVE  scene' = scene
      BY <3>2 DEF Begin
    <3>3. CASE Ask
      BY <3>2, <3>3 DEF Ask
    <3>4. CASE SessionMoves \/ UNCHANGED vars \/ \E r \in Requests : Approve(r)
      BY <3>4 DEF vars, Approve, SessionMoves
    <3>5. QED
      BY <3>1, <3>3, <3>4 DEF Next
  <2>2. QED
    BY <2>1 DEF Calm, CalmInv
<1>b. /\ request \in [Requests -> [status : Active \cup Decided, item : Items] \cup {NoRow}]
      /\ item \in [Items -> {"CONFIRMED", "REFUND_PENDING", "REFUNDED"}]
      /\ doing \in [Procs -> Handlers]
  BY DEF TypeInv, TypeOK
<1>c. ASSUME NEW p \in Procs, doing[p].do \in OnRequest
      PROVE  /\ doing[p].on \in Requests /\ request[doing[p].on] # NoRow
             /\ request[doing[p].on] \in [status : Active \cup Decided, item : Items]
  BY <1>b, <1>c DEF TypeInv, AllOnRows, OnItsRow
<1>d. ASSUME NEW p \in Procs, Finish(p) PROVE doing'[p].do = "idle" /\ Sound(doing'[p])
  BY <1>b, <1>d DEF Finish, Idle, Sound
<1>1. ASSUME NEW p \in Procs, NEW role, NEW do, NEW on, Begin(role, p, do, on),
             do \in {"check", "readReject", "read", "readIntent"}
      PROVE  RowsAgree'
  <2>1. OthersRest(p) /\ doing'[p].do = do
    BY <1>1, Beginnings
  <2>2. Sound(doing'[p])
    BY <1>1, <2>1 DEF Sound
  <2>3. QED
    BY <1>1, <1>a, <2>1, <2>2, RowsUntouched DEF Begin
<1>2. CASE Ask
  BY <1>1, <1>2 DEF Ask
<1>3. ASSUME NEW p \in Procs, Crash(p) PROVE RowsAgree'
  BY <1>3, <1>a, <1>d, HandlersFlow, RowsUntouched DEF Crash
<1>4. CASE SessionMoves \/ UNCHANGED vars
  BY <1>4, <1>a DEF SessionMoves, vars, RowsAgree, OneLive, PlansSound, Waits, Sound,
     RequestsOf, Live
<1>5. ASSUME NEW r \in Requests, Approve(r) PROVE RowsAgree'
  <2>1. \A q \in Procs : doing'[q].do = "idle"
    BY <1>5, <1>a DEF Approve, Calm, Busy
  <2>2. PlansSound'
    BY <2>1 DEF PlansSound, Sound
  <2>3. /\ \A s \in Requests : /\ request'[s].item = request[s].item
                               /\ request'[s].status =
                                    IF s = r THEN "APPROVED" ELSE request[s].status
        /\ \A i : RequestsOf(i)' = RequestsOf(i)
    BY <1>5, StatusWritten DEF Approve
  <2>4. request[r].status = "CREATED" /\ item' = item
    BY <1>5 DEF Approve
  <2>5. OneLive'
    BY <1>a, <2>3, <2>4 DEF RowsAgree, OneLive, Live, Active
  <2>6. Waits'
    BY <1>a, <2>3, <2>4 DEF RowsAgree, Waits, RequestsOf, Active
  <2>7. QED
    BY <2>2, <2>5, <2>6 DEF RowsAgree
<1>6. ASSUME NEW p \in Procs, CreateCheck(p) PROVE RowsAgree'
  <2>1. Sound(doing'[p])
    <3>1. CASE Finish(p)
      BY <1>d, <3>1
    <3>2. CASE ~Finish(p)
      <4>1. /\ doing'[p].do = "insert" /\ doing'[p].on = doing[p].on
            /\ NoRequestYet(doing[p].on)
        BY <1>6, <1>b, <3>2 DEF CreateCheck, Go, Handlers
      <4>2. QED
        BY <4>1 DEF Sound, NoRequestYet, Live
    <3>3. QED
      BY <3>1, <3>2
  <2>2. QED
    BY <1>6, <1>a, <2>1, HandlersFlow, RowsUntouched DEF CreateCheck, Step
<1>7. ASSUME NEW p \in Procs, CreateInsert(p) PROVE RowsAgree'
  <2>1. PICK i \in Items, r \in Requests :
          /\ i = doing[p].on /\ request[r] = NoRow
          /\ request' = [request EXCEPT ![r] = [status |-> "CREATED", item |-> i]]
          /\ item' = [item EXCEPT ![i] = "REFUND_PENDING"]
    BY <1>7 DEF CreateInsert, At, TypeInv, AllOnRows, OnItsRow
  <2>2. \A s \in Requests : request'[s] = IF s = r THEN [status |-> "CREATED", item |-> i]
                                          ELSE request[s]
    BY <1>b, <2>1
  <2>3. \A s \in RequestsOf(i) : ~Live(s)
    BY <1>7, <1>a, <2>1 DEF CreateInsert, At, RowsAgree, PlansSound, Sound
  <2>4. PlansSound'
    BY <1>7, <1>a, HandlersFlow, LastOneEnds DEF CreateInsert, At, Step, ProcessTasks
  <2>5. OneLive'
    BY <1>a, <2>2, <2>3 DEF RowsAgree, OneLive, Live, RequestsOf
  <2>6. ASSUME NEW j \in Items
        PROVE  /\ item'[j] = "REFUND_PENDING" =>
                    \E s \in RequestsOf(j)' : request'[s].status \in Active
               /\ "full" \notin scene.roles =>
                    \A s \in RequestsOf(j)' : request'[s].status \in Active =>
                      item'[j] = "REFUND_PENDING"
    <3>1. CASE j = i
      BY <1>b, <2>1, <2>2, <3>1 DEF RequestsOf, Active
    <3>2. CASE j # i
      <4>1. item'[j] = item[j]
        BY <1>b, <2>1, <3>2
      <4>2. r \notin RequestsOf(j) /\ RequestsOf(j)' = RequestsOf(j)
        BY <2>1, <2>2, <3>2, RefundAssumption DEF RequestsOf, NoRow
      <4>3. \A s \in RequestsOf(j) : s # r /\ request'[s] = request[s]
        BY <2>2, <4>2 DEF RequestsOf
      <4>4. QED
        BY <1>a, <4>1, <4>2, <4>3 DEF RowsAgree, Waits
    <3>3. QED
      BY <3>1, <3>2
  <2>7. QED
    BY <1>a, <2>4, <2>5, <2>6 DEF RowsAgree, Waits
<1>8. ASSUME NEW p \in Procs, RejectRead(p) PROVE RowsAgree'
  <2>1. Sound(doing'[p])
    <3>1. CASE Finish(p)
      BY <1>d, <3>1
    <3>2. CASE ~Finish(p)
      <4>1. /\ doing'[p].do = "writeReject" /\ doing'[p].on = doing[p].on
            /\ request[doing[p].on].status \in {"CREATED", "APPROVED"}
            /\ doing'[p].pending = (item[request[doing[p].on].item] = "REFUND_PENDING")
        BY <1>8, <1>b, <3>2 DEF RejectRead, Handlers
      <4>2. QED
        BY <4>1 DEF Sound
    <3>3. QED
      BY <3>1, <3>2
  <2>2. QED
    BY <1>8, <1>a, <2>1, HandlersFlow, RowsUntouched DEF RejectRead, Step
<1>9. ASSUME NEW p \in Procs, RejectWrite(p) PROVE RowsAgree'
  <2>1. PICK r \in Requests, i \in Items : r = doing[p].on /\ i = request[r].item
    BY <1>9, <1>c DEF RejectWrite, At, OnRequest
  <2>2. /\ request[r].status \in {"CREATED", "APPROVED"}
        /\ doing[p].pending = (item[i] = "REFUND_PENDING")
    BY <1>9, <1>a, <2>1 DEF RejectWrite, At, RowsAgree, PlansSound, Sound
  <2>3. request' = [request EXCEPT ![r].status = "REJECTED"]
    BY <1>9, <2>1 DEF RejectWrite
  <2>4. /\ \A s \in Requests : /\ request'[s].item = request[s].item
                               /\ request'[s].status =
                                    IF s = r THEN "REJECTED" ELSE request[s].status
        /\ \A j : RequestsOf(j)' = RequestsOf(j)
    BY <2>3, StatusWritten
  <2>5. item'[i] # "REFUND_PENDING" /\ \A j \in Items : j # i => item'[j] = item[j]
    BY <1>9, <1>b, <2>1, <2>2 DEF RejectWrite
  <2>6. PlansSound'
    BY <1>9, <1>a, HandlersFlow, LastOneEnds DEF RejectWrite, At, Step, ProcessTasks
  <2>7. OneLive'
    BY <1>a, <2>4 DEF RowsAgree, OneLive, Live, Active
  <2>8. \A s \in RequestsOf(i) : s # r => request[s].status \notin Active
    BY <1>a, <2>1, <2>2 DEF RowsAgree, OneLive, Live, Active, RequestsOf
  <2>9. Waits'
    BY <1>a, <2>1, <2>4, <2>5, <2>8 DEF RowsAgree, Waits, RequestsOf, Active
  <2>10. QED
    BY <2>6, <2>7, <2>9 DEF RowsAgree
<1>10. ASSUME NEW p \in Procs, ProcessRead(p) PROVE RowsAgree'
  <2>1. PICK r \in Requests : r = doing[p].on /\ request[r].status \in Active \cup Decided
    BY <1>10, <1>c DEF ProcessRead, At, OnRequest
  <2>2. Sound(doing'[p])
    <3>1. CASE Finish(p)
      BY <1>d, <3>1
    <3>2. CASE ~Finish(p)
      <4>1. /\ doing'[p].do = "claim" /\ doing'[p].on = r
            /\ doing'[p].seen = request[r].status /\ request[r].status \in Active
        BY <1>10, <1>b, <2>1, <3>2 DEF ProcessRead, Handlers
      <4>2. \A s \in RequestsOf(request[r].item) : Live(s) => s = r
        BY <1>a, <4>1 DEF RowsAgree, OneLive, Live, RequestsOf
      <4>3. QED
        BY <4>1, <4>2 DEF Sound
    <3>3. QED
      BY <3>1, <3>2
  <2>3. QED
    BY <1>10, <1>a, <2>2, HandlersFlow, RowsUntouched DEF ProcessRead, Step
<1>11. ASSUME NEW p \in Procs, Claim(p) PROVE RowsAgree'
  <2>1. PICK r \in Requests : r = doing[p].on /\ doing[p].do = "claim"
    BY <1>11, <1>c DEF Claim, At, OnRequest
  <2>2. /\ \A s \in RequestsOf(request[r].item) : Live(s) => s = r
        /\ request[r].status \in Active \cup {"COMPLETED", "FAILED"}
        /\ scene.together = {} => doing[p].seen = request[r].status
    BY <1>a, <2>1 DEF RowsAgree, PlansSound, Sound
  <2>3. OthersRest(p)
    BY <1>11, HandlersFlow DEF Step
  <2>4. CASE request[r].status \notin {"CREATED", "APPROVED"}
    <3>1. UNCHANGED <<request, item>>
      BY <1>11, <2>1, <2>4 DEF Claim
    <3>2. CASE Finish(p)
      BY <1>a, <1>d, <2>3, <3>1, <3>2, RowsUntouched
    <3>3. CASE ~Finish(p)
      <4>1. /\ doing'[p].do = "call" /\ doing'[p].on = r
            /\ "PROCESSING" \in {doing[p].seen, request[r].status}
        BY <1>11, <1>b, <2>1, <2>4, <3>3 DEF Claim, Go, Handlers
      <4>2. request[r].status \in {"PROCESSING", "COMPLETED", "FAILED"}
        BY <2>2, <2>4 DEF Active
      <4>3. Sound(doing'[p])
        BY <2>2, <4>1, <4>2 DEF Sound
      <4>4. QED
        BY <1>a, <2>3, <3>1, <4>3, RowsUntouched
    <3>4. QED
      BY <3>2, <3>3
  <2>5. CASE request[r].status \in {"CREATED", "APPROVED"}
    <3>1. /\ request' = [request EXCEPT ![r].status = "PROCESSING"] /\ item' = item
      BY <1>11, <2>1, <2>5 DEF Claim
    <3>a. doing'[p].do = "call" /\ doing'[p].on = r
      BY <1>11, <1>b, <2>1, <2>5 DEF Claim, Go, Handlers
    <3>2. /\ \A s \in Requests : /\ request'[s].item = request[s].item
                                 /\ request'[s].status =
                                      IF s = r THEN "PROCESSING" ELSE request[s].status
          /\ \A i : RequestsOf(i)' = RequestsOf(i)
      BY <3>1, StatusWritten
    <3>3. \A s \in RequestsOf(request[r].item) : Live(s)' => s = r
      BY <2>2, <3>2 DEF Live, RequestsOf, Active
    <3>4. Sound(doing[p])'
      BY <3>2, <3>3, <3>a DEF Sound, RequestsOf, Active
    <3>5. OneLive' /\ PlansSound'
      BY <1>a, <2>1, <2>3, <2>5, <3>1, <3>4, ProcessWrites DEF Live, Active, ProcessTasks
    <3>6. Waits'
      BY <1>a, <2>5, <3>1, <3>2 DEF RowsAgree, Waits, RequestsOf, Active
    <3>7. QED
      BY <3>5, <3>6 DEF RowsAgree
  <2>6. QED
    BY <2>4, <2>5
<1>12. ASSUME NEW p \in Procs, CallProvider(p) PROVE RowsAgree'
  <2>1. Sound(doing[p]) /\ doing[p].do = "call"
    BY <1>12, <1>a DEF CallProvider, At, RowsAgree, PlansSound
  <2>2. doing'[p].do \in {"complete", "fail"} /\ doing'[p].on = doing[p].on
    BY <1>12, <1>b DEF CallProvider, Call, Go, Handlers
  <2>3. Sound(doing'[p])
    BY <2>1, <2>2 DEF Sound
  <2>4. QED
    BY <1>12, <1>a, <2>3, HandlersFlow, RowsUntouched DEF CallProvider, Step
<1>13. ASSUME NEW p \in Procs, CompleteRefund(p) PROVE RowsAgree'
  <2>1. PICK r \in Requests, i \in Items :
          r = doing[p].on /\ i = request[r].item /\ doing[p].do = "complete"
    BY <1>13, <1>c DEF CompleteRefund, At, OnRequest
  <2>2. OthersRest(p) /\ Finish(p)
    BY <1>13, HandlersFlow DEF CompleteRefund, Step
  <2>3. CASE request[r].status # "PROCESSING"
    BY <1>13, <1>a, <1>d, <2>1, <2>2, <2>3, RowsUntouched DEF CompleteRefund
  <2>4. CASE request[r].status = "PROCESSING"
    <3>1. /\ request' = [request EXCEPT ![r].status = "COMPLETED"]
          /\ item' = [item EXCEPT ![i] = "REFUNDED"]
      BY <1>13, <2>1, <2>4 DEF CompleteRefund
    <3>2. /\ \A s \in Requests : /\ request'[s].item = request[s].item
                                 /\ request'[s].status =
                                      IF s = r THEN "COMPLETED" ELSE request[s].status
          /\ \A j : RequestsOf(j)' = RequestsOf(j)
      BY <3>1, StatusWritten
    <3>3. Sound(doing[p])'
      BY <1>d, <2>2, IdleIsSound DEF Sound
    <3>4. OneLive' /\ PlansSound'
      BY <1>a, <2>1, <2>2, <2>4, <3>1, <3>3, ProcessWrites DEF Live, Active, ProcessTasks
    <3>5. \A s \in RequestsOf(i) : s # r => request[s].status \notin Active
      BY <1>a, <2>1, <2>4 DEF RowsAgree, OneLive, Live, Active, RequestsOf
    <3>6. item'[i] = "REFUNDED" /\ \A j \in Items : j # i => item'[j] = item[j]
      BY <1>b, <3>1
    <3>7. Waits'
      BY <1>a, <2>1, <3>2, <3>5, <3>6 DEF RowsAgree, Waits, RequestsOf, Active
    <3>8. QED
      BY <3>4, <3>7 DEF RowsAgree
  <2>5. QED
    BY <2>3, <2>4
<1>14. ASSUME NEW p \in Procs, FailRefund(p) PROVE RowsAgree'
  <2>1. PICK r \in Requests, i \in Items :
          r = doing[p].on /\ i = request[r].item /\ doing[p].do = "fail"
    BY <1>14, <1>c DEF FailRefund, At, OnRequest
  <2>2. OthersRest(p) /\ Finish(p)
    BY <1>14, HandlersFlow DEF FailRefund, Step
  <2>3. /\ request' = [request EXCEPT ![r].status = "FAILED"]
        /\ item' = [item EXCEPT ![i] = "CONFIRMED"]
    BY <1>14, <2>1 DEF FailRefund
  <2>4. /\ \A s \in Requests : /\ request'[s].item = request[s].item
                               /\ request'[s].status =
                                    IF s = r THEN "FAILED" ELSE request[s].status
        /\ \A j : RequestsOf(j)' = RequestsOf(j)
    BY <2>3, StatusWritten
  <2>5. Sound(doing[p])'
    BY <1>d, <2>2, IdleIsSound DEF Sound
  <2>6. OneLive' /\ PlansSound'
    BY <1>a, <2>1, <2>2, <2>3, <2>5, ProcessWrites DEF ProcessTasks
  <2>7. \A s \in RequestsOf(i) : s # r => request[s].status \notin Active
    BY <1>a, <2>1 DEF RowsAgree, PlansSound, Sound, Live, Active
  <2>8. item'[i] = "CONFIRMED" /\ \A j \in Items : j # i => item'[j] = item[j]
    BY <1>b, <2>3
  <2>9. Waits'
    BY <1>a, <2>1, <2>4, <2>7, <2>8 DEF RowsAgree, Waits, RequestsOf, Active
  <2>10. QED
    BY <2>6, <2>9 DEF RowsAgree
<1>15. ASSUME NEW p \in Procs, FullRead(p) \/ FullCall(p) \/ MarkIntent(p) PROVE RowsAgree'
  <2>1. Finish(p) \/ doing'[p].do \in FullTasks
    BY <1>15, <1>b DEF FullRead, FullCall, MarkIntent, Call, Go, Handlers, FullTasks
  <2>2. Sound(doing'[p])
    BY <1>d, <2>1 DEF Sound, FullTasks
  <2>3. request' = request /\ item' = item
    BY <1>15 DEF FullRead, FullCall, MarkIntent
  <2>4. QED
    BY <1>15, <1>a, <2>2, <2>3, HandlersFlow, RowsUntouched DEF Step
<1>16. ASSUME NEW p \in Procs, MarkItems(p) PROVE RowsAgree'
  <2>1. /\ item' = [i \in Items |-> "REFUNDED"] /\ request' = request
        /\ "full" \in scene.roles
    BY <1>16 DEF MarkItems, At, RoleInv, RoleFits, FullTasks
  <2>2. PlansSound'
    BY <1>16, <1>a, HandlersFlow, LastOneEnds DEF MarkItems, At, Step, ProcessTasks
  <2>3. OneLive' /\ Waits'
    BY <1>a, <2>1 DEF RowsAgree, OneLive, Live, Waits
  <2>4. QED
    BY <2>2, <2>3 DEF RowsAgree
<1>17. QED
  BY <1>2, <1>3, <1>4, <1>5, <1>6, <1>7, <1>8, <1>9, <1>10, <1>11, <1>12, <1>13, <1>14,
     <1>15, <1>16 DEF Next, Step

\* Initially nobody plays a part.
LEMMA RolesAtStart == Init => RoleInv /\ CalmInv
BY RefundAssumption DEF Init, RoleInv, RoleFits, InTurn, CalmInv, RowsAgree, OneLive,
   PlansSound, Sound, Waits, RequestsOf, Live, Idle, ProcessTasks, FullTasks, NoRow, Active

\* At most one request about a position is open.
LEMMA OneOpen ==
  ASSUME TypeInv, OneLive, NEW i \in Items
  PROVE  Cardinality({r \in RequestsOf(i) : request[r].status \in Active}) <= 1
<1> DEFINE open == {r \in RequestsOf(i) : request[r].status \in Active}
<1>1. \A r, s \in open : r = s
  BY DEF OneLive, Live, RequestsOf
<1>2. CASE open = {}
  BY <1>2, FS_EmptySet
<1>3. CASE open # {}
  <2>1. PICK x : open = {x}
    BY <1>1, <1>3
  <2>2. Cardinality(open) = 1
    BY <2>1, FS_Singleton
  <2>3. QED
    BY <2>2
<1>4. QED
  BY <1>2, <1>3

(***************************************************************************)
(* A position waits for a refund exactly while one request about it is     *)
(* open: for any positions and requests, crashes, refusals and lost        *)
(* answers when handlers take turns, and where only process overlaps       *)
(* itself and the provider always agrees.                                  *)
(***************************************************************************)
THEOREM PendingIsRequested == Spec => []PendingHasRequest
<1>1. TypeInv /\ CalmInv => PendingHasRequest
  <2> SUFFICES ASSUME TypeInv, CalmInv, Calm, NEW i \in Items
               PROVE  LET open == {r \in RequestsOf(i) : request[r].status \in Active} IN
                        /\ Cardinality(open) <= 1
                        /\ item[i] = "REFUND_PENDING" => open # {}
                        /\ open # {} /\ "full" \notin scene.roles =>
                             item[i] = "REFUND_PENDING"
    BY DEF PendingHasRequest
  <2>1. OneLive /\ Waits
    BY DEF CalmInv, RowsAgree
  <2>2. QED
    BY <2>1, OneOpen DEF Waits
<1>2. QED
  BY <1>1, RolesAtStart, RolesAreKept, CalmIsKept, TypesHold, PTL DEF Spec
-----------------------------------------------------------------------------
(***************************************************************************)
(* Money is returned once.                                                 *)
(***************************************************************************)
\* The provider has no money left for this key.
Refused(key) == Paid(returned \cup {key}) > Captured

Twice == scene.together = {"process"} /\ scene.answers = {}

PaidBound == Paid(returned) <= Captured

\* A request whose money was returned is being completed, or has been.
ReturnedIsLive ==
  Heard => \A r \in Requests : r \in returned => request[r].status \in {"PROCESSING", "COMPLETED"}

\* Who is about to fail a request has not got its money back, nor will another.
FailIsKnown ==
  Heard => \A p \in Procs : doing[p].do = "fail" =>
    doing[p].on \notin returned /\ (Twice => Refused(doing[p].on))

FailedIsRefused == Twice => \A r \in Requests : request[r].status = "FAILED" => Refused(r)

HeardInv == PaidBound /\ ReturnedIsLive /\ FailIsKnown /\ FailedIsRefused

\* What the provider has paid grows with the refunds it has made.
LEMMA PaidGrows ==
  ASSUME NEW A, NEW B \in SUBSET (Requests \cup {Nobody}), A \subseteq B
  PROVE  /\ Captured \in Nat /\ Paid(A) \in Nat /\ Paid(B) \in Nat /\ Paid(A) <= Paid(B)
         /\ Paid({}) = 0
<1>1. IsFiniteSet(Requests \cup {Nobody}) /\ Captured \in Nat
  BY RefundAssumption, FS_Singleton, FS_Union, FS_CardinalityType DEF Captured
<1>2. \A S \in SUBSET (Requests \cup {Nobody}) : IsFiniteSet(S) /\ Cardinality(S) \in Nat
  BY <1>1, FS_Subset, FS_CardinalityType
<1>3. \A S, T \in SUBSET (Requests \cup {Nobody}) :
        S \subseteq T => Cardinality(S) <= Cardinality(T)
  BY <1>2, FS_Subset
<1>4. /\ A \in SUBSET (Requests \cup {Nobody})
      /\ A \ {Nobody} \in SUBSET (Requests \cup {Nobody})
      /\ B \ {Nobody} \in SUBSET (Requests \cup {Nobody})
  OBVIOUS
<1>5. /\ Cardinality(A) \in Nat /\ Cardinality(A \ {Nobody}) \in Nat
      /\ Cardinality(B) \in Nat /\ Cardinality(B \ {Nobody}) \in Nat
      /\ Cardinality(A) <= Cardinality(B)
      /\ Cardinality(A \ {Nobody}) <= Cardinality(B \ {Nobody})
      /\ Nobody \notin A => Cardinality(A) <= Cardinality(B \ {Nobody})
  <2>1. Nobody \notin A => A \subseteq B \ {Nobody}
    OBVIOUS
  <2>2. QED
    BY <1>2, <1>3, <1>4, <2>1
<1>6. Paid(A) \in Nat /\ Paid(B) \in Nat
  BY <1>1, <1>5 DEF Paid
<1>7. Paid(A) <= Paid(B)
  BY <1>1, <1>5 DEF Paid
<1>8. Paid({}) = 0
  BY FS_EmptySet DEF Paid
<1>9. QED
  BY <1>1, <1>6, <1>7, <1>8

\* A refusal is final.
LEMMA RefusedStays ==
  ASSUME TypeInv, returned \subseteq returned', returned' \subseteq Requests \cup {Nobody},
         NEW r \in Requests, Refused(r)
  PROVE  Refused(r)' /\ (PaidBound => r \notin returned) /\ (PaidBound' => r \notin returned')
<1>1. /\ returned \cup {r} \subseteq returned' \cup {r}
      /\ returned' \cup {r} \in SUBSET (Requests \cup {Nobody})
  OBVIOUS
<1>2. /\ Captured \in Nat /\ Paid(returned \cup {r}) \in Nat /\ Paid(returned' \cup {r}) \in Nat
      /\ Paid(returned \cup {r}) <= Paid(returned' \cup {r})
  BY <1>1, PaidGrows
<1>4. Paid(returned' \cup {r}) > Captured
  BY <1>2 DEF Refused
<1>5. Refused(r)'
  BY <1>4 DEF Refused
<1>6. PaidBound => r \notin returned
  <2> SUFFICES ASSUME PaidBound, r \in returned PROVE FALSE
    OBVIOUS
  <2>1. returned \cup {r} = returned
    OBVIOUS
  <2>2. QED
    BY <1>2, <2>1 DEF PaidBound, Refused
<1>7. PaidBound' => r \notin returned'
  <2> SUFFICES ASSUME PaidBound', r \in returned' PROVE FALSE
    OBVIOUS
  <2>1. returned' \cup {r} = returned'
    OBVIOUS
  <2>2. Paid(returned') <= Captured
    BY DEF PaidBound
  <2>3. QED
    BY <1>2, <1>4, <2>1, <2>2
<1>8. QED
  BY <1>5, <1>6, <1>7

\* A step that returns nothing, fails nothing and gives up no answer.
LEMMA NothingReturned ==
  ASSUME TypeInv, HeardInv, returned' = returned, scene' = scene,
         Calm => \A r \in Requests :
                   /\ request[r].status \in {"PROCESSING", "COMPLETED"} =>
                        request'[r].status \in {"PROCESSING", "COMPLETED"}
                   /\ request'[r].status = "FAILED" => request[r].status = "FAILED",
         \A q \in Procs : doing'[q].do = "fail" => doing'[q] = doing[q]
  PROVE  HeardInv'
<1>1. (Heard' <=> Heard) /\ (Twice' <=> Twice) /\ (Heard => Calm) /\ (Twice => Calm)
  BY DEF Heard, Calm, Twice
<1>2. PaidBound' /\ \A r : Refused(r)' <=> Refused(r)
  BY DEF HeardInv, PaidBound, Refused, Paid, Captured
<1>3. ReturnedIsLive'
  BY <1>1 DEF HeardInv, ReturnedIsLive
<1>4. FailIsKnown'
  <2> SUFFICES ASSUME Heard, NEW q \in Procs, doing'[q].do = "fail"
               PROVE  doing'[q].on \notin returned' /\ (Twice => Refused(doing[q].on)')
    BY <1>1 DEF FailIsKnown
  <2>1. PICK h : h = doing[q] /\ h = doing'[q]
    OBVIOUS
  <2>2. h.on \notin returned /\ (Twice => Refused(h.on))
    BY <2>1 DEF HeardInv, FailIsKnown
  <2>3. QED
    BY <1>2, <2>1, <2>2 DEF Refused
<1>5. FailedIsRefused'
  BY <1>1, <1>2 DEF HeardInv, FailedIsRefused
<1>6. QED
  BY <1>2, <1>3, <1>4, <1>5 DEF HeardInv

\* Every step keeps the provider's books and what the handlers know of them.
LEMMA HeardIsKept == TypeInv /\ RoleInv /\ CalmInv /\ HeardInv /\ [Next]_vars => HeardInv'
<1> SUFFICES ASSUME TypeInv, RoleInv, CalmInv, HeardInv, [Next]_vars PROVE HeardInv'
  OBVIOUS
<1>a. /\ request \in [Requests -> [status : Active \cup Decided, item : Items] \cup {NoRow}]
      /\ doing \in [Procs -> Handlers] /\ returned \subseteq Requests \cup {Nobody}
  BY DEF TypeInv, TypeOK
<1>b. ASSUME NEW p \in Procs, doing[p].do \in OnRequest
      PROVE  doing[p].on \in Requests
  BY <1>b DEF TypeInv, AllOnRows, OnItsRow
<1>c. ASSUME NEW p \in Procs, Step(p) \/ Crash(p), doing'[p].do # "fail",
             returned' = returned, request' = request
      PROVE  HeardInv'
  <2>1. scene' = scene /\ OthersRest(p)
    BY <1>c, HandlersFlow
  <2>2. QED
    BY <1>c, <2>1, NothingReturned DEF OthersRest
<1>d. ASSUME NEW p \in Procs, Finish(p) PROVE doing'[p].do = "idle"
  BY <1>a, <1>d DEF Finish, Idle
<1>e. Heard => Calm /\ "lost" \notin scene.answers
  BY DEF Heard
<1>f. Twice => Heard /\ scene.answers = {}
  BY DEF Twice, Heard, Calm
<1>1. ASSUME NEW p \in Procs, NEW role, NEW do, NEW on, Begin(role, p, do, on), do # "fail"
      PROVE  HeardInv'
  <2>1. OthersRest(p) /\ doing'[p].do = do /\ scene' = scene
    BY <1>1, Beginnings
  <2>2. returned' = returned /\ request' = request
    BY <1>1 DEF Begin, money
  <2>3. QED
    BY <1>1, <2>1, <2>2, NothingReturned DEF OthersRest
<1>2. CASE Ask
  BY <1>1, <1>2 DEF Ask
<1>3. ASSUME NEW p \in Procs, Crash(p) PROVE HeardInv'
  BY <1>3, <1>c, <1>d DEF Crash, money
<1>4. CASE SessionMoves \/ UNCHANGED vars
  BY <1>4, NothingReturned DEF SessionMoves, vars, money
<1>5. ASSUME NEW r \in Requests, Approve(r) PROVE HeardInv'
  <2>1. \A s \in Requests : request'[s].status = IF s = r THEN "APPROVED" ELSE request[s].status
    BY <1>a, <1>5 DEF Approve, NoRow
  <2>2. /\ request[r].status = "CREATED" /\ returned' = returned /\ scene' = scene
        /\ doing' = doing
    BY <1>5 DEF Approve, money
  <2>3. QED
    BY <2>1, <2>2, NothingReturned
<1>6. ASSUME NEW p \in Procs, CreateCheck(p) \/ RejectRead(p) \/ ProcessRead(p)
      PROVE  HeardInv'
  <2>1. doing'[p].do # "fail"
    BY <1>6, <1>a DEF CreateCheck, RejectRead, ProcessRead, Go, Finish, Idle, Handlers
  <2>2. QED
    BY <1>6, <1>c, <2>1 DEF CreateCheck, RejectRead, ProcessRead, Step, money
<1>7. ASSUME NEW p \in Procs, CreateInsert(p) PROVE HeardInv'
  <2>1. PICK r \in Requests :
          /\ request[r] = NoRow
          /\ request' = [request EXCEPT ![r] = [status |-> "CREATED", item |-> doing[p].on]]
    BY <1>7 DEF CreateInsert
  <2>2. \A s \in Requests : /\ s # r => request'[s] = request[s]
                            /\ request'[r].status = "CREATED" /\ request[r].status = "none"
    BY <1>a, <2>1 DEF NoRow
  <2>3. scene' = scene /\ OthersRest(p) /\ returned' = returned /\ doing'[p].do = "idle"
    BY <1>7, <1>d, HandlersFlow DEF CreateInsert, Step, money
  <2>4. QED
    BY <2>2, <2>3, NothingReturned DEF OthersRest
<1>8. ASSUME NEW p \in Procs, RejectWrite(p) PROVE HeardInv'
  <2>1. PICK r \in Requests : r = doing[p].on
    BY <1>8, <1>b DEF RejectWrite, At, OnRequest
  <2>2. Calm => request[r].status \in {"CREATED", "APPROVED"}
    BY <1>8, <2>1 DEF RejectWrite, At, CalmInv, RowsAgree, PlansSound, Sound
  <2>3. request' = [request EXCEPT ![r].status = "REJECTED"]
    BY <1>8, <2>1 DEF RejectWrite
  <2>4. \A s \in Requests : request'[s].status = IF s = r THEN "REJECTED" ELSE request[s].status
    BY <1>a, <2>3 DEF NoRow
  <2>5. scene' = scene /\ OthersRest(p) /\ returned' = returned /\ doing'[p].do = "idle"
    BY <1>8, <1>d, HandlersFlow DEF RejectWrite, Step, money
  <2>6. QED
    BY <2>2, <2>4, <2>5, NothingReturned DEF OthersRest
<1>9. ASSUME NEW p \in Procs, Claim(p) PROVE HeardInv'
  <2>1. PICK r \in Requests : r = doing[p].on
    BY <1>9, <1>b DEF Claim, At, OnRequest
  <2>2. scene' = scene /\ OthersRest(p) /\ returned' = returned
    BY <1>9, HandlersFlow DEF Claim, Step, money
  <2>3. doing'[p].do # "fail"
    BY <1>9, <1>a, <1>d DEF Claim, Go, Handlers
  <2>4. CASE request' = request
    BY <1>9, <1>c, <2>2, <2>3, <2>4 DEF Step
  <2>5. CASE request' # request
    <3>1. request[r].status \in {"CREATED", "APPROVED"}
          /\ request' = [request EXCEPT ![r].status = "PROCESSING"]
      BY <1>9, <2>1, <2>5 DEF Claim
    <3>2. \A s \in Requests :
            request'[s].status = IF s = r THEN "PROCESSING" ELSE request[s].status
      BY <1>a, <3>1 DEF NoRow
    <3>3. QED
      BY <2>2, <2>3, <3>1, <3>2, NothingReturned DEF OthersRest
  <2>6. QED
    BY <2>4, <2>5
<1>10. ASSUME NEW p \in Procs, CompleteRefund(p) PROVE HeardInv'
  <2>1. PICK r \in Requests : r = doing[p].on
    BY <1>10, <1>b DEF CompleteRefund, At, OnRequest
  <2>2. /\ scene' = scene /\ OthersRest(p) /\ returned' = returned
        /\ doing'[p].do = "idle"
    BY <1>10, <1>d, HandlersFlow DEF CompleteRefund, Step, money
  <2>3. CASE request[r].status # "PROCESSING"
    <3>1. request' = request
      BY <1>10, <2>1, <2>3 DEF CompleteRefund
    <3>2. QED
      BY <1>10, <1>c, <2>2, <3>1 DEF Step
  <2>4. CASE request[r].status = "PROCESSING"
    <3>1. request' = [request EXCEPT ![r].status = "COMPLETED"]
      BY <1>10, <2>1, <2>4 DEF CompleteRefund
    <3>2. \A s \in Requests :
            request'[s].status = IF s = r THEN "COMPLETED" ELSE request[s].status
      BY <1>a, <3>1 DEF NoRow
    <3>3. QED
      BY <2>2, <2>4, <3>2, NothingReturned DEF OthersRest
  <2>5. QED
    BY <2>3, <2>4
<1>11. ASSUME NEW p \in Procs, FailRefund(p) PROVE HeardInv'
  <2>1. PICK r \in Requests : r = doing[p].on /\ doing[p].do = "fail"
    BY <1>11, <1>b DEF FailRefund, At, OnRequest
  <2>2. /\ scene' = scene /\ OthersRest(p) /\ returned' = returned
        /\ doing'[p].do = "idle" /\ request' = [request EXCEPT ![r].status = "FAILED"]
    BY <1>11, <1>d, <2>1, HandlersFlow DEF FailRefund, Step, money
  <2>3. \A s \in Requests : request'[s].status = IF s = r THEN "FAILED" ELSE request[s].status
    BY <1>a, <2>2 DEF NoRow
  <2>4. Heard => r \notin returned /\ (Twice => Refused(r))
    BY <2>1 DEF HeardInv, FailIsKnown
  <2>5. /\ PaidBound' /\ \A s : Refused(s)' <=> Refused(s)
        /\ (Heard' <=> Heard) /\ (Twice' <=> Twice)
    BY <2>2 DEF HeardInv, PaidBound, Refused, Heard, Calm, Twice
  <2>6. ReturnedIsLive'
    BY <2>2, <2>3, <2>4, <2>5 DEF HeardInv, ReturnedIsLive
  <2>7. FailedIsRefused'
    BY <1>f, <2>3, <2>4, <2>5 DEF HeardInv, FailedIsRefused
  <2>8. FailIsKnown'
    <3> SUFFICES ASSUME Heard, NEW q \in Procs, doing'[q].do = "fail"
                 PROVE  doing'[q].on \notin returned' /\ (Twice => Refused(doing[q].on)')
      BY <2>5 DEF FailIsKnown
    <3>1. PICK h : h = doing[q] /\ h = doing'[q]
      BY <2>2 DEF OthersRest
    <3>2. h.on \notin returned /\ (Twice => Refused(h.on))
      BY <3>1 DEF HeardInv, FailIsKnown
    <3>3. QED
      BY <2>2, <2>5, <3>1, <3>2 DEF Refused
  <2>9. QED
    BY <2>5, <2>6, <2>7, <2>8 DEF HeardInv
<1>12. ASSUME NEW p \in Procs, CallProvider(p) \/ FullCall(p) PROVE HeardInv'
  <2>1. PICK key \in Requests \cup {Nobody} :
          /\ doing[p].do = "call" => key \in Requests /\ key = doing[p].on
          /\ doing[p].do = "callFull" => key = Nobody
          /\ doing[p].do \in {"call", "callFull"}
    BY <1>12, <1>b DEF CallProvider, FullCall, At, OnRequest
  <2>2. scene' = scene /\ OthersRest(p) /\ request' = request
    BY <1>12, HandlersFlow DEF CallProvider, FullCall, Step
  <2>3. (Heard' <=> Heard) /\ (Twice' <=> Twice)
    BY <2>2 DEF Heard, Calm, Twice
  <2>4. doing'[p].do = "fail" => doing[p].do = "call" /\ doing'[p].on = key
    BY <1>12, <1>a, <1>d, <2>1 DEF CallProvider, FullCall, Call, Go, At, Handlers
  <2>5. \/ returned' = returned
        \/ Paid(returned \cup {key}) <= Captured /\ returned' = returned \cup {key}
    BY <1>12, <2>1 DEF CallProvider, FullCall, Call, Returns, Cancels, money, At
  <2>6. returned \subseteq returned' /\ returned' \subseteq Requests \cup {Nobody}
    BY <1>a, <2>5
  <2>7. PaidBound'
    BY <2>5 DEF HeardInv, PaidBound
  <2>8. \A r \in Requests : Refused(r) => Refused(r)' /\ r \notin returned'
    BY <2>6, <2>7, RefusedStays
  <2>9. FailedIsRefused'
    BY <2>2, <2>3, <2>8 DEF HeardInv, FailedIsRefused
  <2>10. ASSUME Heard, key \in Requests, returned' # returned
         PROVE  request[key].status \in {"PROCESSING", "COMPLETED"}
    <3>1. doing[p].do = "call" /\ key = doing[p].on
      BY <2>1, <2>10, RefundAssumption
    <3>2. /\ request[key].status \in {"PROCESSING", "COMPLETED", "FAILED"}
          /\ scene.together = {} => request[key].status = "PROCESSING"
      BY <1>e, <2>10, <3>1 DEF CalmInv, RowsAgree, PlansSound, Sound
    <3>3. CASE scene.together = {}
      BY <3>2, <3>3
    <3>4. CASE scene.together # {}
      <4>1. Twice
        BY <2>10, <3>4 DEF Heard, Calm, Twice
      <4>2. key \in returned'
        BY <2>5, <2>10
      <4>3. request[key].status # "FAILED"
        BY <2>8, <2>10, <4>1, <4>2 DEF HeardInv, FailedIsRefused
      <4>4. QED
        BY <3>2, <4>3
    <3>5. QED
      BY <3>3, <3>4
  <2>11. ReturnedIsLive'
    BY <2>2, <2>3, <2>5, <2>10 DEF HeardInv, ReturnedIsLive
  <2>12. ASSUME Heard, doing'[p].do = "fail"
         PROVE  key \in Requests /\ key \notin returned' /\ (Twice => Refused(key))
    <3>1. doing[p].do = "call" /\ key \in Requests /\ key = doing[p].on
      BY <2>1, <2>4, <2>12
    <3>2. Call(p, key, Go(p, "complete"), Go(p, "fail"))
      BY <1>12, <3>1 DEF CallProvider, FullCall, At
    <3>3. ~Go(p, "complete")
      BY <1>a, <2>12 DEF Go, Handlers
    <3>4. \/ Refused(key) /\ returned' = returned
          \/ key \notin returned /\ returned' = returned /\ "refused" \in scene.answers
      BY <1>e, <2>12, <3>2, <3>3 DEF Call, Refused, money
    <3>5. QED
      BY <1>f, <2>8, <3>1, <3>4
  <2>13. FailIsKnown'
    <3> SUFFICES ASSUME Heard, NEW q \in Procs, doing'[q].do = "fail"
                 PROVE  doing'[q].on \notin returned' /\ (Twice => Refused(doing[q].on)')
      BY <2>3 DEF FailIsKnown
    <3>1. PICK r \in Requests : r = doing'[q].on /\ r \notin returned' /\ (Twice => Refused(r))
      <4>1. CASE q = p
        BY <2>4, <2>12, <4>1
      <4>2. CASE q # p
        <5>1. doing'[q] = doing[q] /\ doing[q].on \in Requests
          BY <1>b, <2>2, <4>2 DEF OthersRest, OnRequest
        <5>2. doing[q].on \notin returned /\ (Twice => Refused(doing[q].on))
          BY <5>1 DEF HeardInv, FailIsKnown
        <5>3. Twice => doing[q].on \notin returned'
          BY <2>8, <5>1, <5>2
        <5>4. CASE doing[p].do = "call"
          <6>1. scene.together = {"process"}
            BY <1>e, <4>2, <5>1, <5>4 DEF RoleInv, InTurn
          <6>2. Twice
            BY <6>1 DEF Heard, Calm, Twice
          <6>3. QED
            BY <5>1, <5>2, <5>3, <6>2
        <5>5. CASE doing[p].do # "call"
          <6>1. key = Nobody
            BY <2>1, <5>5
          <6>2. QED
            BY <2>5, <5>1, <5>2, <6>1, RefundAssumption
        <5>6. QED
          BY <5>4, <5>5
      <4>3. QED
        BY <4>1, <4>2
    <3>2. Twice => Refused(r)'
      BY <2>8, <3>1
    <3>3. QED
      BY <3>1, <3>2 DEF Refused
  <2>14. QED
    BY <2>7, <2>9, <2>11, <2>13 DEF HeardInv
<1>13. ASSUME NEW p \in Procs, FullRead(p) \/ MarkIntent(p) \/ MarkItems(p) PROVE HeardInv'
  <2>1. doing'[p].do # "fail"
    BY <1>13, <1>a, <1>d DEF FullRead, MarkIntent, MarkItems, Go, Handlers
  <2>2. QED
    BY <1>13, <1>c, <2>1 DEF FullRead, MarkIntent, MarkItems, Step, money
<1>14. QED
  BY <1>2, <1>3, <1>4, <1>5, <1>6, <1>7, <1>8, <1>9, <1>10, <1>11, <1>12, <1>13
     DEF Next, Step

\* Initially the provider has said nothing that could be forgotten.
LEMMA BooksAtStart == Init => HeardInv
<1> SUFFICES ASSUME Init PROVE HeardInv
  OBVIOUS
<1>1. Paid({}) = 0 /\ Captured \in Nat
  BY PaidGrows
<1>2. PaidBound
  BY <1>1 DEF Init, PaidBound
<1>3. QED
  BY <1>2 DEF Init, HeardInv, ReturnedIsLive, FailIsKnown, FailedIsRefused, Idle, NoRow

\* The whole payment is returned only if nothing else was.
LEMMA WholeOrParts ==
  ASSUME TypeInv, PaidBound, Nobody \in returned
  PROVE  returned = {Nobody}
<1>1. returned \in SUBSET (Requests \cup {Nobody}) /\ Captured \in Nat
  BY PaidGrows DEF TypeInv, TypeOK
<1>2. IsFiniteSet(returned \ {Nobody})
  BY <1>1, RefundAssumption, FS_Subset
<1>3. Cardinality(returned \ {Nobody}) \in Nat
  BY <1>2, FS_CardinalityType
<1>4. Captured + Cardinality(returned \ {Nobody}) <= Captured
  BY DEF PaidBound, Paid
<1>5. Cardinality(returned \ {Nobody}) = 0
  BY <1>1, <1>3, <1>4
<1>6. returned \ {Nobody} = {}
  BY <1>2, <1>5, FS_EmptySet
<1>7. QED
  BY <1>6

(***************************************************************************)
(* The money of a position is returned at most once: for any number of     *)
(* positions, requests, administrators and faults, when handlers take      *)
(* turns and no answer is lost, and where only process overlaps itself and *)
(* the provider always agrees.                                             *)
(***************************************************************************)
THEOREM MoneyReturnedOnce == Spec => []ReturnedOnce
<1>1. TypeInv /\ CalmInv /\ HeardInv => ReturnedOnce
  <2> SUFFICES ASSUME TypeInv, CalmInv, HeardInv, Heard, NEW i \in Items
               PROVE  Cardinality(ReturnsOf(i)) + (IF Nobody \in returned THEN 1 ELSE 0) <= 1
    BY DEF ReturnedOnce
  <2>1. CASE Nobody \in returned
    <3>1. ReturnsOf(i) = {}
      BY <2>1, WholeOrParts, RefundAssumption DEF HeardInv, ReturnsOf, RequestsOf
    <3>2. QED
      BY <2>1, <3>1, FS_EmptySet
  <2>2. CASE Nobody \notin returned
    <3>1. \A r, s \in ReturnsOf(i) : r = s
      BY DEF HeardInv, ReturnedIsLive, Heard, CalmInv, RowsAgree, OneLive, Live, Active,
             ReturnsOf, RequestsOf
    <3>2. CASE ReturnsOf(i) = {}
      BY <2>2, <3>2, FS_EmptySet
    <3>3. CASE ReturnsOf(i) # {}
      <4>1. PICK x : ReturnsOf(i) = {x}
        BY <3>1, <3>3
      <4>2. Cardinality(ReturnsOf(i)) = 1
        BY <4>1, FS_Singleton
      <4>3. QED
        BY <2>2, <4>2
    <3>4. QED
      BY <3>2, <3>3
  <2>3. QED
    BY <2>1, <2>2
<1>2. QED
  BY <1>1, RolesAtStart, RolesAreKept, CalmIsKept, BooksAtStart, HeardIsKept, TypesHold, PTL
     DEF Spec
=============================================================================
