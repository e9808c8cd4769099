--------------------------- MODULE StandaloneProofs ---------------------------
(***************************************************************************)
(* Proofs about the standalone evaluation.  Of StandaloneAI, for any       *)
(* panels, plans, retries and limits and any number of deletions: what is  *)
(* paid for, what is shown, what stays within reach, and that the panels   *)
(* implement SingleFlight.  Of ProviderPlan: what is sent of any vacancy.  *)
(* Of AnalysisOutput: what is shown of any answer.                         *)
(***************************************************************************)
EXTENDS StandaloneAI, ProviderPlan, AnalysisOutput, FiniteSetTheorems, TLAPS

-----------------------------------------------------------------------------
\* The inductive invariant.

\* A panel between the reservation of an attempt and the end of its request.
Reserved(p) == request[p].pc \in {"send", "answer", "storeMeta", "storeRow"}

Calling(p) == request[p].pc \in {"send", "answer"}

\* The provider was called under this operation, after this wipe.
Made(call) == \E c \in calls : call = <<c.op, c.epoch>>

RowsToKeep == rows \cup reset.listed

CallRecord == [op : Operations, epoch : Nat, panel : Panels, day : 1 .. MaxDisturbances + 1]

ResetPoints == {"idle", "checkAll", "checkJob", "wipe", "deleteJob", "listCache", "clearRows", "clearMetas"}

ShapeInv ==
    /\ StandaloneTypeOK
    /\ calls \subseteq CallRecord
    /\ reset \in [pc : ResetPoints, listed : SUBSET [plan : Plans, call : Operations \X Nat], done : Nat]

\* Each wipe belongs to a deletion that was started.
EpochIsBounded ==
    /\ Disturbances <= MaxDisturbances
    /\ Epoch + (IF reset.pc = "idle" THEN 0 ELSE 1) <= reset.done

\* What the ledger holds for a request: since the last wipe its row and, while it
\* may call, its attempt; before that the row that was wiped.
HoldsRow(p) ==
    /\ Reserved(p) => request[p].epoch <= Epoch /\ request[p].day \in Nat \ {0}
    /\ Reserved(p) /\ request[p].epoch = Epoch =>
         execution[Op(p)] = [state |-> IF Calling(p) THEN "dispatching" ELSE "completed", owner |-> p]
    /\ Reserved(p) /\ request[p].epoch # Epoch => \A op \in Operations : execution[op].owner # p
    /\ Calling(p) /\ request[p].epoch # Epoch =>
         past[request[p].epoch + 1][Op(p)] = [state |-> "dispatching", owner |-> p]

\* A request calls once, and a result is the one of a call for the reviewed plan.
CallsOnce(p) ==
    /\ request[p].pc # "idle" => Op(p) \in Operations
    /\ request[p].pc = "send" => ~ Made(Call(p))
    /\ request[p].pc = "send" /\ request[p].epoch = Epoch => <<Op(p), request[p].day>> \in budget
    /\ Reserved(p) /\ request[p].pc # "send" => Made(Call(p))
    /\ request[p].pc \in {"readMeta", "done"} =>
         Made(request[p].call) /\ PlanOf(request[p].call[1]) = PlanOf(Op(p))

\* A result that is not stored yet is in no row, and one that is has its row to come.
Stores(p) ==
    /\ Reserved(p) => \A row \in RowsToKeep : row.call # Call(p)
    /\ request[p].pc = "storeRow" /\ request[p].epoch = Epoch => Call(p) \in metas \/ Op(p) \in excused

NoSharedCall == \A p, q \in Panels : p # q /\ Reserved(p) /\ Reserved(q) => Call(p) # Call(q)

\* Every call was paid for, and no two are for one operation.
CallsArePaid ==
    /\ \A c \in calls : c.epoch <= Epoch
    /\ \A c \in calls : c.epoch = Epoch => execution[c.op].state # "none" /\ <<c.op, c.day>> \in budget
    /\ \A c, d \in calls : c.op = d.op /\ c.epoch = d.epoch => c = d

PaidOn(d) == {row \in budget : row[2] = d}

LegacyOn(d) == IF d = 1 THEN legacy ELSE 0

BudgetIsKept ==
    /\ IsFiniteSet(budget)
    /\ \A d \in 1 .. MaxDisturbances + 1 :
         PaidOn(d) # {} => Cardinality(PaidOn(d)) + LegacyOn(d) <= Limit

\* A row is of a call for its plan, and while its result is missing the
\* operation is excused; so are the rows whose results are about to go.
RowsAreKept ==
    /\ \A row \in RowsToKeep : Made(row.call) /\ row.plan = PlanOf(row.call[1])
    /\ \A row \in rows : row.call[2] = Epoch /\ row.call \notin metas => row.call[1] \in excused
    /\ reset.pc = "clearRows" => \A row \in reset.listed :
         row.call[2] = Epoch => row.call[1] \in excused \/ \E kept \in rows : kept.call = row.call
    /\ reset.pc = "clearMetas" => \A row \in reset.listed :
         row.call[2] = Epoch => row.call[1] \in excused

PanelsInv ==
    /\ ShapeInv /\ EpochIsBounded
    /\ \A p \in Panels : HoldsRow(p) /\ CallsOnce(p) /\ Stores(p)
    /\ NoSharedCall /\ CallsArePaid /\ BudgetIsKept /\ RowsAreKept
    /\ CompletedResultIsReachable

-----------------------------------------------------------------------------
\* Shapes.

RequestShape == [pc : Points, op : Operations \cup {NoRequest.op},
                 keep : BOOLEAN, epoch : Nat, day : 0 .. MaxDisturbances + 1,
                 call : {<<>>} \cup Operations \X Nat]

Shapes(p) ==
    /\ request \in [Panels -> RequestShape] /\ request[p] \in RequestShape
    /\ execution \in [Operations -> Rows]
    /\ past \in Seq([Operations -> Rows]) /\ Epoch \in Nat
    /\ day \in 1 .. MaxDisturbances + 1
    /\ calls \subseteq CallRecord

LEMMA HasShape ==
    ASSUME ShapeInv, NEW p \in Panels
    PROVE  Shapes(p)
BY DEF ShapeInv, StandaloneTypeOK, Shapes, RequestShape, Epoch

LEMMA IdleShape ==
    /\ NoRequest \in RequestShape /\ NoRequest.pc = "idle"
    /\ NoRequest.op \notin Operations
BY StandaloneAssumption DEF NoRequest, RequestShape, Points, Operations

\* A request that is put in the place of another.
Becomes(p, q) == request' = [request EXCEPT ![p] = q]

LEMMA OneBecomes ==
    ASSUME ShapeInv, NEW p \in Panels, NEW q \in RequestShape, Becomes(p, q)
    PROVE  /\ request' \in [Panels -> RequestShape]
           /\ request'[p] = q
           /\ \A o \in Panels \ {p} : request'[o] = request[o]
BY HasShape DEF Becomes, Shapes

-----------------------------------------------------------------------------
\* What a step of one panel leaves of the others.

OthersStand(p) ==
    /\ past' = past
    /\ \A o \in Panels \ {p} : request'[o] = request[o]
    /\ calls \subseteq calls'
    /\ \A c \in calls' : c \in calls \/ (Reserved(p) /\ <<c.op, c.epoch>> = Call(p))
    /\ budget \subseteq budget' /\ metas \subseteq metas' /\ excused \subseteq excused'
    /\ \A row \in RowsToKeep' : row \in RowsToKeep \/ (Reserved(p) /\ row.call = Call(p))
    /\ \A op \in Operations :
         \/ execution'[op] = execution[op]
         \/ execution'[op].owner = p /\ (execution[op].owner = p \/ execution[op].state = "none")

LEMMA OthersPlaced ==
    ASSUME PanelsInv, NEW p \in Panels, NEW o \in Panels \ {p}, OthersStand(p)
    PROVE  HoldsRow(o)' /\ CallsOnce(o)' /\ Stores(o)'
<1>1. /\ HoldsRow(o) /\ CallsOnce(o) /\ Stores(o)
      /\ Reserved(p) /\ Reserved(o) => Call(p) # Call(o)
      /\ request'[o] = request[o] /\ Epoch' = Epoch /\ past' = past
  BY DEF PanelsInv, NoSharedCall, OthersStand, Epoch
<1>2. /\ Op(o)' = Op(o) /\ Call(o)' = Call(o)
      /\ Reserved(o)' <=> Reserved(o)
      /\ Calling(o)' <=> Calling(o)
  BY <1>1 DEF Op, Call, Reserved, Calling
<1>3. Reserved(o) => Op(o) \in Operations
  BY <1>1 DEF CallsOnce, Reserved
<1>4. HoldsRow(o)'
  <2>1. Reserved(o) /\ request[o].epoch = Epoch => execution'[Op(o)] = execution[Op(o)]
    BY <1>1, <1>3 DEF HoldsRow, OthersStand
  <2>2. Reserved(o) /\ request[o].epoch # Epoch => \A op \in Operations : execution'[op].owner # o
    BY <1>1 DEF HoldsRow, OthersStand
  <2> QED BY <1>1, <1>2, <2>1, <2>2 DEF HoldsRow
<1>5. CallsOnce(o)'
  <2>1. \A call : Made(call) => Made(call)'
    BY DEF OthersStand, Made
  <2>2. request[o].pc = "send" => ~ Made(Call(o))'
    BY <1>1, <1>2 DEF OthersStand, Made, CallsOnce, Reserved
  <2> QED BY <1>1, <1>2, <2>1, <2>2 DEF CallsOnce, OthersStand
<1>6. Stores(o)'
  BY <1>1, <1>2 DEF Stores, OthersStand, Reserved
<1> QED BY <1>4, <1>5, <1>6

LEMMA StillNoneShared ==
    ASSUME PanelsInv, NEW p \in Panels, OthersStand(p),
           Reserved(p)' => Reserved(p) /\ Call(p)' = Call(p)
    PROVE  NoSharedCall'
BY DEF PanelsInv, NoSharedCall, OthersStand, Reserved, Call, Op

-----------------------------------------------------------------------------
\* Steps that end a request, or move one that holds nothing.

\* What a request without an attempt must satisfy.
HoldsNothing(q) ==
    /\ q.pc \notin {"send", "answer", "storeMeta", "storeRow"}
    /\ q.pc # "idle" => q.op \in Operations
    /\ q.pc \in {"readMeta", "done"} => Made(q.call) /\ PlanOf(q.call[1]) = PlanOf(q.op)

\* The ledger stands but for the row of the panel, which is not completed
\* unless its result is excused.
Settled(p) ==
    \A op \in Operations :
        \/ execution'[op] = execution[op]
        \/ /\ execution'[op].owner = p /\ execution[op].owner = p
           /\ execution'[op].state # "none"
           /\ execution'[op].state = "completed" => op \in excused'

\* The request gives up what it has not stored; a row goes only without its result.
Ends(p, q) ==
    /\ Becomes(p, q) /\ q \in RequestShape /\ HoldsNothing(q)
    /\ execution' \in [Operations -> Rows] /\ Settled(p)
    /\ UNCHANGED <<budget, legacy, day, calls, past, reset, metas>>
    /\ rows' \subseteq rows /\ \A row \in rows \ rows' : row.call \notin metas
    /\ excused \cup Storing(p) \subseteq excused'

LEMMA EndedKeepsInv ==
    ASSUME PanelsInv, NEW p \in Panels, NEW q, Ends(p, q)
    PROVE  PanelsInv'
<1>1. /\ request' \in [Panels -> RequestShape] /\ request'[p] = q
      /\ \A o \in Panels \ {p} : request'[o] = request[o]
  BY OneBecomes DEF PanelsInv, Ends
<1>2. OthersStand(p)
  BY <1>1 DEF Ends, Settled, OthersStand, RowsToKeep
<1>3. ~ Reserved(p)' /\ Epoch' = Epoch
  BY <1>1 DEF Ends, HoldsNothing, Reserved, Epoch
<1>4. ShapeInv'
  BY <1>1, <1>3 DEF PanelsInv, ShapeInv, StandaloneTypeOK, Ends, RequestShape
<1>5. EpochIsBounded'
  BY <1>3 DEF PanelsInv, EpochIsBounded, Disturbances, Ends
<1>6. \A call : Made(call)' <=> Made(call)
  BY DEF Ends, Made
<1>7. \A o \in Panels : HoldsRow(o)' /\ CallsOnce(o)' /\ Stores(o)'
  <2>1. HoldsRow(p)' /\ Stores(p)'
    BY <1>3 DEF HoldsRow, Stores, Reserved, Calling
  <2>2. CallsOnce(p)'
    BY <1>1, <1>3, <1>6 DEF CallsOnce, Ends, HoldsNothing, Reserved, Op
  <2> QED BY <1>2, <2>1, <2>2, OthersPlaced
<1>8. NoSharedCall'
  BY <1>2, <1>3, StillNoneShared
<1>9. CallsArePaid'
  <2>1. \A c \in calls : c.op \in Operations /\ c.epoch \in Nat
    BY DEF PanelsInv, ShapeInv, CallRecord
  <2>2. \A op \in Operations : execution[op].state # "none" => execution'[op].state # "none"
    BY DEF Ends, Settled
  <2> QED BY <1>3, <2>1, <2>2 DEF PanelsInv, CallsArePaid, Ends
<1>10. BudgetIsKept'
  BY DEF PanelsInv, BudgetIsKept, PaidOn, LegacyOn, Ends
<1>11. RowsAreKept'
  <2>1. /\ RowsAreKept /\ rows' \subseteq rows /\ reset' = reset /\ metas' = metas
        /\ excused \subseteq excused' /\ RowsToKeep' \subseteq RowsToKeep
    BY DEF PanelsInv, Ends, RowsToKeep
  <2>2. \A row \in RowsToKeep' : Made(row.call)' /\ row.plan = PlanOf(row.call[1])
    BY <1>6, <2>1 DEF RowsAreKept
  <2>3. \A row \in rows' : row.call[2] = Epoch' /\ row.call \notin metas' => row.call[1] \in excused'
    BY <1>3, <2>1 DEF RowsAreKept
  <2>4. ASSUME reset.pc = "clearRows", NEW row \in reset.listed, row.call[2] = Epoch
        PROVE  row.call[1] \in excused' \/ \E kept \in rows' : kept.call = row.call
    <3>1. CASE row.call[1] \in excused
      BY <3>1, <2>1
    <3>2. ASSUME NEW kept \in rows, kept.call = row.call
          PROVE  row.call[1] \in excused' \/ \E r \in rows' : r.call = row.call
      <4>1. CASE kept \in rows'
        BY <4>1, <3>2
      <4>2. CASE kept \notin rows'
        BY <4>2, <3>2, <2>1, <2>4 DEF Ends, RowsAreKept
      <4> QED BY <4>1, <4>2
    <3> QED BY <3>1, <3>2, <2>1, <2>4 DEF RowsAreKept
  <2>5. reset.pc = "clearMetas" => \A row \in reset.listed :
          row.call[2] = Epoch => row.call[1] \in excused'
    BY <2>1 DEF RowsAreKept
  <2> QED BY <1>3, <2>1, <2>2, <2>3, <2>4, <2>5 DEF RowsAreKept
<1>12. CompletedResultIsReachable'
  <2> SUFFICES ASSUME NEW op \in Operations, execution'[op].state = "completed"
               PROVE  \/ op \in excused'
                      \/ /\ <<op, Epoch>> \in metas
                         /\ \E row \in rows' : row.call = <<op, Epoch>>
                      \/ \E o \in Panels : op \in Storing(o)'
    BY <1>3 DEF CompletedResultIsReachable, Ends
  <2>1. CASE execution'[op] # execution[op]
    BY <2>1 DEF Ends, Settled
  <2>2. CASE execution'[op] = execution[op]
    <3>1. \/ op \in excused
          \/ <<op, Epoch>> \in metas /\ \E row \in rows : row.call = <<op, Epoch>>
          \/ \E o \in Panels : op \in Storing(o)
      BY <2>2 DEF PanelsInv, CompletedResultIsReachable
    <3>2. CASE op \in excused
      BY <3>2 DEF Ends
    <3>3. CASE <<op, Epoch>> \in metas /\ \E row \in rows : row.call = <<op, Epoch>>
      BY <3>3 DEF Ends
    <3>4. ASSUME NEW o \in Panels, op \in Storing(o)
          PROVE  op \in excused' \/ op \in Storing(o)'
      <4>1. CASE o = p
        BY <4>1, <3>4 DEF Ends
      <4>2. CASE o # p
        BY <4>2, <3>4, <1>1, <1>3 DEF Storing, Call
      <4> QED BY <4>1, <4>2
    <3> QED BY <3>1, <3>2, <3>3, <3>4
  <2> QED BY <2>1, <2>2
<1> QED BY <1>4, <1>5, <1>7, <1>8, <1>9, <1>10, <1>11, <1>12 DEF PanelsInv

\* The panel that waits for an answer owns its row unless the row was wiped.
LEMMA CallerOwns ==
    ASSUME PanelsInv, NEW p \in Panels, Calling(p)
    PROVE  /\ Op(p) \in Operations /\ Reserved(p) /\ Storing(p) = {}
           /\ Owns(p) <=> request[p].epoch = Epoch
           /\ Owns(p) => execution[Op(p)] = [state |-> "dispatching", owner |-> p]
<1>1. Reserved(p) /\ Op(p) \in Operations /\ HoldsRow(p)
  BY DEF PanelsInv, CallsOnce, Calling, Reserved
<1>2. Storing(p) = {}
  BY DEF Storing, Calling
<1> QED BY <1>1, <1>2 DEF HoldsRow, Owns

LEMMA IdleHoldsNothing == HoldsNothing(NoRequest)
BY IdleShape DEF HoldsNothing

LEMMA NotReservedStoresNothing ==
    ASSUME NEW p \in Panels, ~ Reserved(p)
    PROVE  Storing(p) = {}
BY DEF Reserved, Storing

-----------------------------------------------------------------------------
\* One lemma for each action of a panel.

\* A request that changes its row only by settling it.
LEMMA SettledRow ==
    ASSUME PanelsInv, NEW p \in Panels, Calling(p),
           NEW state \in {"completed", "outcome_unknown"}, SettleRow(p, state),
           state = "completed" /\ Owns(p) => Op(p) \in excused'
    PROVE  execution' \in [Operations -> Rows] /\ Settled(p)
<1>1. CASE Owns(p)
  <2>1. /\ Op(p) \in Operations /\ execution \in [Operations -> Rows]
        /\ execution[Op(p)] = [state |-> "dispatching", owner |-> p]
        /\ execution' = [execution EXCEPT ![Op(p)].state = state]
    BY <1>1, CallerOwns, HasShape DEF PanelsInv, Shapes, SettleRow
  <2>2. /\ execution'[Op(p)] = [state |-> state, owner |-> p]
        /\ \A op \in Operations : op # Op(p) => execution'[op] = execution[op]
    BY <2>1
  <2>3. execution' \in [Operations -> Rows]
    BY <2>1 DEF Rows
  <2> QED BY <1>1, <2>1, <2>2, <2>3 DEF Settled
<1>2. CASE ~ Owns(p)
  BY <1>2, HasShape DEF PanelsInv, Shapes, SettleRow, Settled
<1> QED BY <1>1, <1>2

\* A request that leaves the ledger and holds no attempt.
LEMMA UnpaidEnds ==
    ASSUME PanelsInv, NEW p \in Panels, NEW q \in RequestShape, Becomes(p, q), HoldsNothing(q),
           UNCHANGED <<ledger, day, calls, past, reset, metas>>,
           rows' \subseteq rows, \A row \in rows \ rows' : row.call \notin metas,
           excused \cup Storing(p) \subseteq excused'
    PROVE  PanelsInv'
<1>1. execution' \in [Operations -> Rows] /\ Settled(p)
  BY HasShape DEF PanelsInv, Shapes, ledger, Settled
<1> QED BY <1>1, EndedKeepsInv DEF Ends, ledger

LEMMA PrepareKeepsInv ==
    ASSUME PanelsInv, NEW p \in Panels, Prepare(p)
    PROVE  PanelsInv'
<1>1. PICK plan \in Plans, retry \in Retries :
        Becomes(p, [NoRequest EXCEPT !.pc = "reviewed", !.op = <<plan, retry>>])
  BY DEF Prepare, Becomes
<1> DEFINE q == [NoRequest EXCEPT !.pc = "reviewed", !.op = <<plan, retry>>]
<1>2. q \in RequestShape /\ HoldsNothing(q)
  BY IdleShape DEF RequestShape, Points, Operations, HoldsNothing, NoRequest
<1>3. Storing(p) = {}
  BY NotReservedStoresNothing DEF Prepare, At, Reserved
<1> QED BY <1>1, <1>2, <1>3, UnpaidEnds DEF Prepare, cache, history

LEMMA ExecuteKeepsInv ==
    ASSUME PanelsInv, NEW p \in Panels, Execute(p)
    PROVE  PanelsInv'
<1>1. /\ request \in [Panels -> RequestShape] /\ request[p] \in RequestShape
      /\ At(p, "reviewed") /\ Op(p) \in Operations /\ Storing(p) = {}
  BY HasShape, NotReservedStoresNothing DEF PanelsInv, CallsOnce, Shapes, Execute, At, Reserved
<1>2. UNCHANGED <<ledger, cache, day, history, reset>>
  BY DEF Execute
<1>3. CASE Refuse(p)
  BY <1>1, <1>2, <1>3, UnpaidEnds, IdleShape, IdleHoldsNothing DEF Refuse, Becomes, cache, history
<1>4. ASSUME NEW caching \in BOOLEAN, NEW pc \in {"lookup", "ready"},
             request' = [request EXCEPT ![p].pc = pc, ![p].keep = caching]
      PROVE  PanelsInv'
  <2> DEFINE q == [request[p] EXCEPT !.pc = pc, !.keep = caching]
  <2>1. Becomes(p, q)
    BY <1>1, <1>4 DEF Becomes
  <2>2. q \in RequestShape /\ HoldsNothing(q)
    BY <1>1 DEF RequestShape, Points, HoldsNothing, Op
  <2> HIDE DEF q
  <2> QED BY <1>1, <1>2, <2>1, <2>2, UnpaidEnds DEF cache, history
<1> QED BY <1>3, <1>4 DEF Execute

LEMMA FindRowKeepsInv ==
    ASSUME PanelsInv, NEW p \in Panels, FindRow(p)
    PROVE  PanelsInv'
<1>1. /\ request \in [Panels -> RequestShape] /\ request[p] \in RequestShape
      /\ At(p, "lookup") /\ Op(p) \in Operations /\ Storing(p) = {}
  BY HasShape, NotReservedStoresNothing DEF PanelsInv, CallsOnce, Shapes, FindRow, At, Reserved
<1>2. UNCHANGED <<ledger, cache, day, history, reset>>
  BY DEF FindRow
<1>3. ASSUME NEW row \in rows, Matches(row, PlanOf(Op(p))),
             request' = [request EXCEPT ![p].pc = "readMeta", ![p].call = row.call]
      PROVE  PanelsInv'
  <2> DEFINE q == [request[p] EXCEPT !.pc = "readMeta", !.call = row.call]
  <2>1. Becomes(p, q)
    BY <1>1, <1>3 DEF Becomes
  <2>2. row.call \in Operations \X Nat /\ Made(row.call) /\ PlanOf(row.call[1]) = PlanOf(Op(p))
    BY <1>3 DEF PanelsInv, ShapeInv, StandaloneTypeOK, RowsAreKept, RowsToKeep, Matches
  <2>3. q \in RequestShape /\ HoldsNothing(q)
    BY <1>1, <2>2 DEF RequestShape, Points, HoldsNothing, Op
  <2> HIDE DEF q
  <2> QED BY <1>1, <1>2, <2>1, <2>3, UnpaidEnds DEF cache, history
<1>4. CASE Goto(p, "ready")
  <2> DEFINE q == [request[p] EXCEPT !.pc = "ready"]
  <2>1. Becomes(p, q)
    BY <1>1, <1>4 DEF Becomes, Goto
  <2>2. q \in RequestShape /\ HoldsNothing(q)
    BY <1>1 DEF RequestShape, Points, HoldsNothing, Op
  <2> HIDE DEF q
  <2> QED BY <1>1, <1>2, <2>1, <2>2, UnpaidEnds DEF cache, history
<1> QED BY <1>3, <1>4 DEF FindRow

\* What is shown in the end is a call that was made for the plan.
LEMMA ShownShape ==
    ASSUME PanelsInv, NEW p \in Panels, Op(p) \in Operations,
           NEW call \in Operations \X Nat, Made(call), PlanOf(call[1]) = PlanOf(Op(p)),
           Show(p, call)
    PROVE  \E q \in RequestShape : Becomes(p, q) /\ HoldsNothing(q)
<1> DEFINE q == [NoRequest EXCEPT !.pc = "done", !.op = request[p].op, !.call = call]
<1>1. Becomes(p, q)
  BY DEF Show, Becomes
<1>2. q \in RequestShape /\ HoldsNothing(q)
  BY IdleShape DEF RequestShape, Points, HoldsNothing, NoRequest, Op
<1> QED BY <1>1, <1>2

LEMMA ReadMetaKeepsInv ==
    ASSUME PanelsInv, NEW p \in Panels, ReadMeta(p)
    PROVE  PanelsInv'
<1>1. /\ request \in [Panels -> RequestShape] /\ request[p] \in RequestShape
      /\ At(p, "readMeta") /\ Op(p) \in Operations /\ Storing(p) = {}
      /\ Made(request[p].call) /\ PlanOf(request[p].call[1]) = PlanOf(Op(p))
  BY HasShape, NotReservedStoresNothing DEF PanelsInv, CallsOnce, Shapes, ReadMeta, At, Reserved
<1>2. UNCHANGED <<ledger, metas, day, history, reset>>
  BY DEF ReadMeta
<1>3. CASE request[p].call \in metas
  <2>1. request[p].call \in Operations \X Nat
    BY <1>3 DEF PanelsInv, ShapeInv, StandaloneTypeOK
  <2>2. PICK q \in RequestShape : Becomes(p, q) /\ HoldsNothing(q)
    BY <1>1, <1>3, <2>1, ShownShape DEF ReadMeta
  <2> QED BY <1>1, <1>2, <1>3, <2>2, UnpaidEnds DEF ReadMeta, history
<1>4. CASE request[p].call \notin metas
  <2> DEFINE q == [request[p] EXCEPT !.pc = "ready", !.call = <<>>]
  <2>1. Becomes(p, q) /\ rows' = {row \in rows : row.call # request[p].call}
    BY <1>1, <1>4 DEF Becomes, ReadMeta
  <2>2. q \in RequestShape /\ HoldsNothing(q)
    BY <1>1 DEF RequestShape, Points, HoldsNothing, Op
  <2> HIDE DEF q
  <2> QED BY <1>1, <1>2, <1>4, <2>1, <2>2, UnpaidEnds DEF history
<1> QED BY <1>3, <1>4

LEMMA NotReadyKeepsInv ==
    ASSUME PanelsInv, NEW p \in Panels, NotReady(p)
    PROVE  PanelsInv'
<1>1. Storing(p) = {}
  BY NotReservedStoresNothing DEF NotReady, At, Reserved
<1> QED BY <1>1, UnpaidEnds, IdleShape, IdleHoldsNothing DEF NotReady, Refuse, Becomes, cache, history

LEMMA ClosePanelKeepsInv ==
    ASSUME PanelsInv, NEW p \in Panels, ClosePanel(p)
    PROVE  PanelsInv'
BY UnpaidEnds, IdleShape, IdleHoldsNothing DEF ClosePanel, Becomes, cache

LEMMA ProviderFailsKeepsInv ==
    ASSUME PanelsInv, NEW p \in Panels, ProviderFails(p)
    PROVE  PanelsInv'
<1>1. Calling(p) /\ Storing(p) = {}
  BY CallerOwns DEF ProviderFails, At, Calling
<1>2. execution' \in [Operations -> Rows] /\ Settled(p)
  BY <1>1, SettledRow DEF ProviderFails
<1> QED BY <1>1, <1>2, EndedKeepsInv, IdleShape, IdleHoldsNothing
        DEF ProviderFails, Ends, Refuse, Becomes, cache, history

\* A request that goes on with its attempt.
LEMMA GoesOn ==
    ASSUME PanelsInv, NEW p \in Panels, NEW pc \in Points, Goto(p, pc)
    PROVE  /\ request' \in [Panels -> RequestShape]
           /\ request'[p] = [request[p] EXCEPT !.pc = pc] /\ request'[p].pc = pc
           /\ Op(p)' = Op(p)
           /\ \A o \in Panels \ {p} : request'[o] = request[o]
<1>1. request[p] \in RequestShape
  BY HasShape DEF PanelsInv, Shapes
<1> DEFINE q == [request[p] EXCEPT !.pc = pc]
<1>2. q \in RequestShape /\ q.pc = pc /\ q.op = request[p].op
  BY <1>1 DEF RequestShape
<1>3. Becomes(p, q)
  BY DEF Goto, Becomes
<1>4. /\ request' \in [Panels -> RequestShape] /\ request'[p] = q
      /\ \A o \in Panels \ {p} : request'[o] = request[o]
  BY <1>2, <1>3, OneBecomes DEF PanelsInv
<1> QED BY <1>2, <1>4 DEF Op

LEMMA AnswerToKeepKeepsInv ==
    ASSUME PanelsInv, NEW p \in Panels, ProviderAnswers(p), Owns(p), request[p].keep
    PROVE  PanelsInv'
<1>1. /\ Calling(p) /\ Reserved(p) /\ Op(p) \in Operations /\ request[p].pc = "answer"
      /\ request[p].epoch = Epoch /\ request[p].day \in Nat \ {0}
      /\ execution \in [Operations -> Rows]
      /\ execution[Op(p)] = [state |-> "dispatching", owner |-> p]
      /\ HoldsRow(p) /\ CallsOnce(p) /\ Stores(p)
  BY CallerOwns, HasShape DEF ProviderAnswers, At, Calling, PanelsInv, Shapes, HoldsRow
<1>2. /\ Goto(p, "storeMeta") /\ execution' = [execution EXCEPT ![Op(p)].state = "completed"]
      /\ UNCHANGED <<budget, legacy, rows, metas, day, calls, past, reset, excused>>
  BY DEF ProviderAnswers, SettleRow, cache
<1>3. /\ request' \in [Panels -> RequestShape]
      /\ request'[p] = [request[p] EXCEPT !.pc = "storeMeta"]
      /\ request'[p].pc = "storeMeta" /\ Op(p)' = Op(p)
      /\ \A o \in Panels \ {p} : request'[o] = request[o]
  BY <1>2, GoesOn DEF Points
<1>4. /\ request'[p].epoch = request[p].epoch /\ request'[p].day = request[p].day
      /\ Call(p)' = Call(p) /\ Epoch' = Epoch
      /\ Reserved(p)' /\ ~ Calling(p)'
  BY <1>1, <1>2, <1>3, HasShape DEF PanelsInv, Shapes, RequestShape, Call, Op, Epoch, Reserved, Calling
<1>5. /\ execution' \in [Operations -> Rows]
      /\ execution'[Op(p)] = [state |-> "completed", owner |-> p]
      /\ \A op \in Operations : op # Op(p) => execution'[op] = execution[op]
  BY <1>1, <1>2 DEF Rows
<1>6. OthersStand(p)
  BY <1>1, <1>2, <1>3, <1>5 DEF OthersStand, RowsToKeep
<1>7. ShapeInv'
  BY <1>2, <1>3, <1>4, <1>5 DEF PanelsInv, ShapeInv, StandaloneTypeOK, RequestShape
<1>8. EpochIsBounded'
  BY <1>2, <1>4 DEF PanelsInv, EpochIsBounded, Disturbances
<1>9. \A call : Made(call)' <=> Made(call)
  BY <1>2 DEF Made
<1>10. \A o \in Panels : HoldsRow(o)' /\ CallsOnce(o)' /\ Stores(o)'
  <2>1. HoldsRow(p)'
    BY <1>1, <1>3, <1>4, <1>5 DEF HoldsRow
  <2>2. CallsOnce(p)'
    BY <1>1, <1>3, <1>4, <1>9 DEF CallsOnce
  <2>3. Stores(p)'
    BY <1>1, <1>2, <1>3, <1>4 DEF Stores, RowsToKeep
  <2> QED BY <1>6, <2>1, <2>2, <2>3, OthersPlaced
<1>11. NoSharedCall'
  BY <1>1, <1>4, <1>6, StillNoneShared
<1>12. CallsArePaid'
  BY <1>1, <1>2, <1>4, <1>5 DEF PanelsInv, CallsArePaid, ShapeInv, CallRecord
<1>13. BudgetIsKept' /\ RowsAreKept'
  BY <1>2, <1>4, <1>9 DEF PanelsInv, BudgetIsKept, PaidOn, LegacyOn, RowsAreKept, RowsToKeep
<1>14. CompletedResultIsReachable'
  <2> SUFFICES ASSUME NEW op \in Operations, execution'[op].state = "completed"
               PROVE  \/ op \in excused
                      \/ /\ <<op, Epoch>> \in metas
                         /\ \E row \in rows : row.call = <<op, Epoch>>
                      \/ \E o \in Panels : op \in Storing(o)'
    BY <1>2, <1>4 DEF CompletedResultIsReachable
  <2>1. CASE op = Op(p)
    <3>1. Call(p)' = <<op, Epoch>>
      BY <2>1, <1>1, <1>4 DEF Call, Op
    <3>2. op \in Storing(p)'
      BY <2>1, <3>1, <1>1, <1>3, <1>4 DEF Storing
    <3> QED BY <3>2
  <2>2. CASE op # Op(p)
    <3>1. \A o \in Panels : op \in Storing(o) => op \in Storing(o)'
      BY <2>2, <1>3, <1>4 DEF Storing, Call, Op
    <3> QED BY <2>2, <3>1, <1>5 DEF PanelsInv, CompletedResultIsReachable
  <2> QED BY <2>1, <2>2
<1> QED BY <1>7, <1>8, <1>10, <1>11, <1>12, <1>13, <1>14 DEF PanelsInv

LEMMA ProviderAnswersKeepsInv ==
    ASSUME PanelsInv, NEW p \in Panels, ProviderAnswers(p)
    PROVE  PanelsInv'
<1>1. /\ Calling(p) /\ Storing(p) = {} /\ Op(p) \in Operations /\ request[p].pc = "answer"
      /\ Made(Call(p)) /\ request[p].epoch \in Nat
  BY CallerOwns, HasShape DEF ProviderAnswers, At, Calling, Reserved, PanelsInv, CallsOnce,
     Shapes, RequestShape
<1>2. CASE Owns(p) /\ request[p].keep
  BY <1>2, AnswerToKeepKeepsInv
<1>3. CASE ~ Owns(p)
  <2>1. execution' \in [Operations -> Rows] /\ Settled(p)
    BY <1>1, <1>3, SettledRow DEF ProviderAnswers
  <2> QED BY <1>1, <1>3, <2>1, EndedKeepsInv, IdleShape, IdleHoldsNothing
          DEF ProviderAnswers, Ends, Refuse, Becomes, cache
<1>4. CASE Owns(p) /\ ~ request[p].keep
  <2>1. execution' \in [Operations -> Rows] /\ Settled(p)
    BY <1>1, <1>4, SettledRow DEF ProviderAnswers
  <2>2. Call(p) \in Operations \X Nat /\ PlanOf(Call(p)[1]) = PlanOf(Op(p))
    BY <1>1 DEF Call, Op
  <2>3. PICK q \in RequestShape : Becomes(p, q) /\ HoldsNothing(q)
    BY <1>1, <1>4, <2>2, ShownShape DEF ProviderAnswers
  <2> QED BY <1>1, <1>4, <2>1, <2>3, EndedKeepsInv DEF ProviderAnswers, Ends, cache
<1> QED BY <1>2, <1>3, <1>4

\* A panel that stores a result.
LEMMA StorerShape ==
    ASSUME PanelsInv, NEW p \in Panels, request[p].pc \in {"storeMeta", "storeRow"}
    PROVE  /\ Reserved(p) /\ ~ Calling(p) /\ Op(p) \in Operations
           /\ Call(p) \in Operations \X Nat /\ Call(p)[2] = request[p].epoch
           /\ PlanOf(Call(p)[1]) = PlanOf(Op(p)) /\ PlanOf(Op(p)) \in Plans /\ Made(Call(p))
           /\ HoldsRow(p) /\ CallsOnce(p) /\ Stores(p)
BY HasShape DEF PanelsInv, CallsOnce, Reserved, Calling, Shapes, RequestShape, Call, Op,
   Operations, PlanOf

LEMMA StoreMetaKeepsInv ==
    ASSUME PanelsInv, NEW p \in Panels, At(p, "storeMeta"), Goto(p, "storeRow"),
           metas' = metas \cup {Call(p)},
           UNCHANGED <<rows, ledger, day, history, reset>>
    PROVE  PanelsInv'
<1>1. /\ UNCHANGED <<rows, execution, budget, legacy, day, calls, past, excused, reset>>
      /\ request[p].pc = "storeMeta"
  BY DEF ledger, history, At
<1>2. /\ Reserved(p) /\ ~ Calling(p) /\ Op(p) \in Operations
      /\ Call(p) \in Operations \X Nat /\ Made(Call(p))
      /\ HoldsRow(p) /\ CallsOnce(p) /\ Stores(p)
  BY <1>1, StorerShape
<1>3. /\ request' \in [Panels -> RequestShape]
      /\ request'[p] = [request[p] EXCEPT !.pc = "storeRow"]
      /\ request'[p].pc = "storeRow" /\ Op(p)' = Op(p)
      /\ \A o \in Panels \ {p} : request'[o] = request[o]
  BY GoesOn DEF Points
<1>4. /\ request'[p].epoch = request[p].epoch /\ request'[p].day = request[p].day
      /\ Call(p)' = Call(p) /\ Epoch' = Epoch
      /\ Reserved(p)' /\ ~ Calling(p)'
  BY <1>1, <1>3, HasShape DEF PanelsInv, Shapes, RequestShape, Call, Op, Epoch, Reserved, Calling
<1>5. OthersStand(p)
  BY <1>1, <1>3 DEF OthersStand, RowsToKeep
<1>6. ShapeInv'
  BY <1>1, <1>2, <1>3, <1>4 DEF PanelsInv, ShapeInv, StandaloneTypeOK, RequestShape
<1>7. EpochIsBounded'
  BY <1>1, <1>4 DEF PanelsInv, EpochIsBounded, Disturbances
<1>8. \A call : Made(call)' <=> Made(call)
  BY <1>1 DEF Made
<1>9. \A o \in Panels : HoldsRow(o)' /\ CallsOnce(o)' /\ Stores(o)'
  <2>1. HoldsRow(p)'
    BY <1>1, <1>2, <1>3, <1>4 DEF HoldsRow
  <2>2. CallsOnce(p)'
    BY <1>1, <1>2, <1>3, <1>4, <1>8 DEF CallsOnce
  <2>3. Stores(p)'
    BY <1>1, <1>2, <1>3, <1>4 DEF Stores, RowsToKeep
  <2> QED BY <1>5, <2>1, <2>2, <2>3, OthersPlaced
<1>10. NoSharedCall'
  BY <1>2, <1>4, <1>5, StillNoneShared
<1>11. CallsArePaid' /\ BudgetIsKept'
  BY <1>1, <1>4 DEF PanelsInv, CallsArePaid, BudgetIsKept, PaidOn, LegacyOn
<1>12. RowsAreKept'
  BY <1>1, <1>4, <1>8 DEF PanelsInv, RowsAreKept, RowsToKeep
<1>13. CompletedResultIsReachable'
  <2>1. \A op \in Operations, o \in Panels : op \in Storing(o) => op \in Storing(o)'
    BY <1>3, <1>4 DEF Storing, Call
  <2> QED BY <2>1, <1>1, <1>4 DEF PanelsInv, CompletedResultIsReachable
<1> QED BY <1>6, <1>7, <1>9, <1>10, <1>11, <1>12, <1>13 DEF PanelsInv

LEMMA StoreRowKeepsInv ==
    ASSUME PanelsInv, NEW p \in Panels, At(p, "storeRow"), Show(p, Call(p)),
           rows' = rows \cup {[plan |-> PlanOf(Op(p)), call |-> Call(p)]},
           UNCHANGED <<metas, ledger, day, history, reset>>
    PROVE  PanelsInv'
<1>1. /\ UNCHANGED <<metas, execution, budget, legacy, day, calls, past, excused, reset>>
      /\ request[p].pc = "storeRow"
  BY DEF ledger, history, At
<1>2. /\ Reserved(p) /\ ~ Calling(p) /\ Op(p) \in Operations
      /\ Call(p) \in Operations \X Nat /\ Made(Call(p)) /\ Call(p)[2] = request[p].epoch
      /\ PlanOf(Call(p)[1]) = PlanOf(Op(p)) /\ PlanOf(Op(p)) \in Plans
      /\ Call(p)[1] = Op(p)
      /\ HoldsRow(p) /\ CallsOnce(p) /\ Stores(p)
  BY <1>1, StorerShape DEF Call, Op
<1>3. PICK q \in RequestShape : Becomes(p, q) /\ HoldsNothing(q)
  BY <1>2, ShownShape
<1>4. /\ request' \in [Panels -> RequestShape] /\ request'[p] = q
      /\ \A o \in Panels \ {p} : request'[o] = request[o]
      /\ ~ Reserved(p)' /\ Epoch' = Epoch
  BY <1>1, <1>3, OneBecomes DEF PanelsInv, HoldsNothing, Reserved, Epoch
<1> DEFINE new == [plan |-> PlanOf(Op(p)), call |-> Call(p)]
<1>5. /\ rows' = rows \cup {new} /\ new.call = Call(p) /\ new.plan = PlanOf(Op(p))
      /\ new \in [plan : Plans, call : Operations \X Nat]
  BY <1>2
<1> HIDE DEF new
<1>6. OthersStand(p)
  BY <1>1, <1>2, <1>4, <1>5 DEF OthersStand, RowsToKeep
<1>7. ShapeInv'
  BY <1>1, <1>4, <1>5 DEF PanelsInv, ShapeInv, StandaloneTypeOK, RequestShape
<1>8. EpochIsBounded'
  BY <1>1, <1>4 DEF PanelsInv, EpochIsBounded, Disturbances
<1>9. \A call : Made(call)' <=> Made(call)
  BY <1>1 DEF Made
<1>10. \A o \in Panels : HoldsRow(o)' /\ CallsOnce(o)' /\ Stores(o)'
  <2>1. HoldsRow(p)' /\ Stores(p)'
    BY <1>4 DEF HoldsRow, Stores, Reserved, Calling
  <2>2. CallsOnce(p)'
    BY <1>3, <1>4, <1>9 DEF CallsOnce, HoldsNothing, Reserved, Op
  <2> QED BY <1>6, <2>1, <2>2, OthersPlaced
<1>11. NoSharedCall'
  BY <1>4, <1>6, StillNoneShared
<1>12. CallsArePaid' /\ BudgetIsKept'
  BY <1>1, <1>4 DEF PanelsInv, CallsArePaid, BudgetIsKept, PaidOn, LegacyOn
<1>13. new.call[2] = Epoch => new.call \in metas \/ new.call[1] \in excused
  BY <1>1, <1>2, <1>5 DEF Stores
<1>14. RowsAreKept'
  BY <1>1, <1>2, <1>4, <1>5, <1>9, <1>13 DEF PanelsInv, RowsAreKept, RowsToKeep
<1>15. CompletedResultIsReachable'
  <2> SUFFICES ASSUME NEW op \in Operations, execution[op].state = "completed"
               PROVE  \/ op \in excused
                      \/ /\ <<op, Epoch>> \in metas
                         /\ \E row \in rows' : row.call = <<op, Epoch>>
                      \/ \E o \in Panels : op \in Storing(o)'
    BY <1>1, <1>4 DEF CompletedResultIsReachable
  <2>1. \/ op \in excused
        \/ <<op, Epoch>> \in metas /\ \E row \in rows : row.call = <<op, Epoch>>
        \/ \E o \in Panels : op \in Storing(o)
    BY DEF PanelsInv, CompletedResultIsReachable
  <2>2. op \in Storing(p) => <<op, Epoch>> = new.call /\ (new.call \in metas \/ op \in excused)
    BY <1>2, <1>5, <1>13 DEF Storing, Call, Op
  <2>3. \A o \in Panels \ {p} : op \in Storing(o) => op \in Storing(o)'
    BY <1>4 DEF Storing, Call
  <2> QED BY <2>1, <2>2, <2>3, <1>5
<1> QED BY <1>7, <1>8, <1>10, <1>11, <1>12, <1>14, <1>15 DEF PanelsInv

LEMMA StoreResultKeepsInv ==
    ASSUME PanelsInv, NEW p \in Panels, StoreResult(p)
    PROVE  PanelsInv'
BY StoreMetaKeepsInv, StoreRowKeepsInv DEF StoreResult

\* Paying for one more attempt of the day stays within the limit.
LEMMA PaysWithinLimit ==
    ASSUME ShapeInv, BudgetIsKept, NEW op, Used < Limit,
           budget' = budget \cup {<<op, day>>}, UNCHANGED <<legacy, day>>
    PROVE  BudgetIsKept'
<1>1. IsFiniteSet(budget) /\ IsFiniteSet(budget')
  BY FS_AddElement DEF BudgetIsKept
<1>2. ASSUME NEW d \in 1 .. MaxDisturbances + 1, PaidOn(d)' # {}
      PROVE  Cardinality(PaidOn(d)') + LegacyOn(d)' <= Limit
  <2>1. CASE d # day
    <3>1. PaidOn(d)' = PaidOn(d)
      BY <2>1 DEF PaidOn
    <3> QED BY <3>1, <1>2 DEF BudgetIsKept, LegacyOn
  <2>2. CASE d = day
    <3>1. PaidOn(d)' = PaidOn(d) \cup {<<op, day>>}
      BY <2>2 DEF PaidOn
    <3>2. IsFiniteSet(PaidOn(d)) /\ PaidOn(d) \subseteq budget
      BY <1>1, FS_Subset DEF PaidOn
    <3>3. /\ Cardinality(PaidOn(d)) \in Nat
          /\ Cardinality(PaidOn(d)') \in Nat
          /\ Cardinality(PaidOn(d)') <= Cardinality(PaidOn(d)) + 1
      <4> DEFINE paid == PaidOn(d)
                 row == <<op, day>>
      <4>1. IsFiniteSet(paid) /\ PaidOn(d)' = paid \cup {row}
        BY <3>1, <3>2
      <4> HIDE DEF paid, row
      <4>2. /\ Cardinality(paid) \in Nat
            /\ \/ Cardinality(paid \cup {row}) = Cardinality(paid)
               \/ Cardinality(paid \cup {row}) = Cardinality(paid) + 1
        BY <4>1, FS_AddElement, FS_CardinalityType
      <4>3. Cardinality(PaidOn(d)') = Cardinality(paid \cup {row})
        BY <4>1
      <4>4. Cardinality(paid) = Cardinality(PaidOn(d))
        BY DEF paid
      <4> QED BY <4>2, <4>3, <4>4
    <3>4. Cardinality(PaidOn(d)) + LegacyOn(d) < Limit
      BY <2>2 DEF Used, LegacyToday, PaidOn, LegacyOn
    <3>5. LegacyOn(d)' = LegacyOn(d) /\ LegacyOn(d) \in Int /\ Limit \in Int
      BY StandaloneAssumption DEF LegacyOn, ShapeInv, StandaloneTypeOK
    <3> QED BY <3>3, <3>4, <3>5
  <2> QED BY <2>1, <2>2
<1> QED BY <1>1, <1>2 DEF BudgetIsKept

LEMMA GrantedKeepsInv ==
    ASSUME PanelsInv, NEW p \in Panels, Reserve(p), MayReserve(Op(p))
    PROVE  PanelsInv'
<1>1. /\ request[p].pc = "ready" /\ ~ Reserved(p) /\ Op(p) \in Operations
      /\ execution[Op(p)].state = "none" /\ Used < Limit
      /\ execution \in [Operations -> Rows] /\ request[p] \in RequestShape
      /\ Epoch \in Nat /\ day \in 1 .. MaxDisturbances + 1
  BY HasShape DEF Reserve, At, Reserved, MayReserve, PanelsInv, CallsOnce, Shapes
<1>2. /\ execution' = [execution EXCEPT ![Op(p)] = [state |-> "dispatching", owner |-> p]]
      /\ budget' = budget \cup {<<Op(p), day>>}
      /\ request' = [request EXCEPT ![p].pc = "send", ![p].epoch = Epoch, ![p].day = day]
      /\ UNCHANGED <<legacy, rows, metas, day, calls, past, excused, reset>>
  BY DEF Reserve, cache, history
<1> DEFINE q == [request[p] EXCEPT !.pc = "send", !.epoch = Epoch, !.day = day]
<1>3. /\ Becomes(p, q) /\ q \in RequestShape
      /\ q.pc = "send" /\ q.epoch = Epoch /\ q.day = day /\ q.op = Op(p)
  <2>1. Becomes(p, q)
    BY <1>2, HasShape DEF PanelsInv, Shapes, Becomes
  <2>2. day \in 0 .. MaxDisturbances + 1 /\ Epoch \in Nat
    BY <1>1, StandaloneAssumption
  <2>3. q \in RequestShape /\ q.pc = "send" /\ q.epoch = Epoch /\ q.day = day /\ q.op = Op(p)
    BY <1>1, <2>2 DEF RequestShape, Points, Op
  <2> QED BY <2>1, <2>3
<1> HIDE DEF q
<1>4. /\ request' \in [Panels -> RequestShape] /\ request'[p] = q
      /\ \A o \in Panels \ {p} : request'[o] = request[o]
  BY <1>3, OneBecomes DEF PanelsInv
<1>5. /\ execution' \in [Operations -> Rows]
      /\ execution'[Op(p)] = [state |-> "dispatching", owner |-> p]
      /\ \A op \in Operations : op # Op(p) => execution'[op] = execution[op]
  BY <1>1, <1>2 DEF Rows
<1>6. /\ Op(p)' = Op(p) /\ Call(p)' = <<Op(p), Epoch>> /\ Epoch' = Epoch
      /\ Reserved(p)' /\ Calling(p)' /\ request'[p].pc = "send"
      /\ request'[p].epoch = Epoch /\ request'[p].day = day
  BY <1>2, <1>3, <1>4 DEF Op, Call, Epoch, Reserved, Calling
<1>7. ~ Made(<<Op(p), Epoch>>)
  BY <1>1 DEF PanelsInv, CallsArePaid, Made
<1>8. \A row \in RowsToKeep : row.call # <<Op(p), Epoch>>
  BY <1>7 DEF PanelsInv, RowsAreKept
<1>9. ASSUME NEW o \in Panels, Reserved(o)
      PROVE  Call(o) # <<Op(p), Epoch>>
  <2>1. /\ HoldsRow(o)
        /\ Call(o) = <<Op(p), Epoch>> => Op(o) = Op(p) /\ request[o].epoch = Epoch
    BY DEF PanelsInv, Call, Op
  <2>2. request[o].epoch = Epoch => execution[Op(o)].state # "none"
    BY <1>9, <2>1 DEF HoldsRow
  <2> QED BY <1>1, <2>1, <2>2
<1>10. OthersStand(p)
  BY <1>1, <1>2, <1>4, <1>5 DEF OthersStand, RowsToKeep
<1>11. ShapeInv'
  <2>1. budget' \subseteq Operations \X (1 .. MaxDisturbances + 1)
    BY <1>1, <1>2 DEF PanelsInv, ShapeInv, StandaloneTypeOK
  <2> QED BY <1>2, <1>4, <1>5, <1>6, <2>1 DEF PanelsInv, ShapeInv, StandaloneTypeOK, RequestShape
<1>12. EpochIsBounded'
  BY <1>2, <1>6 DEF PanelsInv, EpochIsBounded, Disturbances
<1>13. \A call : Made(call)' <=> Made(call)
  BY <1>2 DEF Made
<1>14. \A o \in Panels : HoldsRow(o)' /\ CallsOnce(o)' /\ Stores(o)'
  <2>1. HoldsRow(p)'
    BY <1>1, <1>5, <1>6 DEF HoldsRow
  <2>2. CallsOnce(p)'
    BY <1>1, <1>2, <1>6, <1>7, <1>13 DEF CallsOnce
  <2>3. Stores(p)'
    BY <1>2, <1>6, <1>8 DEF Stores, RowsToKeep
  <2> QED BY <1>10, <2>1, <2>2, <2>3, OthersPlaced
<1>15. NoSharedCall'
  <2>1. \A o \in Panels \ {p} : /\ Reserved(o)' <=> Reserved(o)
                                /\ Call(o)' = Call(o)
    BY <1>4 DEF Reserved, Call, Op
  <2> QED BY <1>6, <1>9, <2>1 DEF PanelsInv, NoSharedCall
<1>16. CallsArePaid'
  BY <1>2, <1>5, <1>6 DEF PanelsInv, CallsArePaid, ShapeInv, CallRecord
<1>17. BudgetIsKept'
  BY <1>1, <1>2, PaysWithinLimit DEF PanelsInv
<1>18. RowsAreKept'
  BY <1>2, <1>6, <1>13 DEF PanelsInv, RowsAreKept, RowsToKeep
<1>19. CompletedResultIsReachable'
  <2>1. \A o \in Panels, op \in Operations : op \in Storing(o) => o # p /\ op \in Storing(o)'
    BY <1>1, <1>4, <1>6 DEF Storing, Call
  <2>2. \A op \in Operations : execution'[op].state = "completed" => execution[op].state = "completed"
    BY <1>5
  <2> QED BY <1>2, <1>6, <2>1, <2>2 DEF PanelsInv, CompletedResultIsReachable
<1> QED BY <1>11, <1>12, <1>14, <1>15, <1>16, <1>17, <1>18, <1>19 DEF PanelsInv

LEMMA ReserveKeepsInv ==
    ASSUME PanelsInv, NEW p \in Panels, Reserve(p)
    PROVE  PanelsInv'
<1>1. CASE MayReserve(Op(p))
  BY <1>1, GrantedKeepsInv
<1>2. CASE ~ MayReserve(Op(p))
  <2>1. Storing(p) = {}
    BY NotReservedStoresNothing DEF Reserve, At, Reserved
  <2> QED BY <1>2, <2>1, UnpaidEnds, IdleShape, IdleHoldsNothing
          DEF Reserve, Refuse, Becomes, ledger, cache, history
<1> QED BY <1>1, <1>2

LEMMA SendKeepsInv ==
    ASSUME PanelsInv, NEW p \in Panels, Send(p)
    PROVE  PanelsInv'
<1> DEFINE call == [op |-> Op(p), epoch |-> request[p].epoch, panel |-> p, day |-> request[p].day]
<1>1. /\ request[p].pc = "send" /\ Calling(p) /\ Reserved(p) /\ Op(p) \in Operations
      /\ HoldsRow(p) /\ CallsOnce(p) /\ Stores(p) /\ ~ Made(Call(p))
      /\ request[p].epoch \in Nat /\ request[p].epoch <= Epoch
      /\ request[p].day \in 1 .. MaxDisturbances + 1
  BY HasShape, StandaloneAssumption DEF Send, At, Calling, Reserved, PanelsInv, CallsOnce,
     HoldsRow, Shapes, RequestShape
<1>2. /\ calls' = calls \cup {call} /\ Goto(p, "answer")
      /\ UNCHANGED <<execution, budget, legacy, rows, metas, day, past, excused, reset>>
  BY DEF Send, ledger, cache
<1>3. /\ call \in CallRecord /\ call.op = Op(p) /\ call.epoch = request[p].epoch
      /\ call.day = request[p].day /\ <<call.op, call.epoch>> = Call(p)
  BY <1>1 DEF CallRecord, Call, Op
<1> HIDE DEF call
<1>4. /\ request' \in [Panels -> RequestShape]
      /\ request'[p] = [request[p] EXCEPT !.pc = "answer"]
      /\ request'[p].pc = "answer" /\ Op(p)' = Op(p)
      /\ \A o \in Panels \ {p} : request'[o] = request[o]
  BY <1>2, GoesOn DEF Points
<1>5. /\ request'[p].epoch = request[p].epoch /\ request'[p].day = request[p].day
      /\ Call(p)' = Call(p) /\ Epoch' = Epoch
      /\ Reserved(p)' /\ Calling(p)'
  BY <1>2, <1>4, HasShape DEF PanelsInv, Shapes, RequestShape, Call, Op, Epoch, Reserved, Calling
<1>6. OthersStand(p)
  BY <1>1, <1>2, <1>3, <1>4 DEF OthersStand, RowsToKeep
<1>7. ShapeInv'
  BY <1>2, <1>3, <1>4, <1>5 DEF PanelsInv, ShapeInv, StandaloneTypeOK, RequestShape
<1>8. EpochIsBounded'
  BY <1>2, <1>5 DEF PanelsInv, EpochIsBounded, Disturbances
<1>9. Made(Call(p))' /\ \A made : Made(made) => Made(made)'
  BY <1>2, <1>3, <1>5 DEF Made
<1>10. \A o \in Panels : HoldsRow(o)' /\ CallsOnce(o)' /\ Stores(o)'
  <2>1. HoldsRow(p)'
    BY <1>1, <1>2, <1>4, <1>5 DEF HoldsRow
  <2>2. CallsOnce(p)'
    BY <1>1, <1>4, <1>5, <1>9 DEF CallsOnce
  <2>3. Stores(p)'
    BY <1>1, <1>2, <1>4, <1>5 DEF Stores, RowsToKeep
  <2> QED BY <1>6, <2>1, <2>2, <2>3, OthersPlaced
<1>11. NoSharedCall'
  BY <1>1, <1>5, <1>6, StillNoneShared
<1>12. CallsArePaid'
  <2>1. call.epoch = Epoch =>
          execution[call.op].state # "none" /\ <<call.op, call.day>> \in budget
    BY <1>1, <1>3 DEF HoldsRow, CallsOnce
  <2>2. \A c \in calls : ~ (c.op = call.op /\ c.epoch = call.epoch)
    BY <1>1, <1>3 DEF Made
  <2> QED BY <1>1, <1>2, <1>3, <1>5, <2>1, <2>2 DEF PanelsInv, CallsArePaid
<1>13. BudgetIsKept'
  BY <1>2 DEF PanelsInv, BudgetIsKept, PaidOn, LegacyOn
<1>14. RowsAreKept'
  BY <1>2, <1>5, <1>9 DEF PanelsInv, RowsAreKept, RowsToKeep
<1>15. CompletedResultIsReachable'
  <2>1. \A o \in Panels, op \in Operations : op \in Storing(o) => op \in Storing(o)'
    BY <1>1, <1>4, <1>5 DEF Storing, Call
  <2> QED BY <1>2, <1>5, <2>1 DEF PanelsInv, CompletedResultIsReachable
<1> QED BY <1>7, <1>8, <1>10, <1>11, <1>12, <1>13, <1>14, <1>15 DEF PanelsInv

-----------------------------------------------------------------------------
\* The options page and the day.

\* A step of the options page that leaves the ledger and the panels alone.
PanelsStand ==
    /\ UNCHANGED <<execution, budget, calls, past, request>>
    /\ legacy' \in 0 .. legacy
    /\ RowsToKeep' \subseteq RowsToKeep /\ excused \subseteq excused'
    /\ \A call \in metas \ metas' : call[2] = Epoch =>
         call[1] \in excused' \/ \E row \in reset.listed : row.call = call

LEMMA AllStillPlaced ==
    ASSUME PanelsInv, PanelsStand
    PROVE  /\ \A p \in Panels : HoldsRow(p)' /\ CallsOnce(p)' /\ Stores(p)'
           /\ NoSharedCall' /\ CallsArePaid' /\ BudgetIsKept'
           /\ \A row \in RowsToKeep' : Made(row.call)' /\ row.plan = PlanOf(row.call[1])
<1>1. Epoch' = Epoch /\ \A call : Made(call)' <=> Made(call)
  BY DEF PanelsStand, Epoch, Made
<1>2. ASSUME NEW p \in Panels
      PROVE  HoldsRow(p)' /\ CallsOnce(p)' /\ Stores(p)'
  <2>1. /\ Op(p)' = Op(p) /\ Call(p)' = Call(p)
        /\ Reserved(p)' <=> Reserved(p)
        /\ Calling(p)' <=> Calling(p)
        /\ HoldsRow(p) /\ CallsOnce(p) /\ Stores(p)
    BY DEF PanelsStand, Op, Call, Reserved, Calling, PanelsInv
  <2>2. HoldsRow(p)' /\ CallsOnce(p)'
    BY <1>1, <2>1 DEF HoldsRow, CallsOnce, PanelsStand
  <2>3. Stores(p)'
    <3>1. Reserved(p) => \A row \in RowsToKeep' : row.call # Call(p)
      BY <2>1 DEF Stores, PanelsStand
    <3>2. ASSUME request[p].pc = "storeRow", request[p].epoch = Epoch
          PROVE  Call(p) \in metas' \/ Op(p) \in excused'
      <4>1. /\ Reserved(p) /\ Call(p)[1] = Op(p) /\ Call(p)[2] = Epoch
            /\ Call(p) \in metas \/ Op(p) \in excused
        BY <2>1, <3>2 DEF Stores, Reserved, Call, Op
      <4>2. \A row \in reset.listed : row.call # Call(p)
        BY <2>1, <4>1 DEF Stores, RowsToKeep
      <4> QED BY <4>1, <4>2 DEF PanelsStand
    <3> QED BY <1>1, <2>1, <3>1, <3>2 DEF Stores, PanelsStand
  <2> QED BY <2>2, <2>3
<1>3. NoSharedCall' /\ CallsArePaid'
  BY <1>1 DEF PanelsInv, NoSharedCall, CallsArePaid, PanelsStand, Reserved, Call, Op
<1>4. BudgetIsKept'
  <2>1. IsFiniteSet(budget')
    BY DEF PanelsInv, BudgetIsKept, PanelsStand
  <2>2. ASSUME NEW d \in 1 .. MaxDisturbances + 1, PaidOn(d)' # {}
        PROVE  Cardinality(PaidOn(d)') + LegacyOn(d)' <= Limit
    <3>1. PaidOn(d)' = PaidOn(d) /\ IsFiniteSet(PaidOn(d))
      BY <2>1, FS_Subset DEF PanelsStand, PaidOn
    <3>2. Cardinality(PaidOn(d)) \in Nat
      BY <3>1, FS_CardinalityType
    <3>3. Cardinality(PaidOn(d)) + LegacyOn(d) <= Limit
      BY <2>2, <3>1 DEF PanelsInv, BudgetIsKept
    <3>4. LegacyOn(d) \in Int /\ Limit \in Int /\ legacy \in Int
      BY StandaloneAssumption DEF LegacyOn, PanelsInv, ShapeInv, StandaloneTypeOK
    <3>5. CASE d = 1
      <4>1. LegacyOn(d)' <= LegacyOn(d) /\ LegacyOn(d)' \in Int
        BY <3>4, <3>5 DEF LegacyOn, PanelsStand
      <4> QED BY <3>1, <3>2, <3>3, <3>4, <4>1
    <3>6. CASE d # 1
      BY <3>1, <3>3, <3>6 DEF LegacyOn
    <3> QED BY <3>5, <3>6
  <2> QED BY <2>1, <2>2 DEF BudgetIsKept
<1>5. \A row \in RowsToKeep' : Made(row.call)' /\ row.plan = PlanOf(row.call[1])
  BY <1>1 DEF PanelsInv, RowsAreKept, PanelsStand
<1> QED BY <1>2, <1>3, <1>4, <1>5

LEMMA NextDayKeepsInv ==
    ASSUME PanelsInv, NextDay
    PROVE  PanelsInv'
<1>1. /\ UNCHANGED <<execution, budget, legacy, rows, metas, calls, past, excused, request, reset>>
      /\ day' = day + 1 /\ Disturbances < MaxDisturbances
      /\ Epoch' = Epoch
  BY DEF NextDay, ledger, cache, history, Epoch
<1>2. /\ RowsToKeep' = RowsToKeep
      /\ \A call : Made(call)' <=> Made(call)
      /\ \A p \in Panels : Storing(p)' = Storing(p)
  BY <1>1 DEF RowsToKeep, Made, Storing, Call
<1>3. reset.done \in Nat /\ day \in 1 .. MaxDisturbances + 1 /\ MaxDisturbances \in Nat
  BY StandaloneAssumption DEF PanelsInv, ShapeInv, StandaloneTypeOK
<1>4. ShapeInv' /\ EpochIsBounded'
  <2>1. day' \in 1 .. MaxDisturbances + 1
    BY <1>1, <1>3 DEF Disturbances
  <2>2. ShapeInv'
    BY <1>1, <2>1 DEF PanelsInv, ShapeInv, StandaloneTypeOK
  <2>3. Disturbances' <= MaxDisturbances
    BY <1>1, <1>3 DEF Disturbances
  <2> QED BY <1>1, <2>2, <2>3 DEF PanelsInv, EpochIsBounded
<1>5. \A p \in Panels : HoldsRow(p)' /\ CallsOnce(p)' /\ Stores(p)'
  BY <1>1, <1>2 DEF PanelsInv, HoldsRow, CallsOnce, Stores, Op, Call, Reserved, Calling
<1>6. NoSharedCall' /\ CallsArePaid' /\ BudgetIsKept'
  BY <1>1 DEF PanelsInv, NoSharedCall, CallsArePaid, BudgetIsKept, PaidOn, LegacyOn, Reserved, Call, Op
<1>7. RowsAreKept' /\ CompletedResultIsReachable'
  BY <1>1, <1>2 DEF PanelsInv, RowsAreKept, CompletedResultIsReachable
<1> QED BY <1>4, <1>5, <1>6, <1>7 DEF PanelsInv

\* What the steps of a deletion share: where it stands, and what must be shown of it.
LEMMA DeletionKeepsInv ==
    ASSUME PanelsInv, PanelsStand, day' = day,
           rows' \subseteq rows, metas' \subseteq metas,
           reset' \in [pc : ResetPoints, listed : SUBSET [plan : Plans, call : Operations \X Nat],
                       done : Nat],
           EpochIsBounded', RowsAreKept', CompletedResultIsReachable'
    PROVE  PanelsInv'
<1>1. Epoch' = Epoch
  BY DEF PanelsStand, Epoch
<1>2. legacy' \in 0 .. Legacy
  BY StandaloneAssumption DEF PanelsStand, PanelsInv, ShapeInv, StandaloneTypeOK
<1>3. ShapeInv'
  BY <1>1, <1>2 DEF PanelsInv, ShapeInv, StandaloneTypeOK, PanelsStand
<1> QED BY <1>3, AllStillPlaced DEF PanelsInv

\* Nothing but the deletion's own place changes, and what it lists.
LEMMA OnlyResetMoves ==
    ASSUME PanelsInv,
           UNCHANGED <<execution, budget, legacy, rows, metas, day, calls, past, excused, request>>,
           reset'.listed = reset.listed \/ reset'.listed = rows,
           reset' \in [pc : ResetPoints, listed : SUBSET [plan : Plans, call : Operations \X Nat],
                       done : Nat],
           EpochIsBounded',
           reset'.pc = "clearRows" => reset'.listed = rows,
           reset'.pc # "clearMetas"
    PROVE  PanelsInv'
<1>1. Epoch' = Epoch /\ \A call : Made(call)' <=> Made(call)
  BY DEF Epoch, Made
<1>2. RowsToKeep' \subseteq RowsToKeep /\ reset'.listed \subseteq RowsToKeep
  BY DEF RowsToKeep
<1>3. PanelsStand
  <2>1. legacy \in 0 .. legacy
    BY DEF PanelsInv, ShapeInv, StandaloneTypeOK
  <2> QED BY <1>2, <2>1 DEF PanelsStand
<1>4. RowsAreKept'
  BY <1>1, <1>2 DEF PanelsInv, RowsAreKept
<1>5. CompletedResultIsReachable'
  BY <1>1 DEF PanelsInv, CompletedResultIsReachable, Storing, Call
<1> QED BY <1>3, <1>4, <1>5, DeletionKeepsInv

LEMMA ResetShape ==
    ASSUME PanelsInv
    PROVE  /\ reset \in [pc : ResetPoints, listed : SUBSET [plan : Plans, call : Operations \X Nat],
                         done : Nat]
           /\ reset.done \in Nat /\ Epoch \in Nat /\ day \in 1 .. MaxDisturbances + 1
           /\ MaxDisturbances \in Nat
           /\ rows \in SUBSET [plan : Plans, call : Operations \X Nat]
           /\ legacy \in Nat
BY StandaloneAssumption, HasShape DEF PanelsInv, ShapeInv, StandaloneTypeOK, Epoch

LEMMA StartResetKeepsInv ==
    ASSUME PanelsInv, StartReset
    PROVE  PanelsInv'
<1>1. PICK first \in {"checkAll", "checkJob", "listCache"} :
        reset' = [reset EXCEPT !.pc = first, !.done = @ + 1]
  BY DEF StartReset
<1>2. /\ UNCHANGED <<execution, budget, legacy, rows, metas, day, calls, past, excused, request>>
      /\ reset.pc = "idle" /\ Disturbances < MaxDisturbances /\ Epoch' = Epoch
  BY DEF StartReset, ledger, cache, history, Epoch
<1>3. /\ reset'.pc = first /\ reset'.listed = reset.listed /\ reset'.done = reset.done + 1
      /\ reset' \in [pc : ResetPoints, listed : SUBSET [plan : Plans, call : Operations \X Nat],
                     done : Nat]
  <2>1. reset' = [pc |-> first, listed |-> reset.listed, done |-> reset.done + 1]
    BY <1>1, ResetShape
  <2>2. first \in ResetPoints /\ reset.done + 1 \in Nat
    BY ResetShape DEF ResetPoints
  <2> QED BY <2>1, <2>2, ResetShape
<1>4. EpochIsBounded'
  BY <1>2, <1>3, ResetShape DEF PanelsInv, EpochIsBounded, Disturbances
<1> QED BY <1>2, <1>3, <1>4, OnlyResetMoves

LEMMA AssertKeepsInv ==
    ASSUME PanelsInv, AssertNoUnsafeExecutions
    PROVE  PanelsInv'
<1>1. PICK pc \in {"idle", "wipe", "deleteJob"} : reset' = [reset EXCEPT !.pc = pc]
  BY DEF AssertNoUnsafeExecutions
<1>2. /\ UNCHANGED <<execution, budget, legacy, rows, metas, day, calls, past, excused, request>>
      /\ reset.pc # "idle" /\ Epoch' = Epoch
  BY DEF AssertNoUnsafeExecutions, ledger, cache, history, Epoch
<1>3. /\ reset'.pc = pc /\ reset'.listed = reset.listed /\ reset'.done = reset.done
      /\ reset' \in [pc : ResetPoints, listed : SUBSET [plan : Plans, call : Operations \X Nat],
                     done : Nat]
  BY <1>1, ResetShape DEF ResetPoints
<1>4. EpochIsBounded'
  BY <1>2, <1>3, ResetShape DEF PanelsInv, EpochIsBounded, Disturbances
<1> QED BY <1>2, <1>3, <1>4, OnlyResetMoves

LEMMA EndedReset ==
    ASSUME PanelsInv, reset' = EndReset, reset.pc # "idle", UNCHANGED <<day, past>>
    PROVE  /\ reset' \in [pc : ResetPoints,
                          listed : SUBSET [plan : Plans, call : Operations \X Nat], done : Nat]
           /\ reset'.pc = "idle" /\ reset'.listed = {} /\ reset'.done = reset.done
           /\ EpochIsBounded'
<1>1. /\ reset' \in [pc : ResetPoints,
                     listed : SUBSET [plan : Plans, call : Operations \X Nat], done : Nat]
      /\ reset'.pc = "idle" /\ reset'.listed = {} /\ reset'.done = reset.done
  BY ResetShape DEF EndReset, ResetPoints
<1> QED BY <1>1, ResetShape DEF PanelsInv, EpochIsBounded, Disturbances, Epoch

\* A call of now, taken apart.
LEMMA OfNowHolds ==
    ASSUME NEW made \in SUBSET (Operations \X Nat), NEW call \in made, call[2] = Epoch
    PROVE  call = <<call[1], Epoch>> /\ call[1] \in OfNow(made)
BY DEF OfNow

LEMMA DeleteJobKeepsInv ==
    ASSUME PanelsInv, DeleteJob
    PROVE  PanelsInv'
<1>1. /\ UNCHANGED <<execution, budget, day, calls, past, request>>
      /\ reset.pc = "deleteJob" /\ reset' = EndReset /\ Epoch' = Epoch
      /\ rows' = {row \in rows : row.call \notin metas} /\ metas' = {}
      /\ excused' = excused \cup OfNow(metas) /\ legacy' \in 0 .. legacy
  BY DEF DeleteJob, Epoch
<1>2. /\ reset' \in [pc : ResetPoints,
                     listed : SUBSET [plan : Plans, call : Operations \X Nat], done : Nat]
      /\ reset'.pc = "idle" /\ reset'.listed = {} /\ EpochIsBounded'
  BY <1>1, EndedReset
<1>3. \A call \in metas : call[2] = Epoch => call = <<call[1], Epoch>> /\ call[1] \in excused'
  BY <1>1, OfNowHolds DEF PanelsInv, ShapeInv, StandaloneTypeOK
<1>4. PanelsStand
  BY <1>1, <1>2, <1>3 DEF PanelsStand, RowsToKeep
<1>5. RowsAreKept'
  <2>1. \A row \in rows' : row.call[2] = Epoch => row.call[1] \in excused'
    BY <1>1 DEF PanelsInv, RowsAreKept
  <2> QED BY <1>1, <1>2, <1>4, <2>1, AllStillPlaced DEF RowsAreKept
<1>6. CompletedResultIsReachable'
  <2>1. \A op \in Operations : <<op, Epoch>> \in metas => op \in excused'
    BY <1>3
  <2>2. \A p \in Panels : Storing(p)' = Storing(p)
    BY <1>1 DEF Storing, Call
  <2> QED BY <1>1, <2>1, <2>2 DEF PanelsInv, CompletedResultIsReachable
<1> QED BY <1>1, <1>2, <1>4, <1>5, <1>6, DeletionKeepsInv

LEMMA ListCacheKeepsInv ==
    ASSUME PanelsInv, reset.pc = "listCache",
           reset' = [reset EXCEPT !.pc = "clearRows", !.listed = rows],
           UNCHANGED <<execution, budget, legacy, rows, metas, day, calls, past, excused, request>>
    PROVE  PanelsInv'
<1>1. /\ reset'.pc = "clearRows" /\ reset'.listed = rows /\ reset'.done = reset.done
      /\ reset' \in [pc : ResetPoints, listed : SUBSET [plan : Plans, call : Operations \X Nat],
                     done : Nat]
  BY ResetShape DEF ResetPoints
<1>2. EpochIsBounded'
  BY <1>1, ResetShape DEF PanelsInv, EpochIsBounded, Disturbances, Epoch
<1> QED BY <1>1, <1>2, OnlyResetMoves

LEMMA ClearRowsKeepsInv ==
    ASSUME PanelsInv, reset.pc = "clearRows", rows' = {},
           excused' = excused \cup OfNow({row.call : row \in rows}),
           reset' = [reset EXCEPT !.pc = "clearMetas"],
           UNCHANGED <<execution, budget, legacy, metas, day, calls, past, request>>
    PROVE  PanelsInv'
<1>1. /\ reset'.pc = "clearMetas" /\ reset'.listed = reset.listed /\ reset'.done = reset.done
      /\ reset' \in [pc : ResetPoints, listed : SUBSET [plan : Plans, call : Operations \X Nat],
                     done : Nat]
      /\ Epoch' = Epoch
  BY ResetShape DEF ResetPoints, Epoch
<1>2. EpochIsBounded'
  BY <1>1, ResetShape DEF PanelsInv, EpochIsBounded, Disturbances
<1>3. PanelsStand
  BY <1>1, ResetShape DEF PanelsStand, RowsToKeep
<1>4. \A row \in rows : row.call[2] = Epoch =>
        row.call = <<row.call[1], Epoch>> /\ row.call[1] \in excused'
  <2>1. {row.call : row \in rows} \in SUBSET (Operations \X Nat)
    BY ResetShape
  <2> QED BY <2>1, OfNowHolds
<1>5. RowsAreKept'
  <2>1. \A row \in reset'.listed : row.call[2] = Epoch => row.call[1] \in excused'
    BY <1>1, <1>4 DEF PanelsInv, RowsAreKept
  <2> QED BY <1>1, <1>3, <2>1, AllStillPlaced DEF RowsAreKept
<1>6. CompletedResultIsReachable'
  <2>1. \A op \in Operations :
          (\E row \in rows : row.call = <<op, Epoch>>) => op \in excused'
    BY <1>4
  <2>2. \A p \in Panels : Storing(p)' = Storing(p)
    BY <1>1 DEF Storing, Call
  <2> QED BY <1>1, <2>1, <2>2 DEF PanelsInv, CompletedResultIsReachable
<1> QED BY <1>1, <1>2, <1>3, <1>5, <1>6, DeletionKeepsInv

LEMMA ClearMetasKeepsInv ==
    ASSUME PanelsInv, reset.pc = "clearMetas", legacy' = 0, reset' = EndReset,
           metas' = metas \ {row.call : row \in reset.listed},
           UNCHANGED <<execution, budget, rows, excused, day, calls, past, request>>
    PROVE  PanelsInv'
<1>1. /\ reset' \in [pc : ResetPoints,
                     listed : SUBSET [plan : Plans, call : Operations \X Nat], done : Nat]
      /\ reset'.pc = "idle" /\ reset'.listed = {} /\ EpochIsBounded' /\ Epoch' = Epoch
  BY EndedReset DEF Epoch
<1>2. PanelsStand
  BY <1>1, ResetShape DEF PanelsStand, RowsToKeep
<1>3. \A row \in reset.listed : row.call[2] = Epoch => row.call[1] \in excused
  BY DEF PanelsInv, RowsAreKept
<1>4. RowsAreKept'
  <2>1. \A row \in rows : row.call[2] = Epoch /\ row.call \notin metas' => row.call[1] \in excused
    BY <1>3 DEF PanelsInv, RowsAreKept
  <2> QED BY <1>1, <1>2, <2>1, AllStillPlaced DEF RowsAreKept
<1>5. CompletedResultIsReachable'
  <2>1. \A op \in Operations : <<op, Epoch>> \in metas \ metas' => op \in excused
    BY <1>3
  <2>2. \A p \in Panels : Storing(p)' = Storing(p)
    BY <1>1 DEF Storing, Call
  <2> QED BY <1>1, <2>1, <2>2 DEF PanelsInv, CompletedResultIsReachable
<1> QED BY <1>1, <1>2, <1>4, <1>5, DeletionKeepsInv

LEMMA ClearCacheKeepsInv ==
    ASSUME PanelsInv, ClearCache
    PROVE  PanelsInv'
BY ListCacheKeepsInv, ClearRowsKeepsInv, ClearMetasKeepsInv DEF ClearCache

LEMMA WipeKeepsInv ==
    ASSUME PanelsInv, Wipe
    PROVE  PanelsInv'
<1> DEFINE table == [op \in Operations |-> [execution[op] EXCEPT !.owner = HolderOf(execution[op])]]
<1>1. /\ past' = Append(past, table) /\ reset.pc = "wipe" /\ reset' = EndReset
      /\ execution' = [op \in Operations |-> NoRow]
      /\ budget' = {} /\ legacy' = 0 /\ rows' = {} /\ metas' = {} /\ excused' = {}
      /\ UNCHANGED <<day, calls, request>>
  BY DEF Wipe
<1>2. /\ execution \in [Operations -> Rows] /\ past \in Seq([Operations -> Rows])
      /\ Epoch = Len(past) /\ Epoch \in Nat
  BY HasShape DEF PanelsInv, ShapeInv, StandaloneTypeOK, Epoch
<1>3. table \in [Operations -> Rows]
  BY <1>2 DEF Rows, HolderOf
<1>4. ASSUME NEW op \in Operations, execution[op].state = "dispatching"
      PROVE  table[op] = execution[op]
  BY <1>2, <1>4 DEF Rows, HolderOf
<1> HIDE DEF table
<1>5. /\ past' \in Seq([Operations -> Rows]) /\ Epoch' = Epoch + 1
      /\ past'[Epoch + 1] = table
      /\ \A i \in 1 .. Epoch : past'[i] = past[i]
  BY <1>1, <1>2, <1>3 DEF Epoch
<1>6. /\ reset' \in [pc : ResetPoints,
                     listed : SUBSET [plan : Plans, call : Operations \X Nat], done : Nat]
      /\ reset'.pc = "idle" /\ reset'.listed = {} /\ reset'.done = reset.done
  BY <1>1, ResetShape DEF EndReset, ResetPoints
<1>7. NoRow \in Rows /\ NoRow.state = "none" /\ NoRow.owner = NoPanel /\ NoPanel \notin Panels
  BY StandaloneAssumption DEF NoRow, Rows
<1>8. EpochIsBounded' /\ Epoch' <= MaxDisturbances
  BY <1>1, <1>5, <1>6, ResetShape DEF PanelsInv, EpochIsBounded, Disturbances
<1>9. ShapeInv'
  <2>1. execution' \in [Operations -> Rows] /\ legacy' \in 0 .. Legacy
    BY <1>1, <1>7, StandaloneAssumption
  <2> QED BY <1>1, <1>5, <1>6, <1>8, <2>1 DEF PanelsInv, ShapeInv, StandaloneTypeOK
<1>10. \A call : Made(call)' <=> Made(call)
  BY <1>1 DEF Made
<1>11. ASSUME NEW p \in Panels
       PROVE  HoldsRow(p)' /\ CallsOnce(p)' /\ Stores(p)'
  <2>1. /\ Op(p)' = Op(p) /\ Call(p)' = Call(p)
        /\ Reserved(p)' <=> Reserved(p)
        /\ Calling(p)' <=> Calling(p)
        /\ request'[p] = request[p]
        /\ HoldsRow(p) /\ CallsOnce(p)
        /\ request[p].epoch \in Nat
    BY <1>1, HasShape DEF Op, Call, Reserved, Calling, PanelsInv, Shapes, RequestShape
  <2>2. Calling(p) => Reserved(p) /\ Op(p) \in Operations
    BY <2>1 DEF Calling, Reserved, CallsOnce
  <2>3. Reserved(p) => request[p].epoch <= Epoch /\ request[p].epoch # Epoch'
    BY <1>2, <1>5, <2>1 DEF HoldsRow
  <2>4. \A op \in Operations : execution'[op].owner # p
    BY <1>1, <1>7
  <2>5. Calling(p) => past'[request[p].epoch + 1][Op(p)] = [state |-> "dispatching", owner |-> p]
    <3>1. CASE request[p].epoch = Epoch
      BY <3>1, <1>4, <1>5, <2>1, <2>2 DEF HoldsRow
    <3>2. CASE request[p].epoch # Epoch
      BY <3>2, <1>2, <1>5, <2>1, <2>2, <2>3 DEF HoldsRow
    <3> QED BY <3>1, <3>2
  <2>6. HoldsRow(p)'
    BY <1>2, <1>5, <2>1, <2>2, <2>3, <2>4, <2>5 DEF HoldsRow
  <2>7. CallsOnce(p)'
    BY <1>10, <2>1, <2>3 DEF CallsOnce, Reserved
  <2>8. Stores(p)'
    BY <1>1, <1>6, <2>1, <2>3 DEF Stores, RowsToKeep, Reserved
  <2> QED BY <2>6, <2>7, <2>8
<1>12. NoSharedCall'
  BY <1>1 DEF PanelsInv, NoSharedCall, Reserved, Call, Op
<1>13. CallsArePaid'
  <2>1. \A c \in calls : c.epoch <= Epoch' /\ c.epoch # Epoch'
    BY <1>2, <1>5 DEF PanelsInv, CallsArePaid, ShapeInv, CallRecord
  <2> QED BY <1>1, <2>1 DEF PanelsInv, CallsArePaid
<1>14. BudgetIsKept'
  BY <1>1, FS_EmptySet DEF BudgetIsKept, PaidOn
<1>15. RowsAreKept'
  BY <1>1, <1>6 DEF RowsAreKept, RowsToKeep
<1>16. CompletedResultIsReachable'
  BY <1>1, <1>7 DEF CompletedResultIsReachable
<1> QED BY <1>8, <1>9, <1>11, <1>12, <1>13, <1>14, <1>15, <1>16 DEF PanelsInv

-----------------------------------------------------------------------------
\* The invariant of every step.

LEMMA InitPanelsInv ==
    ASSUME Init
    PROVE  PanelsInv
<1>1. /\ NoRequest \in RequestShape /\ NoRequest.pc = "idle"
      /\ request = [p \in Panels |-> NoRequest]
      /\ \A p \in Panels : ~ Reserved(p) /\ ~ Calling(p)
  BY IdleShape DEF Init, Reserved, Calling
<1>2. /\ reset \in [pc : ResetPoints,
                    listed : SUBSET [plan : Plans, call : Operations \X Nat], done : Nat]
      /\ reset.pc = "idle" /\ reset.listed = {} /\ reset.done = 0
  BY DEF Init, NoReset, ResetPoints
<1>3. /\ NoRow \in Rows /\ NoRow.state = "none"
      /\ past \in Seq([Operations -> Rows]) /\ Epoch = 0
  BY DEF Init, NoRow, Rows, Epoch
<1>4. ShapeInv
  BY <1>1, <1>2, <1>3, StandaloneAssumption DEF ShapeInv, StandaloneTypeOK, Init, RequestShape
<1>5. EpochIsBounded
  BY <1>2, <1>3, StandaloneAssumption DEF EpochIsBounded, Disturbances, Init
<1>6. \A p \in Panels : HoldsRow(p) /\ CallsOnce(p) /\ Stores(p)
  BY <1>1 DEF HoldsRow, CallsOnce, Stores, Reserved, Calling
<1>7. NoSharedCall /\ CallsArePaid
  BY <1>1 DEF NoSharedCall, CallsArePaid, Init
<1>8. BudgetIsKept
  BY FS_EmptySet DEF BudgetIsKept, PaidOn, Init
<1>9. RowsAreKept
  BY <1>2 DEF RowsAreKept, RowsToKeep, Init
<1>10. CompletedResultIsReachable
  BY <1>3 DEF CompletedResultIsReachable, Init
<1> QED BY <1>4, <1>5, <1>6, <1>7, <1>8, <1>9, <1>10 DEF PanelsInv

LEMMA StutterKeepsInv ==
    ASSUME PanelsInv, UNCHANGED vars
    PROVE  PanelsInv'
<1>1. /\ UNCHANGED <<execution, budget, legacy, rows, metas, day, calls, past, excused, request>>
      /\ reset' = reset
  BY DEF vars
<1>2. Epoch' = Epoch /\ RowsToKeep' = RowsToKeep /\ \A call : Made(call)' <=> Made(call)
  BY <1>1 DEF Epoch, RowsToKeep, Made
<1>3. ShapeInv' /\ EpochIsBounded'
  BY <1>1, <1>2 DEF PanelsInv, ShapeInv, StandaloneTypeOK, EpochIsBounded, Disturbances
<1>4. \A p \in Panels : HoldsRow(p)' /\ CallsOnce(p)' /\ Stores(p)'
  BY <1>1, <1>2 DEF PanelsInv, HoldsRow, CallsOnce, Stores, Op, Call, Reserved, Calling
<1>5. NoSharedCall' /\ CallsArePaid' /\ BudgetIsKept'
  BY <1>1, <1>2 DEF PanelsInv, NoSharedCall, CallsArePaid, BudgetIsKept, PaidOn, LegacyOn,
     Reserved, Call, Op
<1>6. RowsAreKept' /\ CompletedResultIsReachable'
  BY <1>1, <1>2 DEF PanelsInv, RowsAreKept, CompletedResultIsReachable, Storing, Call
<1> QED BY <1>3, <1>4, <1>5, <1>6 DEF PanelsInv

LEMMA NextKeepsInv ==
    ASSUME PanelsInv, [Next]_vars
    PROVE  PanelsInv'
<1>1. ASSUME NEW p \in Panels, Pipeline(p)
      PROVE  PanelsInv'
  BY <1>1, ExecuteKeepsInv, FindRowKeepsInv, ReadMetaKeepsInv, NotReadyKeepsInv, ReserveKeepsInv,
     SendKeepsInv, ProviderFailsKeepsInv, ProviderAnswersKeepsInv, StoreResultKeepsInv DEF Pipeline
<1> QED BY <1>1, PrepareKeepsInv, ClosePanelKeepsInv, NextDayKeepsInv, StartResetKeepsInv,
           AssertKeepsInv, WipeKeepsInv, DeleteJobKeepsInv, ClearCacheKeepsInv, StutterKeepsInv DEF Next

THEOREM PanelsInvariant == Spec => []PanelsInv
<1>1. Init => PanelsInv
  BY InitPanelsInv
<1>2. PanelsInv /\ [Next]_vars => PanelsInv'
  BY NextKeepsInv
<1> QED BY <1>1, <1>2, PTL DEF Spec

-----------------------------------------------------------------------------
\* What the user allowed, reviewed and paid for.

\* The calls of a day since the last wipe are among the rows paid for that day.
LEMMA SpentWasPaid ==
    ASSUME PanelsInv, NEW d \in 1 .. MaxDisturbances + 1, SpentOn(d) # {}
    PROVE  /\ PaidOn(d) # {} /\ IsFiniteSet(PaidOn(d)) /\ Cardinality(PaidOn(d)) \in Nat
           /\ IsFiniteSet(SpentOn(d)) /\ Cardinality(SpentOn(d)) <= Cardinality(PaidOn(d))
           /\ Cardinality(SpentOn(d)) \in Nat
<1> DEFINE spent == SpentOn(d)
           paid == PaidOn(d)
           f == [c \in spent |-> <<c.op, c.day>>]
<1>1. \A c \in spent : <<c.op, c.day>> \in paid
  BY DEF PanelsInv, CallsArePaid, SpentOn, PaidOn
<1>2. \A c, e \in spent : c.op = e.op => c = e
  BY DEF PanelsInv, CallsArePaid, SpentOn
<1>3. IsFiniteSet(paid)
  BY FS_Subset DEF PanelsInv, BudgetIsKept, PaidOn
<1>4. spent # {}
  OBVIOUS
<1> HIDE DEF spent, paid
<1>5. f \in Injection(spent, paid)
  BY <1>1, <1>2 DEF Injection, IsInjective
<1>6. IsFiniteSet(spent) /\ Cardinality(spent) <= Cardinality(paid)
  BY <1>3, <1>5, FS_Injection DEF ExistsInjection
<1>7. Cardinality(spent) \in Nat /\ Cardinality(paid) \in Nat /\ paid # {}
  BY <1>1, <1>3, <1>4, <1>6, FS_CardinalityType
<1> QED BY <1>3, <1>6, <1>7 DEF spent, paid

LEMMA InvCeiling ==
    ASSUME PanelsInv
    PROVE  BudgetCeiling
<1> SUFFICES ASSUME NEW d \in 1 .. MaxDisturbances + 1, SpentOn(d) # {}
             PROVE  Cardinality(SpentOn(d)) + LegacyOn(d) <= Limit
  BY DEF BudgetCeiling, LegacyOn
<1>1. LegacyOn(d) \in Int /\ Limit \in Int
  BY StandaloneAssumption DEF PanelsInv, ShapeInv, StandaloneTypeOK, LegacyOn
<1>2. Cardinality(PaidOn(d)) + LegacyOn(d) <= Limit
  BY SpentWasPaid DEF PanelsInv, BudgetIsKept
<1> QED BY <1>1, <1>2, SpentWasPaid

LEMMA InvReviewed ==
    ASSUME PanelsInv
    PROVE  ResultIsForReviewedPlan
<1> SUFFICES ASSUME NEW p \in Panels, At(p, "done")
             PROVE  \E c \in calls : /\ request[p].call = <<c.op, c.epoch>>
                                     /\ PlanOf(c.op) = PlanOf(Op(p))
  BY DEF ResultIsForReviewedPlan
<1>1. Made(request[p].call) /\ PlanOf(request[p].call[1]) = PlanOf(Op(p))
  BY DEF At, PanelsInv, CallsOnce
<1> QED BY <1>1 DEF Made

\* The calls of a day stay within its limit, counting what an older version
\* spent, and a result shown for a plan was given to that very plan.
THEOREM WithinBudgetAndReviewed == Spec => []StandaloneOnRecord
<1>1. PanelsInv => StandaloneOnRecord
  BY InvCeiling, InvReviewed DEF StandaloneOnRecord, PanelsInv, ShapeInv
<1> QED BY <1>1, PanelsInvariant, PTL

\* A completed operation, which is never called again, has its result in the
\* cache or about to be there, unless the user gave the result up.
THEOREM CompletedStaysReachable == Spec => []CompletedResultIsReachable
<1>1. PanelsInv => CompletedResultIsReachable
  BY DEF PanelsInv
<1> QED BY <1>1, PanelsInvariant, PTL

-----------------------------------------------------------------------------
\* The panels implement SingleFlight.

\* The holder and the verdict of every operation after every wipe, and the
\* calls, as SingleFlight sees them.
Flights == Operations \X (0 .. MaxDisturbances)
RowAt(f) == TableAt(f[2])[f[1]]
Holder == [f \in Flights |-> HolderOf(RowAt(f))]
Verdict == [f \in Flights |-> VerdictOf(RowAt(f))]
Sends == {<<<<c.op, c.epoch>>, 1, c.panel>> : c \in calls}

Mapped == <<Holder, Verdict, Sends>>

LEMMA SameLedgerMapped ==
    ASSUME UNCHANGED <<execution, past, calls>>
    PROVE  UNCHANGED Mapped
BY DEF Mapped, Holder, Verdict, Sends, RowAt, TableAt, Epoch

LEMMA OneIsRewritten ==
    ASSUME NEW S, NEW x \in S, NEW y, NEW F, NEW G,
           F = [s \in S |-> F[s]], G = [s \in S |-> G[s]],
           G[x] = y, \A s \in S \ {x} : G[s] = F[s]
    PROVE  G = [F EXCEPT ![x] = y]
<1>1. \A s \in S : G[s] = IF s = x THEN y ELSE F[s]
  OBVIOUS
<1> QED BY <1>1

\* A step of the ledger moves the holder and the verdict of one operation.
LEMMA OneRowMapped ==
    ASSUME PanelsInv, past' = past, NEW op \in Operations,
           \A o \in Operations \ {op} : execution'[o] = execution[o],
           NEW f \in Flights, f = <<op, Epoch>>
    PROVE  /\ Holder[f] = HolderOf(execution[op])
           /\ Verdict[f] = VerdictOf(execution[op])
           /\ Holder' = [Holder EXCEPT ![f] = HolderOf(execution'[op])]
           /\ Verdict' = [Verdict EXCEPT ![f] = VerdictOf(execution'[op])]
<1>1. Epoch' = Epoch /\ Epoch \in Nat /\ f[1] = op /\ f[2] = Epoch
  BY HasShape DEF PanelsInv, ShapeInv, StandaloneTypeOK, Epoch
<1>2. RowAt(f) = execution[op] /\ RowAt(f)' = execution'[op]
  BY <1>1 DEF RowAt, TableAt
<1>3. ASSUME NEW g \in Flights, g # f
      PROVE  RowAt(g)' = RowAt(g)
  <2>1. g[1] \in Operations /\ g = <<g[1], g[2]>>
    BY DEF Flights
  <2>2. CASE g[2] = Epoch
    <3>1. g[1] # op
      BY <1>3, <2>1, <2>2
    <3>2. RowAt(g) = execution[g[1]] /\ RowAt(g)' = execution'[g[1]]
      BY <1>1, <2>2 DEF RowAt, TableAt
    <3> QED BY <2>1, <3>1, <3>2
  <2>3. CASE g[2] # Epoch
    BY <1>1, <2>3 DEF RowAt, TableAt
  <2> QED BY <2>2, <2>3
<1>4. /\ Holder[f] = HolderOf(execution[op]) /\ Verdict[f] = VerdictOf(execution[op])
      /\ Holder'[f] = HolderOf(execution'[op]) /\ Verdict'[f] = VerdictOf(execution'[op])
  BY <1>2 DEF Holder, Verdict, HolderOf, VerdictOf
<1>5. ASSUME NEW g \in Flights, g # f
      PROVE  Holder'[g] = Holder[g] /\ Verdict'[g] = Verdict[g]
  BY <1>3, <1>5 DEF Holder, Verdict, HolderOf, VerdictOf
<1>6. /\ Holder = [g \in Flights |-> Holder[g]] /\ Holder' = [g \in Flights |-> Holder'[g]]
      /\ Verdict = [g \in Flights |-> Verdict[g]] /\ Verdict' = [g \in Flights |-> Verdict'[g]]
  BY DEF Holder, Verdict
<1>7. /\ Holder' = [Holder EXCEPT ![f] = HolderOf(execution'[op])]
      /\ Verdict' = [Verdict EXCEPT ![f] = VerdictOf(execution'[op])]
  BY <1>4, <1>5, <1>6, OneIsRewritten
<1> QED BY <1>4, <1>7

\* The operation of a row of now.
LEMMA FlightOfNow ==
    ASSUME PanelsInv, NEW op \in Operations
    PROVE  \E f \in Flights : f = <<op, Epoch>>
<1>1. Epoch \in Nat /\ Epoch <= MaxDisturbances /\ MaxDisturbances \in Nat
  BY HasShape, StandaloneAssumption DEF PanelsInv, ShapeInv, StandaloneTypeOK, Epoch
<1>2. <<op, Epoch>> \in Flights
  BY <1>1 DEF Flights
<1> QED BY <1>2

LEMMA WipeMapped ==
    ASSUME PanelsInv, Wipe
    PROVE  UNCHANGED Mapped
<1> DEFINE table == [op \in Operations |-> [execution[op] EXCEPT !.owner = HolderOf(execution[op])]]
<1>1. /\ past' = Append(past, table) /\ calls' = calls
      /\ execution' = [op \in Operations |-> NoRow]
  BY DEF Wipe
<1>2. /\ execution \in [Operations -> Rows] /\ past \in Seq([Operations -> Rows])
      /\ Epoch = Len(past) /\ Epoch \in Nat /\ MaxDisturbances \in Nat
  BY HasShape, StandaloneAssumption DEF PanelsInv, ShapeInv, StandaloneTypeOK, Epoch
<1>3. table \in [Operations -> Rows]
  BY <1>2 DEF Rows, HolderOf
<1>4. \A op \in Operations : /\ HolderOf(table[op]) = HolderOf(execution[op])
                             /\ VerdictOf(table[op]) = VerdictOf(execution[op])
  BY <1>2 DEF Rows, HolderOf, VerdictOf
<1> HIDE DEF table
<1>5. /\ Epoch' = Epoch + 1 /\ past'[Epoch + 1] = table
      /\ \A i \in 1 .. Epoch : past'[i] = past[i]
  BY <1>1, <1>2, <1>3 DEF Epoch
<1>6. ASSUME NEW f \in Flights
      PROVE  HolderOf(RowAt(f))' = HolderOf(RowAt(f)) /\ VerdictOf(RowAt(f))' = VerdictOf(RowAt(f))
  <2>1. f[1] \in Operations /\ f[2] \in 0 .. MaxDisturbances
    BY DEF Flights
  <2>2. CASE f[2] < Epoch
    <3>1. TableAt(f[2])' = TableAt(f[2])
      BY <1>2, <1>5, <2>1, <2>2 DEF TableAt
    <3> QED BY <3>1 DEF RowAt, HolderOf, VerdictOf
  <2>3. CASE f[2] = Epoch
    <3>1. RowAt(f) = execution[f[1]] /\ RowAt(f)' = table[f[1]]
      BY <1>2, <1>5, <2>3 DEF RowAt, TableAt
    <3> QED BY <1>4, <2>1, <3>1 DEF HolderOf, VerdictOf
  <2>4. CASE f[2] > Epoch
    <3>1. TableAt(f[2])' = TableAt(f[2])
      BY <1>1, <1>2, <1>5, <2>1, <2>4 DEF TableAt
    <3> QED BY <3>1 DEF RowAt, HolderOf, VerdictOf
  <2> QED BY <1>2, <2>1, <2>2, <2>3, <2>4
<1> QED BY <1>1, <1>6 DEF Mapped, Holder, Verdict, Sends

LEMMA ReserveMapped ==
    ASSUME PanelsInv, NEW p \in Panels, Reserve(p)
    PROVE  Flight!Next \/ UNCHANGED Mapped
<1>1. CASE ~ MayReserve(Op(p))
  BY <1>1, SameLedgerMapped DEF Reserve, history
<1>2. CASE MayReserve(Op(p))
  <2>1. PICK op \in Operations : op = Op(p)
    BY DEF Reserve, At, PanelsInv, CallsOnce
  <2>2. PICK f \in Flights : f = <<op, Epoch>>
    BY FlightOfNow
  <2>3. /\ execution[op].state = "none"
        /\ execution \in [Operations -> Rows]
        /\ execution' = [execution EXCEPT ![op] = [state |-> "dispatching", owner |-> p]]
        /\ past' = past /\ calls' = calls
    BY <1>2, <2>1, HasShape DEF Reserve, MayReserve, PanelsInv, Shapes, history
  <2>4. /\ execution'[op] = [state |-> "dispatching", owner |-> p]
        /\ \A o \in Operations \ {op} : execution'[o] = execution[o]
    BY <2>3
  <2>5. /\ Holder[f] = HolderOf(execution[op])
        /\ Verdict[f] = VerdictOf(execution[op])
        /\ Holder' = [Holder EXCEPT ![f] = HolderOf(execution'[op])]
        /\ Verdict' = [Verdict EXCEPT ![f] = VerdictOf(execution'[op])]
    BY <2>2, <2>3, <2>4, OneRowMapped
  <2>6. /\ HolderOf(execution[op]) = NoPanel /\ VerdictOf(execution[op]) = "open"
        /\ HolderOf(execution'[op]) = p /\ VerdictOf(execution'[op]) = "open"
    BY <2>3, <2>4 DEF HolderOf, VerdictOf
  <2>7. Holder[f] = NoPanel /\ Verdict[f] = "open" /\ Holder' = [Holder EXCEPT ![f] = p]
    BY <2>5, <2>6
  <2>8. Verdict' = Verdict /\ Sends' = Sends
    BY <2>3, <2>5, <2>6 DEF Verdict, Sends
  <2>9. Flight!Acquire(f, p)
    BY <2>7, <2>8 DEF Flight!Acquire, Flight!Free, Holder, Verdict, Sends, RowAt, Flights
  <2> QED BY <2>9 DEF Flight!Next, Flights
<1> QED BY <1>1, <1>2

\* What a panel that waits for an answer is to SingleFlight.
LEMMA CallerMapped ==
    ASSUME PanelsInv, NEW p \in Panels, Calling(p)
    PROVE  /\ Call(p) \in Flights /\ Op(p) \in Operations
           /\ Holder[Call(p)] = p /\ Verdict[Call(p)] = "open"
           /\ p # NoPanel
<1>1. /\ Reserved(p) /\ HoldsRow(p) /\ Op(p) \in Operations /\ request[p].epoch \in Nat
      /\ request[p].epoch <= Epoch
      /\ Epoch <= MaxDisturbances /\ Epoch \in Nat /\ MaxDisturbances \in Nat
  BY CallerOwns, HasShape, StandaloneAssumption
     DEF PanelsInv, HoldsRow, Shapes, RequestShape, ShapeInv, StandaloneTypeOK
<1>2. Call(p) \in Flights /\ Call(p)[1] = Op(p) /\ Call(p)[2] = request[p].epoch
  BY <1>1 DEF Flights, Call, Op
<1>3. RowAt(Call(p)) = [state |-> "dispatching", owner |-> p]
  <2>1. CASE request[p].epoch = Epoch
    BY <1>1, <1>2, <2>1 DEF HoldsRow, RowAt, TableAt
  <2>2. CASE request[p].epoch # Epoch
    BY <1>1, <1>2, <2>2 DEF HoldsRow, RowAt, TableAt
  <2> QED BY <2>1, <2>2
<1>4. HolderOf(RowAt(Call(p))) = p /\ VerdictOf(RowAt(Call(p))) = "open"
  BY <1>3 DEF HolderOf, VerdictOf
<1> QED BY <1>1, <1>2, <1>4, StandaloneAssumption DEF Holder, Verdict

LEMMA SendMapped ==
    ASSUME PanelsInv, NEW p \in Panels, Send(p)
    PROVE  Flight!Next
<1>1. PICK f \in Flights : f = Call(p)
  BY CallerMapped DEF Send, At, Calling
<1> DEFINE send == <<f, 1, p>>
           call == [op |-> Op(p), epoch |-> request[p].epoch, panel |-> p, day |-> request[p].day]
<1>2. /\ Holder[f] = p /\ Verdict[f] = "open" /\ p # NoPanel
      /\ ~ Made(f)
  BY <1>1, CallerMapped DEF Send, At, Calling, PanelsInv, CallsOnce
<1>3. /\ calls' = calls \cup {call}
      /\ UNCHANGED <<execution, past>>
  BY DEF Send, ledger
<1>4. Sends' = Sends \cup {send}
  <2>1. <<<<call.op, call.epoch>>, 1, call.panel>> = send
    BY <1>1 DEF Call, Op
  <2> HIDE DEF call, send
  <2>2. Sends' = {<<<<c.op, c.epoch>>, 1, c.panel>> : c \in calls \cup {call}}
    BY <1>3 DEF Sends
  <2> QED BY <2>1, <2>2 DEF Sends
<1>5. \A d \in Sends : d[1] # f
  BY <1>2 DEF Sends, Made
<1>6. Holder' = Holder /\ Verdict' = Verdict
  BY <1>3 DEF Holder, Verdict, RowAt, TableAt, Epoch
<1>7. send[1] = f /\ send[2] = 1 /\ send[3] = Holder[f] /\ send \in Sends'
  BY <1>2, <1>4
<1> HIDE DEF send, call
<1>8. \E c \in Sends' : /\ Sends' = Sends \cup {c}
                        /\ c[1] = f /\ c[3] = Holder[f]
                        /\ \A d \in Sends : d[1] = f => d[2] # c[2]
  BY <1>4, <1>5, <1>7
<1>9. Flight!Call(f)
  BY <1>2, <1>6, <1>8, Zenon DEF Flight!Call, Holder, Verdict, Sends, RowAt, Flights
<1> QED BY <1>9 DEF Flight!Next, Flights

\* Settling a row is a verdict on its operation, unless the row was wiped.
LEMMA SettleMapped ==
    ASSUME PanelsInv, NEW p \in Panels, Calling(p),
           NEW state \in {"completed", "outcome_unknown"}, SettleRow(p, state),
           UNCHANGED <<past, calls>>
    PROVE  Flight!Next \/ UNCHANGED Mapped
<1>1. CASE ~ Owns(p)
  BY <1>1, SameLedgerMapped DEF SettleRow
<1>2. CASE Owns(p)
  <2> DEFINE v == IF state = "completed" THEN "result" ELSE "unknown"
  <2>1. PICK op \in Operations : op = Op(p)
    BY CallerOwns
  <2>2. PICK f \in Flights : f = <<op, Epoch>>
    BY FlightOfNow
  <2>3. /\ execution \in [Operations -> Rows]
        /\ execution[op] = [state |-> "dispatching", owner |-> p]
        /\ execution' = [execution EXCEPT ![op].state = state]
        /\ p # NoPanel
    BY <1>2, <2>1, CallerOwns, HasShape, StandaloneAssumption DEF PanelsInv, Shapes, SettleRow
  <2>4. /\ execution'[op] = [state |-> state, owner |-> p]
        /\ \A o \in Operations \ {op} : execution'[o] = execution[o]
    BY <2>3
  <2>5. /\ Holder[f] = HolderOf(execution[op])
        /\ Holder' = [Holder EXCEPT ![f] = HolderOf(execution'[op])]
        /\ Verdict' = [Verdict EXCEPT ![f] = VerdictOf(execution'[op])]
    BY <2>2, <2>4, OneRowMapped
  <2>6. /\ HolderOf(execution[op]) = p
        /\ HolderOf(execution'[op]) = NoPanel /\ VerdictOf(execution'[op]) = v
    BY <2>3, <2>4 DEF HolderOf, VerdictOf
  <2>7. /\ Holder[f] # NoPanel /\ v \in {"result", "failed", "unknown"}
        /\ Holder' = [Holder EXCEPT ![f] = NoPanel]
        /\ Verdict' = [Verdict EXCEPT ![f] = v]
    BY <2>3, <2>5, <2>6
  <2>8. Sends' = Sends
    BY DEF Sends
  <2> HIDE DEF v
  <2>9. Flight!Settle(f, v)
    BY <2>7, <2>8 DEF Flight!Settle, Holder, Verdict, Sends, RowAt, Flights
  <2> QED BY <2>7, <2>9 DEF Flight!Next, Flights
<1> QED BY <1>1, <1>2

\* Each panel's attempt is an acquisition, its call a call, its outcome a
\* verdict; a wipe starts operations of its own and gives none of the earlier up.
THEOREM PanelsAreSingleFlight == Spec => PanelsImplementSingleFlight
<1>1. Init => Flight!Init
  <2> SUFFICES ASSUME Init PROVE Flight!Init
    OBVIOUS
  <2>1. Epoch = 0 /\ execution = [op \in Operations |-> NoRow]
    BY DEF Init, Epoch
  <2>2. \A f \in Flights : RowAt(f) = NoRow
    BY <2>1 DEF RowAt, TableAt, Flights
  <2>3. HolderOf(NoRow) = NoPanel /\ VerdictOf(NoRow) = "open"
    BY DEF NoRow, HolderOf, VerdictOf
  <2>4. Sends = {}
    BY DEF Init, Sends
  <2> QED BY <2>2, <2>3, <2>4 DEF Flight!Init, RowAt, Flights, Sends
<1>2. PanelsInv /\ [Next]_vars => [Flight!Next]_(Flight!vars)
  <2>1. UNCHANGED Mapped => UNCHANGED Flight!vars
    BY DEF Flight!vars, Mapped, Holder, Verdict, Sends, RowAt, Flights
  <2> SUFFICES ASSUME PanelsInv, [Next]_vars PROVE Flight!Next \/ UNCHANGED Mapped
    BY <2>1
  <2>2. ASSUME UNCHANGED <<execution, past, calls>>
        PROVE  UNCHANGED Mapped
    BY <2>2, SameLedgerMapped
  <2>3. ASSUME NEW p \in Panels, ProviderFails(p) \/ ProviderAnswers(p)
        PROVE  Flight!Next \/ UNCHANGED Mapped
    <3>1. Calling(p) /\ UNCHANGED <<past, calls>>
      BY <2>3 DEF ProviderFails, ProviderAnswers, At, Calling, history
    <3> QED BY <2>3, <3>1, SettleMapped DEF ProviderFails, ProviderAnswers
  <2>4. ASSUME NEW p \in Panels,
               Prepare(p) \/ ClosePanel(p) \/ Execute(p) \/ FindRow(p) \/ ReadMeta(p)
                 \/ NotReady(p) \/ StoreResult(p)
        PROVE  UNCHANGED Mapped
    BY <2>2, <2>4 DEF Prepare, ClosePanel, Execute, FindRow, ReadMeta, NotReady, StoreResult,
       ledger, history
  <2>5. ASSUME NEW p \in Panels, Reserve(p) \/ Send(p)
        PROVE  Flight!Next \/ UNCHANGED Mapped
    BY <2>5, ReserveMapped, SendMapped
  <2>6. CASE NextDay \/ StartReset \/ AssertNoUnsafeExecutions \/ DeleteJob \/ ClearCache
    BY <2>2, <2>6 DEF NextDay, StartReset, AssertNoUnsafeExecutions, DeleteJob, ClearCache,
       ledger, history
  <2>7. CASE Wipe
    BY <2>7, WipeMapped
  <2>8. CASE UNCHANGED vars
    BY <2>2, <2>8 DEF vars
  <2> QED BY <2>3, <2>4, <2>5, <2>6, <2>7, <2>8 DEF Next, Pipeline
<1> QED BY <1>1, <1>2, PanelsInvariant, PTL DEF Spec, PanelsImplementSingleFlight, Flight!Spec

-----------------------------------------------------------------------------
(* The provider request.                                                   *)

PlanSpec == PlanInit /\ [][PlanNext]_planVars

\* The plan of a request under the settings it was reviewed under.
InputUnder(kind, source, settings) == BuildInput(kind, source, settings, NoForce)
PlanUnder(kind, source, settings) ==
    BuildProviderRequestPlan(kind, InputUnder(kind, source, settings), settings)

\* A request that is shown or sent is one of a kind, and the preview and the messages
\* were built under one setting of the privacy, which the hash covers.
PlanInv ==
    /\ privacy \in PrivacySettings
    /\ review.stage \in {"shown", "sent"} =>
          LET settings == review.plan[2] IN
          /\ settings \in PrivacySettings /\ review.kind \in Kinds
          /\ review.shown = Preview(review.kind, InputUnder(review.kind, review.source, settings))
          /\ review.stage = "sent" =>
                review.sent = PlanUnder(review.kind, review.source, settings)

\* What a pattern is replaced by is no pattern, and an empty field stays empty.
LEMMA RedactedValue ==
    ASSUME NEW c, NEW settings \in PrivacySettings
    PROVE  /\ RedactProviderValue(c, settings) = {} <=> c = {}
           /\ RedactProviderValue(c, settings) \cap {"link", "token"} = {}
           /\ settings.contacts =>
                 RedactProviderValue(c, settings) \cap {"email", "phone"} = {}
BY DEF RedactProviderValue, RedactBase, RedactContacts, Redacted, PrivacySettings

\* What a message says of a field: nothing without permission, else its content redacted
\* twice.
Permitted(f, settings) ==
    /\ f = "description" => settings.description /\ ~ settings.strict
    /\ f = "highlights" => settings.highlights /\ ~ settings.strict

Raw(kind, source, f) ==
    IF kind = "cover_letter" /\ f = "topRequirements" THEN DeriveTopRequirements(source)
    ELSE Field(source, f)

FieldsOf(kind) == IF kind = "vacancy_analysis" THEN AnalysisFields ELSE LetterFields

Sendable(kind, source, settings) ==
    {f \in FieldsOf(kind) : Permitted(f, settings) /\ Raw(kind, source, f) # {}}

LEMMA InputOfPlan ==
    ASSUME NEW kind \in Kinds, NEW source, NEW settings \in PrivacySettings
    PROVE  InputUnder(kind, source, settings) =
              [f \in FieldsOf(kind) |->
                  IF Permitted(f, settings) THEN RedactProviderValue(Raw(kind, source, f), settings)
                  ELSE {}]
<1>1. CASE kind = "vacancy_analysis"
  BY <1>1 DEF InputUnder, BuildInput, BuildVacancyAnalysisInput, FieldsOf, Permitted, Raw,
     IncludesDescription, IncludesHighlights, NoForce, PrivacySettings
<1>2. CASE kind = "cover_letter"
  BY <1>2 DEF InputUnder, BuildInput, BuildCoverLetterInput, FieldsOf, Permitted, Raw,
     IncludesHighlights, NoForce, PrivacySettings, LetterFields
<1> QED BY <1>1, <1>2 DEF Kinds

\* The messages: the fields of the input that are not empty, redacted once more.
LEMMA MessagesOfPlan ==
    ASSUME NEW kind \in Kinds, NEW source, NEW settings \in PrivacySettings
    PROVE  /\ DOMAIN PlanUnder(kind, source, settings) = Sendable(kind, source, settings)
           /\ \A f \in Sendable(kind, source, settings) :
                 \E c : PlanUnder(kind, source, settings)[f] = RedactProviderValue(c, settings)
<1> DEFINE input == InputUnder(kind, source, settings)
           safe == ApplyPolicyToInput(input, settings)
           plan == PlanUnder(kind, source, settings)
<1>1. input = [f \in FieldsOf(kind) |->
                  IF Permitted(f, settings) THEN RedactProviderValue(Raw(kind, source, f), settings)
                  ELSE {}]
  BY InputOfPlan
<1>2. plan = [f \in {g \in FieldsOf(kind) : safe[g] # {}} |-> safe[f]]
  BY DEF PlanUnder, BuildProviderRequestPlan, AnalysisUserPrompt, CoverLetterUserPrompt, FieldsOf, Kinds
<1> HIDE DEF input, plan
<1>3. safe = [f \in FieldsOf(kind) |->
                 IF Permitted(f, settings) THEN RedactProviderValue(input[f], settings) ELSE {}]
  BY <1>1 DEF ApplyPolicyToInput, Permitted, AllowsDescription, AllowsResume
<1> HIDE DEF safe
<1>4. ASSUME NEW f \in FieldsOf(kind)
      PROVE  safe[f] # {} <=> Permitted(f, settings) /\ Raw(kind, source, f) # {}
  BY <1>1, <1>3, RedactedValue
<1>5. \A f \in DOMAIN plan : plan[f] = RedactProviderValue(input[f], settings)
  BY <1>2, <1>3
<1>6. DOMAIN plan = Sendable(kind, source, settings)
  BY <1>2, <1>4 DEF Sendable
<1> QED BY <1>5, <1>6 DEF plan

\* The preview: every field, those that may be left out only when they hold something.
LEMMA ShownOfPlan ==
    ASSUME NEW kind \in Kinds, NEW source, NEW settings \in PrivacySettings
    PROVE  {f \in Preview(kind, InputUnder(kind, source, settings)) :
              f = "topRequirements" \/ Field(source, f) # {}} = Sendable(kind, source, settings)
<1> DEFINE input == InputUnder(kind, source, settings)
<1>1. ASSUME NEW f \in FieldsOf(kind)
      PROVE  input[f] # {} <=> Permitted(f, settings) /\ Raw(kind, source, f) # {}
  BY InputOfPlan, RedactedValue
<1> HIDE DEF input
<1>2. CASE kind = "vacancy_analysis"
  BY <1>1, <1>2 DEF Preview, VacancyAnalysisPreview, FieldsOf, AnalysisFields, Permitted, Raw, input,
     Sendable
<1>3. CASE kind = "cover_letter"
  BY <1>1, <1>3 DEF Preview, CoverLetterPreview, FieldsOf, LetterFields, Permitted, Raw,
     DeriveTopRequirements, input, Sendable
<1> QED BY <1>2, <1>3 DEF Kinds

\* The invariant says what the property does.
LEMMA PlanInvImplies == PlanInv => OnlyReviewedIsSent
<1> SUFFICES ASSUME PlanInv, review.stage = "sent" PROVE OnlyReviewedIsSent
  BY DEF OnlyReviewedIsSent
<1> DEFINE settings == review.plan[2]
<1>1. PICK kind, source, given : kind = review.kind /\ source = review.source /\ given = settings
  OBVIOUS
<1>2. /\ kind \in Kinds /\ given \in PrivacySettings
      /\ review.shown = Preview(kind, InputUnder(kind, source, given))
      /\ review.sent = PlanUnder(kind, source, given)
  BY <1>1 DEF PlanInv
<1>3. /\ DOMAIN review.sent = {f \in review.shown : f = "topRequirements" \/ Field(source, f) # {}}
      /\ DOMAIN review.sent = Sendable(kind, source, given)
      /\ \A f \in DOMAIN review.sent : \E c : review.sent[f] = RedactProviderValue(c, given)
  BY <1>2, MessagesOfPlan, ShownOfPlan
<1>4. given.strict => DOMAIN review.sent \cap {"description", "highlights"} = {}
  BY <1>3 DEF Permitted, Sendable
<1>5. \A f \in DOMAIN review.sent :
         review.sent[f] \cap ({"link", "token"} \cup
             (IF given.contacts THEN {"email", "phone"} ELSE {})) = {}
  BY <1>2, <1>3, RedactedValue
<1> QED BY <1>1, <1>3, <1>4, <1>5 DEF OnlyReviewedIsSent

\* Only the fields the preview showed are sent, redacted as the settings say.
THEOREM ReviewedIsSent == PlanSpec => []OnlyReviewedIsSent
<1>1. PlanInit => PlanInv
  BY DEF PlanInit, PlanInv, NoReview
<1>2. PlanInv /\ [PlanNext]_planVars => PlanInv'
  <2> SUFFICES ASSUME PlanInv, [PlanNext]_planVars PROVE PlanInv'
    OBVIOUS
  <2>1. CASE ReviewRequest
    BY <2>1 DEF PlanInv, ReviewRequest, NoReview, ProviderPlanHash, InputUnder
  <2>2. CASE ClosePreview
    BY <2>2 DEF PlanInv, ClosePreview, NoReview
  <2>3. CASE ChangePrivacy
    BY <2>3 DEF PlanInv, ChangePrivacy, PrivacySettings
  <2>4. CASE SendRequest
    BY <2>4 DEF PlanInv, SendRequest, ProviderPlanHash, Plan, PlanUnder, InputUnder
  <2>5. CASE UNCHANGED planVars
    BY <2>5 DEF PlanInv, planVars
  <2> QED BY <2>1, <2>2, <2>3, <2>4, <2>5 DEF PlanNext
<1> QED BY <1>1, <1>2, PlanInvImplies, PTL DEF PlanSpec

-----------------------------------------------------------------------------
(* The answer to it.                                                       *)

OutputSpec == OutputInit /\ [][OutputNext]_outputVars

\* A half-up rounding of 45 m / n between two bounds on m / n, in percent.
LEMMA Ratio45Bounds ==
    ASSUME NEW t \in Nat, t > 0, NEW m \in 0..t
    PROVE  /\ Ratio45(m, t) \in 0..45
           /\ 100 * m >= 70 * t => Ratio45(m, t) >= 32
           /\ 100 * m >= 35 * t => Ratio45(m, t) >= 16
           /\ 100 * m < 70 * t => Ratio45(m, t) <= 31
           /\ 100 * m < 35 * t => Ratio45(m, t) <= 16
<1> DEFINE q == (90 * m + t) \div (2 * t)
<1>1. Ratio45(m, t) = q
  BY DEF Ratio45
<1>2. q \in Int /\ 2 * t * q <= 90 * m + t /\ 90 * m + t < 2 * t * (q + 1)
  <2>1. 90 * m + t \in Nat /\ 2 * t \in Nat /\ 2 * t > 0
    OBVIOUS
  <2>2. \A a, b \in Nat : b > 0 => /\ a \div b \in Int /\ b * (a \div b) <= a
                                   /\ a < b * ((a \div b) + 1)
    OBVIOUS
  <2> QED BY <2>1, <2>2
<1> HIDE DEF q
<1>3. \A k \in Int : q >= k => t * q >= t * k
  BY <1>2
<1>4. \A k \in Int : q <= k => t * (q + 1) <= t * (k + 1)
  BY <1>2
<1>5. 2 * t * q = 2 * (t * q) /\ 2 * t * (q + 1) = 2 * (t * (q + 1))
  BY <1>2
<1>6. t * q \in Int /\ t * (q + 1) \in Int
  BY <1>2
<1>7. q >= 0
  <2>1. SUFFICES ASSUME q <= -1 PROVE FALSE
    BY <1>2
  <2> QED BY <1>2, <1>4, <1>5, <1>6, <2>1
<1>8. q <= 45
  <2>1. SUFFICES ASSUME q >= 46 PROVE FALSE
    BY <1>2
  <2> QED BY <1>2, <1>3, <1>5, <1>6, <2>1
<1>9. 100 * m >= 70 * t => q >= 32
  <2>1. SUFFICES ASSUME 100 * m >= 70 * t, q <= 31 PROVE FALSE
    BY <1>2
  <2> QED BY <1>2, <1>4, <1>5, <1>6, <2>1
<1>10. 100 * m >= 35 * t => q >= 16
  <2>1. SUFFICES ASSUME 100 * m >= 35 * t, q <= 15 PROVE FALSE
    BY <1>2
  <2> QED BY <1>2, <1>4, <1>5, <1>6, <2>1
<1>11. 100 * m < 70 * t => q <= 31
  <2>1. SUFFICES ASSUME 100 * m < 70 * t, q >= 32 PROVE FALSE
    BY <1>2
  <2> QED BY <1>2, <1>3, <1>5, <1>6, <2>1
<1>12. 100 * m < 35 * t => q <= 16
  <2>1. SUFFICES ASSUME 100 * m < 35 * t, q >= 17 PROVE FALSE
    BY <1>2
  <2> QED BY <1>2, <1>3, <1>5, <1>6, <2>1
<1> QED BY <1>1, <1>2, <1>7, <1>8, <1>9, <1>10, <1>11, <1>12

Band(recommendation) == CASE recommendation = "apply"    -> 77..90
                          [] recommendation = "consider" -> 46..70
                          [] OTHER                       -> 10..21

\* The three verdicts of the mock keep to bands of scores that do not meet.
LEMMA MockKeepsToBands ==
    ASSUME NEW t \in Nat, NEW m \in 0..t, NEW strict \in BOOLEAN
    PROVE  /\ MockAnalyze(m, t, strict).recommendation \in Recommendations
           /\ MockAnalyze(m, t, strict).fitScore \in Band(MockAnalyze(m, t, strict).recommendation)
           /\ MockAnalyze(m, t, strict).fitScore \in 0..100
<1> DEFINE r == Ratio45(m, t)
<1>1. CASE t = 0
  BY <1>1 DEF MockAnalyze, Ratio45, ReachesPercent, AtMost, AtLeast, Band, Recommendations
<1>2. CASE t > 0
  <2>1. /\ r \in 0..45 /\ (100 * m >= 70 * t => r >= 32) /\ (100 * m >= 35 * t => r >= 16)
        /\ (100 * m < 70 * t => r <= 31) /\ (100 * m < 35 * t => r <= 16)
    BY <1>2, Ratio45Bounds
  <2> HIDE DEF r
  <2>2. CASE 100 * m >= 70 * t
    BY <1>2, <2>1, <2>2 DEF MockAnalyze, ReachesPercent, AtMost, AtLeast, Band, Recommendations, r
  <2>3. CASE 100 * m < 70 * t /\ 100 * m >= 35 * t
    BY <1>2, <2>1, <2>3 DEF MockAnalyze, ReachesPercent, AtMost, AtLeast, Band, Recommendations, r
  <2>4. CASE 100 * m < 70 * t /\ 100 * m < 35 * t
    BY <1>2, <2>1, <2>4 DEF MockAnalyze, ReachesPercent, AtMost, AtLeast, Band, Recommendations, r
  <2> QED BY <2>2, <2>3, <2>4
<1> QED BY <1>1, <1>2

\* An answer that was in order is shown with the score, the verdict and the risks
\* it gave.
LEMMA ValidAnswerIsShown ==
    ASSUME NEW raw \in Answers, Valid(raw)
    PROVE  LET fit == raw.answer["fitScore"]
               verdict == raw.answer["recommendation"]
               result == NormalizeAnalysisResult(AnalyzeVacancy(raw)) IN
           /\ raw.json = "object" /\ ReadsAsNumber(fit)
           /\ verdict.type = "text" /\ result.recommendation = verdict.value
           /\ result.fitScore = Reading(fit) /\ Reading(fit) \in 0..100
           /\ RisksAsNamed(raw.answer["riskFlags"].value, result.riskFlags)
<1> DEFINE fit == raw.answer["fitScore"]
           verdict == raw.answer["recommendation"]
           risks == raw.answer["riskFlags"]
           analysis == AnalyzeVacancy(raw)
           result == NormalizeAnalysisResult(analysis)
<1>1. /\ raw.json = "object" /\ CoerceNumber(fit).ok /\ CoerceRecommendation(verdict).ok
      /\ CoerceRiskFlags(risks).ok
  BY DEF Valid, Parses, Coerced, AnswerFields
<1>2. /\ DOMAIN analysis = AnswerFields
      /\ analysis.fitScore = CoerceNumber(fit).value
      /\ analysis.recommendation = CoerceRecommendation(verdict).value
      /\ analysis.riskFlags = CoerceRiskFlags(risks).value
  BY DEF AnalyzeVacancy, Coerced, AnswerFields
<1>3. /\ ReadsAsNumber(fit) /\ Reading(fit) \in 0..100
      /\ CoerceNumber(fit).value = Reading(fit)
  <2>1. ReadsAsNumber(fit)
    BY <1>1 DEF CoerceNumber, Wrong
  <2>2. Reading(fit) \in Int
    BY <2>1, AnswersAssumption DEF ReadsAsNumber, Reading
  <2> HIDE DEF fit
  <2>3. ~ Reading(fit) < 0 /\ ~ Reading(fit) > 100
    BY <1>1, <2>1, <2>2 DEF CoerceNumber, Wrong
  <2> QED BY <2>1, <2>2, <2>3 DEF CoerceNumber, Fine
<1>4. /\ verdict.type = "text" /\ verdict.value \in Recommendations
      /\ CoerceRecommendation(verdict).value = verdict.value
  BY <1>1 DEF CoerceRecommendation, Fine, Wrong
<1>5. analysis.riskFlags = {[code |-> CodeOf(item), severity |-> CoerceSeverity(item.severity)] :
                              item \in risks.value}
  BY <1>1, <1>2 DEF CoerceRiskFlags, Fine, Wrong
<1> HIDE DEF analysis, fit, verdict, risks
<1>6. /\ result.fitScore = Reading(fit) /\ result.recommendation = verdict.value
      /\ result.riskFlags = {flag \in analysis.riskFlags : KnownFlag(flag)}
  BY <1>2, <1>3, <1>4 DEF NormalizeAnalysisResult, AnswerFields
<1>7. RisksAsNamed(risks.value, result.riskFlags)
  <2>1. \A item \in risks.value :
           CoerceSeverity(item.severity) \in Severities
           /\ CoerceSeverity(item.severity) \in {item.severity, "info"}
    BY DEF CoerceSeverity, Severities
  <2>2. ASSUME NEW item \in risks.value, CodeOf(item) \in RiskCodes
        PROVE  \E flag \in result.riskFlags : flag.code = CodeOf(item)
    <3> DEFINE flag == [code |-> CodeOf(item), severity |-> CoerceSeverity(item.severity)]
    <3>1. flag \in analysis.riskFlags /\ KnownFlag(flag) /\ flag.code = CodeOf(item)
      BY <1>5, <2>1, <2>2 DEF KnownFlag
    <3> QED BY <1>6, <3>1
  <2>3. ASSUME NEW flag \in result.riskFlags
        PROVE  \E item \in risks.value :
                  CodeOf(item) = flag.code /\ flag.severity \in {item.severity, "info"}
    <3>1. PICK item \in risks.value :
             flag = [code |-> CodeOf(item), severity |-> CoerceSeverity(item.severity)]
      BY <1>5, <1>6, <2>3
    <3>2. flag.code = CodeOf(item) /\ flag.severity = CoerceSeverity(item.severity)
      BY <3>1
    <3> QED BY <2>1, <3>2
  <2> QED BY <2>2, <2>3 DEF RisksAsNamed
<1> QED BY <1>1, <1>3, <1>4, <1>6, <1>7 DEF analysis, fit, verdict, risks

\* A field that is given the value it has.
LEMMA SameValue ==
    ASSUME NEW S, NEW T, NEW x \in [S -> T], NEW f \in S
    PROVE  [x EXCEPT ![f] = x[f]] = x
OBVIOUS

\* The fallback is in order itself.
LEMMA FallbackStays == NormalizeAnalysisResult(FallbackAnalysis) = FallbackAnalysis
<1> DEFINE flags == FallbackAnalysis.riskFlags
           T == {FallbackAnalysis[f] : f \in AnswerFields}
<1>1. {flag \in flags : KnownFlag(flag)} = flags
  <2>1. flags = {[code |-> "low_signal", severity |-> "info"]}
    BY DEF FallbackAnalysis
  <2> QED BY <2>1 DEF KnownFlag, RiskCodes, Severities
<1>2. FallbackAnalysis \in [AnswerFields -> T]
  BY DEF FallbackAnalysis, AnswerFields
<1>3. /\ FallbackAnalysis.fitScore = 0 /\ FallbackAnalysis.recommendation \in Recommendations
      /\ FallbackAnalysis.confidence \in Confidences
  BY DEF FallbackAnalysis, Recommendations, Confidences
<1>4. PICK x, S : x = FallbackAnalysis /\ S = T
  OBVIOUS
<1>5. /\ x \in [AnswerFields -> S] /\ {flag \in x.riskFlags : KnownFlag(flag)} = x.riskFlags
      /\ x.fitScore = 0 /\ x.recommendation \in Recommendations /\ x.confidence \in Confidences
  BY <1>1, <1>2, <1>3, <1>4
<1>6. /\ [x EXCEPT !.fitScore = x.fitScore] = x
      /\ [x EXCEPT !.recommendation = x.recommendation] = x
      /\ [x EXCEPT !.confidence = x.confidence] = x
      /\ [x EXCEPT !.riskFlags = x.riskFlags] = x
  BY <1>5, SameValue DEF AnswerFields
<1>7. NormalizeAnalysisResult(x) = x
  <2>1. /\ (IF x.fitScore < 0 THEN 0 ELSE IF x.fitScore > 100 THEN 100 ELSE x.fitScore) = x.fitScore
        /\ (IF x.recommendation \in Recommendations THEN x.recommendation ELSE "consider")
              = x.recommendation
        /\ (IF x.confidence \in Confidences THEN x.confidence ELSE "low") = x.confidence
    BY <1>5
  <2>2. NormalizeAnalysisResult(x) =
          [[[[x EXCEPT !.fitScore = x.fitScore] EXCEPT !.recommendation = x.recommendation]
              EXCEPT !.confidence = x.confidence] EXCEPT !.riskFlags = x.riskFlags]
    BY <1>5, <1>6, <2>1 DEF NormalizeAnalysisResult
  <2> QED BY <1>6, <2>2
<1> QED BY <1>4, <1>7
\* What is shown is the fallback or the answer as it reads.
THEOREM AnswersAreShownOrReplaced == OutputSpec => []ShownIsAnswerOrFallback
<1>1. OutputInit => ShownIsAnswerOrFallback
  BY DEF OutputInit, ShownIsAnswerOrFallback
<1>2. ASSUME ShownIsAnswerOrFallback, [OutputNext]_outputVars
      PROVE  ShownIsAnswerOrFallback'
  <2>1. CASE ReceiveAnswer
    <3>1. PICK raw \in Answers : /\ answered' = raw
                                 /\ shown' = NormalizeAnalysisResult(AnalyzeVacancy(raw))
      BY <2>1 DEF ReceiveAnswer
    <3>2. CASE Valid(raw)
      BY <3>1, <3>2, ValidAnswerIsShown DEF ShownIsAnswerOrFallback
    <3>3. CASE ~ Valid(raw)
      BY <3>1, <3>3, FallbackStays DEF AnalyzeVacancy, ShownIsAnswerOrFallback
    <3> QED BY <3>2, <3>3
  <2>2. CASE ReceiveMockAnswer
    <3>1. PICK total \in 0..MaxSkills, strict \in BOOLEAN : \E m \in 0..total :
             /\ answered' = [json |-> "mock", answer |-> <<m, total>>]
             /\ shown' = NormalizeAnalysisResult(
                    [FallbackAnalysis EXCEPT
                        !.fitScore = MockAnalyze(m, total, strict).fitScore,
                        !.recommendation = MockAnalyze(m, total, strict).recommendation])
      BY <2>2 DEF ReceiveMockAnswer
    <3>2. PICK m \in 0..total :
             /\ answered' = [json |-> "mock", answer |-> <<m, total>>]
             /\ shown' = NormalizeAnalysisResult(
                    [FallbackAnalysis EXCEPT
                        !.fitScore = MockAnalyze(m, total, strict).fitScore,
                        !.recommendation = MockAnalyze(m, total, strict).recommendation])
      BY <3>1
    <3>3. total \in Nat
      BY AnswersAssumption
    <3> DEFINE mock == MockAnalyze(m, total, strict)
    <3>4. /\ mock.recommendation \in Recommendations /\ mock.fitScore \in 0..100
          /\ mock.fitScore \in Band(mock.recommendation)
      BY <3>3, MockKeepsToBands
    <3>5. shown' = NormalizeAnalysisResult([FallbackAnalysis EXCEPT !.fitScore = mock.fitScore,
                                               !.recommendation = mock.recommendation])
      BY <3>2
    <3> HIDE DEF mock
    <3>6. shown'.fitScore = mock.fitScore /\ shown'.recommendation = mock.recommendation
      BY <3>4, <3>5 DEF NormalizeAnalysisResult, FallbackAnalysis
    <3>7. answered'.json = "mock"
      BY <3>2
    <3> QED BY <3>4, <3>6, <3>7 DEF ShownIsAnswerOrFallback, Band
  <2>3. CASE UNCHANGED outputVars
    BY <2>3, <1>2 DEF ShownIsAnswerOrFallback, outputVars
  <2> QED BY <1>2, <2>1, <2>2, <2>3 DEF OutputNext
<1> QED BY <1>1, <1>2, PTL DEF OutputSpec
=============================================================================
