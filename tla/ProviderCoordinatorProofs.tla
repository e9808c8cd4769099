----------------------- MODULE ProviderCoordinatorProofs -----------------------
(***************************************************************************)
(* Proofs about the coordinator's tables, for any sets of operations,      *)
(* callers and limits and any number of days.                              *)
(***************************************************************************)
EXTENDS ProviderCoordinator, FiniteSetTheorems, TLAPS

-----------------------------------------------------------------------------
\* Typing.

LEMMA InitTyped == CoordinatorInit => CoordinatorTypeOK
BY CoordinatorAssumptions
   DEF CoordinatorInit, CoordinatorTypeOK, Execution, Claimable, InFlight, Settled

\* Every transaction keeps the rows of both tables in their declared shape.
LEMMA TransactionTyped ==
    ASSUME CoordinatorTypeOK, NEW op \in Operations, NEW r \in Requests, Transaction(op, r)
    PROVE  CoordinatorTypeOK'
<1> USE DEF CoordinatorTypeOK, Execution, Attempt, InFlight, Claimable, Settled, NextNumber
<1>1. CASE ClaimOperation(op, r)
  BY <1>1 DEF ClaimOperation
<1>2. ASSUME NEW day \in Days, NEW limit \in Limits, ReserveAndMarkDispatching(op, r, day, limit)
      PROVE  CoordinatorTypeOK'
  <2>1. execution[op].attempt_count \in Nat /\ NextNumber(op) \in Nat \ {0}
    OBVIOUS
  <2>2. [op |-> op, number |-> NextNumber(op), day |-> day, state |-> "consumed"] \in Attempt
    BY <2>1
  <2>3. attempts' \subseteq Attempt /\ minted' \subseteq Requests
    BY <1>2, <2>2 DEF ReserveAndMarkDispatching, RecordReservation
  <2>4. execution' \in [Operations -> Execution]
    BY <1>2, <2>1 DEF ReserveAndMarkDispatching, RecordReservation
  <2> QED BY <2>3, <2>4
<1>3. ASSUME NEW day \in Days, NEW limit \in Limits, DenyBudget(op, r, day, limit)
      PROVE  CoordinatorTypeOK'
  BY <1>3 DEF DenyBudget
<1>4. CASE ReleaseBeforeDispatch(op, r)
  <2>1. attempts' \subseteq Attempt
    BY <1>4 DEF ReleaseBeforeDispatch
  <2>2. execution' \in [Operations -> Execution] /\ minted' \subseteq Requests
    BY <1>4 DEF ReleaseBeforeDispatch
  <2> QED BY <2>1, <2>2
<1>5. CASE MarkRepairing(op, r)
  BY <1>5 DEF MarkRepairing
<1>6. ASSUME NEW run \in 1 .. execution[op].attempt_count, NEW success \in BOOLEAN,
             Finish(op, r, run, success)
      PROVE  CoordinatorTypeOK'
  <2> DEFINE state == IF success THEN "completed" ELSE "failed"
             row == [execution[op] EXCEPT !.state = state, !.run = run]
  <2>1. run \in Nat /\ state \in InFlight \cup Claimable \cup Settled
    OBVIOUS
  <2>2. UNCHANGED <<attempts, minted>>
    BY <1>6 DEF Finish
  <2>3. execution' = [execution EXCEPT ![op].state = state, ![op].run = run]
    BY <1>6 DEF Finish
  <2> HIDE DEF state
  <2>4. row \in Execution
    BY <2>1
  <2>5. execution' = [execution EXCEPT ![op] = row]
    BY <2>3
  <2> HIDE DEF row, Execution
  <2>6. execution' \in [Operations -> Execution]
    BY <2>4, <2>5
  <2> QED BY <2>2, <2>6 DEF Execution
<1>7. CASE MarkOutcomeUnknown(op, r)
  BY <1>7 DEF MarkOutcomeUnknown
<1> QED BY <1>1, <1>2, <1>3, <1>4, <1>5, <1>6, <1>7 DEF Transaction

\* The two tables hold rows of their declared shape in every reachable state.
THEOREM CoordinatorTyped == CoordinatorSpec => []CoordinatorTypeOK
<1>1. CoordinatorTypeOK /\ [CoordinatorNext]_coordinatorVars => CoordinatorTypeOK'
  <2>1. CoordinatorTypeOK /\ CoordinatorNext => CoordinatorTypeOK'
    BY TransactionTyped DEF CoordinatorNext
  <2>2. CoordinatorTypeOK /\ UNCHANGED coordinatorVars => CoordinatorTypeOK'
    BY DEF CoordinatorTypeOK, coordinatorVars
  <2> QED BY <2>1, <2>2
<1> QED BY InitTyped, <1>1, PTL DEF CoordinatorSpec

\* The state each transaction leaves its row in.
LEMMA RowAfter ==
    ASSUME CoordinatorTypeOK, NEW op \in Operations, NEW r \in Requests
    PROVE  /\ \A day, limit : ReserveAndMarkDispatching(op, r, day, limit) =>
                                execution'[op].state = "dispatching" /\ execution'[op].owner = r
           /\ \A day, limit : DenyBudget(op, r, day, limit) =>
                                execution'[op].state = "budget_blocked"
           /\ ReleaseBeforeDispatch(op, r) => execution'[op].state = "failed_before_dispatch"
           /\ MarkRepairing(op, r) =>
                execution'[op].state = "repairing" /\ execution'[op].owner = r
           /\ \A run, success : Finish(op, r, run, success) =>
                                  execution'[op].state \in {"completed", "failed"}
           /\ MarkOutcomeUnknown(op, r) => execution'[op].state = "outcome_unknown"
<1> USE DEF CoordinatorTypeOK, Execution
<1>1. ASSUME NEW day, NEW limit, ReserveAndMarkDispatching(op, r, day, limit)
      PROVE  execution'[op].state = "dispatching" /\ execution'[op].owner = r
  BY <1>1 DEF ReserveAndMarkDispatching, MayReserve, RecordReservation
<1>2. ASSUME NEW day, NEW limit, DenyBudget(op, r, day, limit)
      PROVE  execution'[op].state = "budget_blocked"
  BY <1>2 DEF DenyBudget
<1>3. ReleaseBeforeDispatch(op, r) => execution'[op].state = "failed_before_dispatch"
  BY DEF ReleaseBeforeDispatch
<1>4. MarkRepairing(op, r) => execution'[op].state = "repairing" /\ execution'[op].owner = r
  BY DEF MarkRepairing
<1>5. ASSUME NEW run, NEW success, Finish(op, r, run, success)
      PROVE  execution'[op].state \in {"completed", "failed"}
  BY <1>5 DEF Finish
<1>6. MarkOutcomeUnknown(op, r) => execution'[op].state = "outcome_unknown"
  BY DEF MarkOutcomeUnknown
<1> QED BY <1>1, <1>2, <1>3, <1>4, <1>5, <1>6

\* attempt_count never falls.
LEMMA CountsNeverFall ==
    ASSUME CoordinatorTypeOK, NEW op \in Operations, NEW r \in Requests, Transaction(op, r),
           NEW o \in Operations
    PROVE  execution'[o].attempt_count >= execution[o].attempt_count
<1> DEFINE kept == execution'[o].attempt_count = execution[o].attempt_count
<1> USE DEF CoordinatorTypeOK, Execution
<1>1. CASE ClaimOperation(op, r) \/ ReleaseBeforeDispatch(op, r) \/ MarkRepairing(op, r)
            \/ MarkOutcomeUnknown(op, r)
  <2>1. kept
    BY <1>1 DEF ClaimOperation, ReleaseBeforeDispatch, MarkRepairing, MarkOutcomeUnknown
  <2> QED BY <2>1
<1>2. ASSUME NEW day \in Days, NEW limit \in Limits, ReserveAndMarkDispatching(op, r, day, limit)
      PROVE  execution'[o].attempt_count >= execution[o].attempt_count
  <2>1. kept \/ execution'[o].attempt_count = execution[o].attempt_count + 1
    BY <1>2 DEF ReserveAndMarkDispatching, RecordReservation
  <2> QED BY <2>1
<1>3. ASSUME NEW day \in Days, NEW limit \in Limits, DenyBudget(op, r, day, limit)
      PROVE  execution'[o].attempt_count >= execution[o].attempt_count
  <2>1. kept
    BY <1>3 DEF DenyBudget
  <2> QED BY <2>1
<1>4. ASSUME NEW run \in 1 .. execution[op].attempt_count, NEW success \in BOOLEAN,
             Finish(op, r, run, success)
      PROVE  execution'[o].attempt_count >= execution[o].attempt_count
  <2>1. kept
    BY <1>4 DEF Finish
  <2> QED BY <2>1
<1> QED BY <1>1, <1>2, <1>3, <1>4 DEF Transaction

-----------------------------------------------------------------------------
\* What a release does to the attempts.

\* What release_before_dispatch makes of one row.
Released(op, a) == IF a.op = op /\ IsNewest(a) THEN [a EXCEPT !.state = "released"] ELSE a

\* A release changes nothing but the state of rows of its own operation, and
\* never makes a row count that did not.
LEMMA ReleaseMapsAttempts ==
    ASSUME CoordinatorTypeOK, NEW op \in Operations, NEW r \in Requests,
           ReleaseBeforeDispatch(op, r)
    PROVE  /\ attempts' = {Released(op, a) : a \in attempts}
           /\ \A a \in attempts :
                /\ Released(op, a).op = a.op
                /\ Released(op, a).number = a.number
                /\ a.op # op => Released(op, a) = a
                /\ Released(op, a).state = "consumed" => Released(op, a) = a
<1>1. attempts' = {Released(op, a) : a \in attempts}
  BY DEF ReleaseBeforeDispatch, Released
<1>2. ASSUME NEW a \in attempts
      PROVE  /\ Released(op, a).op = a.op
             /\ Released(op, a).number = a.number
             /\ a.op # op => Released(op, a) = a
             /\ Released(op, a).state = "consumed" => Released(op, a) = a
  <2>1. a \in Attempt
    BY DEF CoordinatorTypeOK
  <2>2. a = [op |-> a.op, number |-> a.number, day |-> a.day, state |-> a.state]
    BY <2>1 DEF Attempt
  <2>3. CASE a.op = op /\ IsNewest(a)
    <3>1. Released(op, a) = [op |-> a.op, number |-> a.number, day |-> a.day, state |-> "released"]
      BY <2>1, <2>3 DEF Released, Attempt
    <3> QED BY <3>1, <2>3
  <2>4. CASE ~ (a.op = op /\ IsNewest(a))
    BY <2>4 DEF Released
  <2> QED BY <2>3, <2>4
<1> QED BY <1>1, <1>2

-----------------------------------------------------------------------------
\* Attempt numbers.

LEMMA InitNumbered == CoordinatorInit => AttemptsNumbered
BY DEF CoordinatorInit, AttemptsNumbered

LEMMA TransactionNumbered ==
    ASSUME CoordinatorTypeOK, AttemptsNumbered,
           NEW op \in Operations, NEW r \in Requests, Transaction(op, r)
    PROVE  AttemptsNumbered'
<1> DEFINE Count(o) == execution[o].attempt_count
<1>0. \A o \in Operations : Count(o) \in Nat
  BY DEF CoordinatorTypeOK, Execution
\* Every transaction but two leaves the attempts and the counts alone.
<1>1. ASSUME UNCHANGED attempts, \A o \in Operations : Count(o)' = Count(o)
      PROVE  AttemptsNumbered'
  BY <1>1 DEF AttemptsNumbered
<1>2. ASSUME NEW day \in Days, NEW limit \in Limits, ReserveAndMarkDispatching(op, r, day, limit)
      PROVE  AttemptsNumbered'
  <2> DEFINE new == [op |-> op, number |-> Count(op) + 1, day |-> day, state |-> "consumed"]
  <2>1. attempts' = attempts \cup {new}
    BY <1>2 DEF ReserveAndMarkDispatching, RecordReservation, NextNumber
  <2>2. Count(op)' = Count(op) + 1 /\ \A o \in Operations : o # op => Count(o)' = Count(o)
    BY <1>2 DEF ReserveAndMarkDispatching, RecordReservation, CoordinatorTypeOK, Execution
  <2>3. new.op = op /\ new.number = Count(op) + 1
    OBVIOUS
  <2>4. \A o \in Operations : \A a \in attempts : a.op = o => a.number \in 1 .. Count(o)
    BY DEF AttemptsNumbered
  <2> HIDE DEF new, Count
  <2>5. \A o \in Operations : \A a \in attempts' : a.op = o => a.number \in 1 .. Count(o)'
    BY <1>0, <2>1, <2>2, <2>3, <2>4
  <2>6. \A o \in Operations : \A n \in 1 .. Count(o)' :
          \E a \in attempts' : a.op = o /\ a.number = n
    <3> SUFFICES ASSUME NEW o \in Operations, NEW n \in 1 .. Count(o)'
                 PROVE  \E a \in attempts' : a.op = o /\ a.number = n
      OBVIOUS
    <3>1. CASE o = op /\ n = Count(op) + 1
      BY <3>1, <2>1, <2>3
    <3>2. CASE ~ (o = op /\ n = Count(op) + 1)
      <4>1. n \in 1 .. Count(o)
        BY <3>2, <2>2, <1>0
      <4>2. \E a \in attempts : a.op = o /\ a.number = n
        BY <4>1 DEF AttemptsNumbered, Count
      <4> QED BY <4>2, <2>1
    <3> QED BY <3>1, <3>2
  <2>7. \A a, b \in attempts' : a.op = b.op /\ a.op \in Operations /\ a.number = b.number => a = b
    <3>1. \A a, b \in attempts : a.op = b.op /\ a.op \in Operations /\ a.number = b.number => a = b
      BY DEF AttemptsNumbered
    <3>2. \A a \in attempts : a.op = op => a.number # Count(op) + 1
      BY <2>4, <1>0
    <3> QED BY <3>1, <3>2, <2>1, <2>3
  <2> QED BY <2>5, <2>6, <2>7 DEF AttemptsNumbered, Count
<1>3. CASE ReleaseBeforeDispatch(op, r)
  <2>1. \A o \in Operations : Count(o)' = Count(o)
    BY <1>3 DEF ReleaseBeforeDispatch, CoordinatorTypeOK, Execution
  <2>2. /\ attempts' = {Released(op, a) : a \in attempts}
        /\ \A a \in attempts : Released(op, a).op = a.op /\ Released(op, a).number = a.number
    BY <1>3, ReleaseMapsAttempts
  <2> HIDE DEF Count
  <2>3. ASSUME NEW o \in Operations
        PROVE  /\ \A a \in attempts : a.op = o => a.number \in 1 .. Count(o)
               /\ \A n \in 1 .. Count(o) : \E a \in attempts : a.op = o /\ a.number = n
               /\ \A a, b \in attempts : a.op = o /\ b.op = o /\ a.number = b.number => a = b
    BY DEF AttemptsNumbered, Count
  <2>4. ASSUME NEW o \in Operations
        PROVE  /\ \A a \in attempts' : a.op = o => a.number \in 1 .. Count(o)
               /\ \A n \in 1 .. Count(o) : \E a \in attempts' : a.op = o /\ a.number = n
               /\ \A a, b \in attempts' : a.op = o /\ b.op = o /\ a.number = b.number => a = b
    <3>1. \A a \in attempts' : a.op = o => a.number \in 1 .. Count(o)
      BY <2>2, <2>3
    <3>2. \A n \in 1 .. Count(o) : \E a \in attempts' : a.op = o /\ a.number = n
      BY <2>2, <2>3
    <3>3. \A a, b \in attempts' : a.op = o /\ b.op = o /\ a.number = b.number => a = b
      BY <2>2, <2>3
    <3> QED BY <3>1, <3>2, <3>3
  <2> QED BY <2>1, <2>4 DEF AttemptsNumbered, Count
<1>4. CASE ClaimOperation(op, r)
  BY <1>4, <1>1 DEF ClaimOperation, CoordinatorTypeOK, Execution
<1>5. ASSUME NEW day \in Days, NEW limit \in Limits, DenyBudget(op, r, day, limit)
      PROVE  AttemptsNumbered'
  BY <1>5, <1>1 DEF DenyBudget, CoordinatorTypeOK, Execution
<1>6. CASE MarkRepairing(op, r)
  BY <1>6, <1>1 DEF MarkRepairing, CoordinatorTypeOK, Execution
<1>7. ASSUME NEW run \in 1 .. execution[op].attempt_count, NEW success \in BOOLEAN,
             Finish(op, r, run, success)
      PROVE  AttemptsNumbered'
  BY <1>7, <1>1 DEF Finish, CoordinatorTypeOK, Execution
<1>8. CASE MarkOutcomeUnknown(op, r)
  BY <1>8, <1>1 DEF MarkOutcomeUnknown, CoordinatorTypeOK, Execution
<1> QED BY <1>2, <1>3, <1>4, <1>5, <1>6, <1>7, <1>8 DEF Transaction

\* No reservation meets UNIQUE(execution_id, attempt_number): the attempts of
\* an execution are numbered 1..attempt_count.
THEOREM AttemptsAreNumbered == CoordinatorSpec => []AttemptsNumbered
<1>1. CoordinatorTypeOK /\ AttemptsNumbered /\ [CoordinatorNext]_coordinatorVars => AttemptsNumbered'
  <2>1. CoordinatorTypeOK /\ AttemptsNumbered /\ CoordinatorNext => AttemptsNumbered'
    BY TransactionNumbered DEF CoordinatorNext
  <2>2. AttemptsNumbered /\ UNCHANGED coordinatorVars => AttemptsNumbered'
    BY DEF AttemptsNumbered, coordinatorVars
  <2> QED BY <2>1, <2>2
<1> QED BY InitNumbered, CoordinatorTyped, <1>1, PTL DEF CoordinatorSpec

-----------------------------------------------------------------------------
\* A dispatch is counted.

\* The row of op counts its newest attempt.
Backed(op) ==
    execution[op].state \in {"dispatching", "repairing"} =>
      \E a \in attempts : /\ a.op = op
                          /\ a.number = execution[op].attempt_count
                          /\ a.state = "consumed"

LEMMA TransactionBacked ==
    ASSUME CoordinatorTypeOK, NEW op \in Operations, NEW r \in Requests, Transaction(op, r),
           NEW o \in Operations, Backed(o)
    PROVE  Backed(o)'
<1> USE DEF CoordinatorTypeOK, Execution
<1>1. CASE ClaimOperation(op, r)
  BY <1>1 DEF ClaimOperation, Backed
<1>2. ASSUME NEW day \in Days, NEW limit \in Limits, ReserveAndMarkDispatching(op, r, day, limit)
      PROVE  Backed(o)'
  <2> DEFINE new == [op |-> op, number |-> NextNumber(op), day |-> day, state |-> "consumed"]
  <2>1. attempts' = attempts \cup {new}
    BY <1>2 DEF ReserveAndMarkDispatching, RecordReservation
  <2>2. CASE o = op
    <3>1. execution'[op].attempt_count = NextNumber(op)
      BY <1>2 DEF ReserveAndMarkDispatching, RecordReservation, NextNumber
    <3>2. new \in attempts'
      BY <2>1
    <3>3. new.op = o /\ new.number = execution'[o].attempt_count /\ new.state = "consumed"
      BY <2>2, <3>1
    <3> QED BY <3>2, <3>3 DEF Backed
  <2>3. CASE o # op
    <3>1. execution'[o] = execution[o]
      BY <1>2, <2>3 DEF ReserveAndMarkDispatching, RecordReservation
    <3> QED BY <2>1, <3>1 DEF Backed
  <2> QED BY <2>2, <2>3
<1>3. ASSUME NEW day \in Days, NEW limit \in Limits, DenyBudget(op, r, day, limit)
      PROVE  Backed(o)'
  BY <1>3 DEF DenyBudget, Backed
<1>4. CASE ReleaseBeforeDispatch(op, r)
  <2>1. CASE o = op
    BY <1>4, <2>1 DEF ReleaseBeforeDispatch, Backed
  <2>2. CASE o # op
    <3>1. execution'[o] = execution[o]
      BY <1>4, <2>2 DEF ReleaseBeforeDispatch
    <3>2. \A a \in attempts : a.op = o => a \in attempts'
      BY <1>4, <2>2, ReleaseMapsAttempts
    <3> QED BY <3>1, <3>2 DEF Backed
  <2> QED BY <2>1, <2>2
<1>5. CASE MarkRepairing(op, r)
  <2>1. attempts' = attempts
    BY <1>5 DEF MarkRepairing
  <2>2. CASE o = op
    <3>1. /\ execution[o].state = "dispatching"
          /\ execution'[o].attempt_count = execution[o].attempt_count
      BY <1>5, <2>2 DEF MarkRepairing
    <3> QED BY <2>1, <3>1 DEF Backed
  <2>3. CASE o # op
    <3>1. execution'[o] = execution[o]
      BY <1>5, <2>3 DEF MarkRepairing
    <3> QED BY <2>1, <3>1 DEF Backed
  <2> QED BY <2>2, <2>3
<1>6. ASSUME NEW run \in 1 .. execution[op].attempt_count, NEW success \in BOOLEAN,
             Finish(op, r, run, success)
      PROVE  Backed(o)'
  <2>1. /\ o # op => execution'[o] = execution[o]
        /\ execution'[op].state \in {"completed", "failed"}
    BY <1>6 DEF Finish
  <2> QED BY <1>6, <2>1 DEF Finish, Backed
<1>7. CASE MarkOutcomeUnknown(op, r)
  BY <1>7 DEF MarkOutcomeUnknown, Backed
<1> QED BY <1>1, <1>2, <1>3, <1>4, <1>5, <1>6, <1>7 DEF Transaction

\* A row says that a call may be under way only while its newest attempt is
\* in the day's count.
THEOREM DispatchesAreCounted == CoordinatorSpec => []DispatchIsCounted
<1>1. CoordinatorInit => DispatchIsCounted
  BY DEF CoordinatorInit, DispatchIsCounted
<1>2. CoordinatorTypeOK /\ DispatchIsCounted /\ [CoordinatorNext]_coordinatorVars => DispatchIsCounted'
  <2>1. DispatchIsCounted <=> \A op \in Operations : Backed(op)
    BY DEF DispatchIsCounted, Backed
  <2>2. (\A op \in Operations : Backed(op)') => DispatchIsCounted'
    BY DEF DispatchIsCounted, Backed
  <2>3. CoordinatorTypeOK /\ DispatchIsCounted /\ CoordinatorNext => DispatchIsCounted'
    BY <2>1, <2>2, TransactionBacked DEF CoordinatorNext
  <2>4. DispatchIsCounted /\ UNCHANGED coordinatorVars => DispatchIsCounted'
    BY DEF DispatchIsCounted, coordinatorVars
  <2> QED BY <2>3, <2>4
<1> QED BY CoordinatorTyped, <1>1, <1>2, PTL DEF CoordinatorSpec

\* Both: the attempts are numbered, and those under way are counted.
THEOREM LedgerIsKept == CoordinatorSpec => []LedgerOnRecord
<1>1. AttemptsNumbered /\ DispatchIsCounted => LedgerOnRecord
  BY DEF LedgerOnRecord
<1> QED BY <1>1, AttemptsAreNumbered, DispatchesAreCounted, PTL

-----------------------------------------------------------------------------
\* The budget.

\* BudgetCeiling for one day, with the finiteness that makes its count a number.
WithinBudget(day) ==
    /\ IsFiniteSet(Consumed(day))
    /\ Usage(day) = 0 \/ \E limit \in Limits : Usage(day) <= limit

\* Fewer counted rows are within budget as well.
LEMMA FewerWithinBudget ==
    ASSUME NEW day \in Days, WithinBudget(day), Consumed(day)' \subseteq Consumed(day)
    PROVE  WithinBudget(day)'
<1>1. /\ IsFiniteSet(Consumed(day)')
      /\ Cardinality(Consumed(day)') <= Cardinality(Consumed(day))
  BY FS_Subset DEF WithinBudget
<1>2. Cardinality(Consumed(day)') \in Nat /\ Cardinality(Consumed(day)) \in Nat
  BY <1>1, FS_CardinalityType DEF WithinBudget
<1>3. IsFiniteSet(Consumed(day))' /\ Usage(day)' = Cardinality(Consumed(day)')
  BY <1>1 DEF Usage
<1>4. Usage(day)' = 0 \/ \E limit \in Limits : Usage(day)' <= limit
  <2>1. CASE Usage(day) = 0
    BY <2>1, <1>1, <1>2, <1>3 DEF Usage
  <2>2. ASSUME NEW limit \in Limits, Usage(day) <= limit
        PROVE  Usage(day)' <= limit
    <3>1. limit \in Nat
      BY CoordinatorAssumptions
    <3> QED BY <2>2, <3>1, <1>1, <1>2, <1>3 DEF Usage
  <2> QED BY <2>1, <2>2 DEF WithinBudget
<1> QED BY <1>3, <1>4 DEF WithinBudget

LEMMA TransactionWithinBudget ==
    ASSUME CoordinatorTypeOK, NEW op \in Operations, NEW r \in Requests, Transaction(op, r),
           NEW day \in Days, WithinBudget(day)
    PROVE  WithinBudget(day)'
<1>1. CASE UNCHANGED attempts
  BY <1>1, FewerWithinBudget DEF Consumed
<1>2. CASE ReleaseBeforeDispatch(op, r)
  <2>1. Consumed(day)' \subseteq Consumed(day)
    <3> SUFFICES ASSUME NEW b \in attempts', b.day = day, b.state = "consumed"
                 PROVE  b \in Consumed(day)
      BY DEF Consumed
    <3>1. PICK a \in attempts : b = Released(op, a)
      BY <1>2, ReleaseMapsAttempts
    <3>2. b = a
      BY <1>2, <3>1, ReleaseMapsAttempts
    <3> QED BY <3>2 DEF Consumed
  <2> QED BY <2>1, FewerWithinBudget
<1>3. ASSUME NEW d \in Days, NEW limit \in Limits, ReserveAndMarkDispatching(op, r, d, limit)
      PROVE  WithinBudget(day)'
  <2> DEFINE new == [op |-> op, number |-> NextNumber(op), day |-> d, state |-> "consumed"]
  <2>1. attempts' = attempts \cup {new} /\ Usage(d) < limit
    BY <1>3 DEF ReserveAndMarkDispatching, RecordReservation
  <2>2. CASE day # d
    <3>1. Consumed(day)' \subseteq Consumed(day)
      BY <2>1, <2>2 DEF Consumed
    <3> QED BY <3>1, FewerWithinBudget
  <2>3. CASE day = d
    <3>1. Consumed(day)' = Consumed(day) \cup {new}
      BY <2>1, <2>3 DEF Consumed
    <3>2. /\ IsFiniteSet(Consumed(day)')
          /\ \/ Cardinality(Consumed(day)') = Cardinality(Consumed(day))
             \/ Cardinality(Consumed(day)') = Cardinality(Consumed(day)) + 1
      BY <3>1, FS_AddElement DEF WithinBudget
    <3>3. Cardinality(Consumed(day)) \in Nat /\ limit \in Nat
      BY FS_CardinalityType, CoordinatorAssumptions DEF WithinBudget
    <3>4. Usage(day)' <= limit
      BY <2>1, <2>3, <3>2, <3>3 DEF Usage
    <3> QED BY <3>2, <3>4 DEF WithinBudget
  <2> QED BY <2>2, <2>3
<1> QED
  BY <1>1, <1>2, <1>3 DEF Transaction, ClaimOperation, DenyBudget, MarkRepairing, Finish,
     MarkOutcomeUnknown

\* Whoever races for the last slot, a day's count never exceeds the largest
\* limit a policy allows.
THEOREM BudgetIsKept == CoordinatorSpec => []BudgetCeiling
<1> DEFINE AllWithin == \A day \in Days : WithinBudget(day)
<1>1. CoordinatorInit => AllWithin
  <2>1. CoordinatorInit => \A day \in Days : Consumed(day) = {}
    BY DEF CoordinatorInit, Consumed
  <2> QED BY <2>1, FS_EmptySet DEF WithinBudget, Usage
<1>2. CoordinatorTypeOK /\ AllWithin /\ [CoordinatorNext]_coordinatorVars => AllWithin'
  <2>1. CoordinatorTypeOK /\ AllWithin /\ CoordinatorNext => AllWithin'
    BY TransactionWithinBudget DEF CoordinatorNext
  <2>2. AllWithin /\ UNCHANGED coordinatorVars => AllWithin'
    BY DEF WithinBudget, Usage, Consumed, coordinatorVars
  <2> QED BY <2>1, <2>2
<1>3. AllWithin => BudgetCeiling
  BY DEF WithinBudget, BudgetCeiling
<1> QED BY CoordinatorTyped, <1>1, <1>2, <1>3, PTL DEF CoordinatorSpec

-----------------------------------------------------------------------------
\* Ownership.

\* The owner of an operation in flight is never replaced.
THEOREM OwnershipIsNotStolen == CoordinatorSpec => OwnershipNotStolen
<1> DEFINE Kept == \A op \in Operations :
                     execution'[op].owner # execution[op].owner => execution[op].state \notin InFlight
<1>1. CoordinatorTypeOK /\ CoordinatorNext => Kept
  <2> SUFFICES ASSUME CoordinatorTypeOK, NEW op \in Operations, NEW r \in Requests,
                      Transaction(op, r), NEW o \in Operations,
                      execution'[o].owner # execution[o].owner
               PROVE  execution[o].state \notin InFlight
    BY DEF CoordinatorNext
  <2>1. CASE ClaimOperation(op, r)
    BY <2>1 DEF ClaimOperation, CoordinatorTypeOK, Execution, Claimable, InFlight
  <2>2. ASSUME NEW day \in Days, NEW limit \in Limits,
               ReserveAndMarkDispatching(op, r, day, limit) \/ DenyBudget(op, r, day, limit)
        PROVE  execution'[o].owner = execution[o].owner
    BY <2>2 DEF ReserveAndMarkDispatching, RecordReservation, DenyBudget, CoordinatorTypeOK, Execution
  <2>3. CASE ReleaseBeforeDispatch(op, r) \/ MarkRepairing(op, r) \/ MarkOutcomeUnknown(op, r)
    <3>1. execution'[o].owner = execution[o].owner
      BY <2>3 DEF ReleaseBeforeDispatch, MarkRepairing, MarkOutcomeUnknown, CoordinatorTypeOK, Execution
    <3> QED BY <3>1
  <2>4. ASSUME NEW run, NEW success, Finish(op, r, run, success)
        PROVE  execution'[o].owner = execution[o].owner
    BY <2>4 DEF Finish, CoordinatorTypeOK, Execution
  <2> QED BY <2>1, <2>2, <2>3, <2>4 DEF Transaction
<1>2. CoordinatorTypeOK /\ [CoordinatorNext]_coordinatorVars => [Kept]_coordinatorVars
  BY <1>1
<1> QED BY CoordinatorTyped, <1>2, PTL DEF CoordinatorSpec, OwnershipNotStolen
=============================================================================
