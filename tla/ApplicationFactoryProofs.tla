----------------------- MODULE ApplicationFactoryProofs -----------------------
(* What the application factory keeps, for any number of clients, items and  *)
(* contents, whoever dies: its shape, one analyst per item, settled items    *)
(* that stay settled, a session that says what its items say and, as long as *)
(* no vacancy returns to an earlier content, the plan that was reviewed.     *)
EXTENDS ApplicationFactory, WellFoundedInduction, TLAPS

\* A client that works on an item has not dropped it from its queue.
HoldsItem(c) == client[c].pc \in Holding => client[c].queue # {}

\* No item waits before the session was stored.
NothingQueued == session = "absent" => \A i \in Items : item[i] = "absent"

\* An outcome that is about to be written was given to that item.
OutcomeOnRecord(c) ==
    (At(c, "settle") /\ client[c].outcome \in {"ready", "skip"}) =>
      \E v \in Versions : verdict[Current(c)][v] = client[c].outcome

\* A client that may still find all items settled, or died before it could.
Closing(c) == (At(c, "loop") /\ ~ client[c].requeued) \/ At(c, "dead")

\* When all items are settled, an execution that has not left queued nothing
\* again, unless one of the clients died.
SomeoneCloses ==
    (session # "completed" /\ \A i \in Items : item[i] \in Terminal) =>
      \E c \in Clients : Closing(c)

FactoryInv ==
    /\ FactoryTypeOK
    /\ \A c \in Clients : HoldsItem(c) /\ OutcomeOnRecord(c)
    /\ NothingQueued
    /\ OneAnalystPerItem
    /\ ReadyIsAnalysed
    /\ CompletedIsSettled
    /\ SomeoneCloses

-----------------------------------------------------------------------------
(* The item at hand.                                                       *)

\* A queue that is not empty has a first item.
LEMMA CurrentIsQueued ==
  ASSUME NEW c \in Clients, client[c].queue \subseteq Items, client[c].queue # {}
  PROVE  Current(c) \in client[c].queue
<1> DEFINE Less == {p \in Nat \X Nat : p[1] < p[2]}
<1>1. IsWellFoundedOn(Less, Nat)
  <2>1. OpToRel(<, Nat) = Less
    BY Zenon DEF OpToRel
  <2>2. QED
    BY <2>1, NatLessThanWellFounded, Zenon
<1>2. client[c].queue \subseteq Nat
  BY FactoryAssumptions
<1> HIDE DEF Less
<1>3. PICK n \in client[c].queue : \A m \in client[c].queue : <<m, n>> \notin Less
  BY <1>1, <1>2, WFMin
<1>4. ASSUME NEW m \in client[c].queue PROVE n <= m
  <2>1. m \in Nat /\ n \in Nat
    BY <1>2
  <2>2. m < n => <<m, n>> \in Less
    BY <2>1 DEF Less
  <2>3. QED
    BY <1>3, <2>1, <2>2
<1>5. QED
  BY <1>4 DEF Current

LEMMA CurrentIsItem ==
  ASSUME FactoryTypeOK, NEW c \in Clients, client[c].queue # {}
  PROVE  Current(c) \in Items
  BY CurrentIsQueued DEF FactoryTypeOK, Client

\* The item at hand depends on the queue alone.
LEMMA SameCurrent ==
  ASSUME NEW c \in Clients, client'[c].queue = client[c].queue
  PROVE  Current(c)' = Current(c)
  BY DEF Current

-----------------------------------------------------------------------------
(* Type correctness.                                                       *)

LEMMA FactoryStarts == Init => FactoryInv
<1> SUFFICES ASSUME Init PROVE FactoryInv
  OBVIOUS
<1>1. BatchPlan \in [Items -> Versions \cup {Archived}]
  BY FactoryAssumptions DEF BatchPlan
<1>2. NewClient \in Client
  BY <1>1, FactoryAssumptions DEF NewClient, Client, Points
<1>3. FactoryTypeOK
  BY <1>2, FactoryAssumptions DEF Init, FactoryTypeOK, QueueStates, Verdicts
<1>4. \A c \in Clients : client[c].pc = "idle"
  BY DEF Init, NewClient
<1>5. QED
  BY <1>3, <1>4, FactoryAssumptions
     DEF Init, FactoryInv, HoldsItem, Holding, OutcomeOnRecord, At, NothingQueued,
         OneAnalystPerItem, ReadyIsAnalysed, CompletedIsSettled, SomeoneCloses, Terminal

\* A step of one client replaces its record and leaves the others alone.
LEMMA OneClientMoves ==
  ASSUME FactoryTypeOK, NEW c \in Clients, NEW r \in Client, Becomes(c, r)
  PROVE  /\ client' \in [Clients -> Client]
         /\ client'[c] = r
         /\ \A d \in Clients \ {c} : client'[d] = client[d]
  BY DEF FactoryTypeOK, Becomes

\* Updates of the fields of a client record.
LEMMA PointTyped ==
  ASSUME NEW r \in Client, NEW p \in Points
  PROVE  [r EXCEPT !.pc = p] \in Client
  BY DEF Client

LEMMA NextTyped ==
  ASSUME NEW r \in Client, NEW q \in SUBSET Items
  PROVE  [r EXCEPT !.pc = "loop", !.queue = q] \in Client
  BY DEF Client, Points

LEMMA SettledTyped ==
  ASSUME NEW r \in Client, NEW q \in SUBSET Items, NEW b \in BOOLEAN
  PROVE  [r EXCEPT !.pc = "loop", !.queue = q, !.outcome = "none", !.requeued = b] \in Client
  BY DEF Client, Points

LEMMA NewClientTyped ==
  /\ NewClient \in Client
  /\ [NewClient EXCEPT !.pc = "done"] \in Client
<1>1. BatchPlan \in [Items -> Versions \cup {Archived}]
  BY FactoryAssumptions DEF BatchPlan
<1>2. QED
  BY <1>1, FactoryAssumptions DEF NewClient, Client, Points

LEMMA PlanTyped ==
  ASSUME FactoryTypeOK
  PROVE  Plan \in [Items -> Versions \cup {Archived}]
  BY DEF FactoryTypeOK, Plan

\* What a client of each step looks like afterwards.
Mine(c, point) ==
    /\ client' \in [Clients -> Client]
    /\ \A d \in Clients \ {c} : client'[d] = client[d]
    /\ client'[c].pc = point

Kept(c) ==
    /\ client'[c].queue = client[c].queue
    /\ client'[c].seen = client[c].seen

LEMMA GotoEffect ==
  ASSUME FactoryTypeOK, NEW c \in Clients, NEW p \in Points, Goto(c, p)
  PROVE  Mine(c, p) /\ client'[c] = [client[c] EXCEPT !.pc = p] /\ Kept(c)
<1>1. client[c] \in Client
  BY DEF FactoryTypeOK
<1>2. [client[c] EXCEPT !.pc = p] \in Client
  BY <1>1, PointTyped
<1>3. QED
  BY <1>1, <1>2, OneClientMoves DEF Goto, Mine, Kept, Client

LEMMA LeaveEffect ==
  ASSUME FactoryTypeOK, NEW c \in Clients, Leave(c)
  PROVE  Mine(c, "done")
<1>1. [NewClient EXCEPT !.pc = "done"].pc = "done"
  BY DEF NewClient
<1>2. QED
  BY <1>1, NewClientTyped, OneClientMoves DEF Leave, Mine

LEMMA NextItemEffect ==
  ASSUME FactoryTypeOK, NEW c \in Clients, NextItem(c)
  PROVE  /\ Mine(c, "loop")
         /\ client'[c].seen = client[c].seen /\ client'[c].requeued = client[c].requeued
<1>1. client[c] \in Client
  BY DEF FactoryTypeOK
<1>2. client[c].queue \ {Current(c)} \in SUBSET Items
  BY <1>1 DEF Client
<1> DEFINE r == [client[c] EXCEPT !.pc = "loop", !.queue = client[c].queue \ {Current(c)}]
<1>3. r \in Client
  BY <1>1, <1>2, NextTyped
<1>4. r.pc = "loop" /\ r.seen = client[c].seen /\ r.requeued = client[c].requeued
  BY <1>1 DEF Client
<1>5. Becomes(c, r)
  BY Zenon DEF NextItem
<1> HIDE DEF r
<1>6. QED
  BY <1>3, <1>4, <1>5, OneClientMoves DEF Mine

LEMMA SettledEffect ==
  ASSUME FactoryTypeOK, NEW c \in Clients, NEW s, Settled(c, s)
  PROVE  /\ Mine(c, "loop")
         /\ client'[c].seen = client[c].seen
         /\ client'[c].requeued = (s = "NEEDS_ANALYSIS")
<1>1. client[c] \in Client
  BY DEF FactoryTypeOK
<1>2. client[c].queue \ {Current(c)} \in SUBSET Items
  BY <1>1 DEF Client
<1> DEFINE r == [client[c] EXCEPT !.pc = "loop", !.queue = client[c].queue \ {Current(c)},
                                  !.outcome = "none", !.requeued = (s = "NEEDS_ANALYSIS")]
<1>3. r \in Client
  BY <1>1, <1>2, SettledTyped
<1>4. r.pc = "loop" /\ r.seen = client[c].seen /\ r.requeued = (s = "NEEDS_ANALYSIS")
  BY <1>1, Zenon DEF Client
<1>5. Becomes(c, r)
  BY Zenon DEF Settled
<1> HIDE DEF r
<1>6. QED
  BY <1>3, <1>4, <1>5, OneClientMoves DEF Mine

LEMMA PreviewEffect ==
  ASSUME FactoryTypeOK, NEW c \in Clients, Preview(c)
  PROVE  Mine(c, "reviewed") /\ client'[c].seen = Plan
<1> DEFINE r == [client[c] EXCEPT !.pc = "reviewed", !.seen = Plan]
<1>1. r \in Client /\ r.pc = "reviewed" /\ r.seen = Plan
  BY PlanTyped DEF FactoryTypeOK, Client, Points
<1>2. Becomes(c, r)
  BY Zenon DEF Preview
<1> HIDE DEF r
<1>3. QED
  BY <1>1, <1>2, OneClientMoves DEF Mine, Kept

LEMMA ExecuteBeginsEffect ==
  ASSUME FactoryTypeOK, NEW c \in Clients, Candidates \in SUBSET Items,
         ExecuteBegins(c)
  PROVE  Mine(c, "loop") /\ client'[c].seen = client[c].seen
<1> DEFINE r == [client[c] EXCEPT !.pc = "loop", !.queue = Candidates, !.requeued = FALSE]
<1>1. r \in Client /\ r.pc = "loop" /\ r.seen = client[c].seen
  BY DEF FactoryTypeOK, Client, Points
<1>2. Becomes(c, r)
  BY Zenon DEF ExecuteBegins
<1> HIDE DEF r
<1>3. QED
  BY <1>1, <1>2, OneClientMoves DEF Mine, Kept

LEMMA ReadVacancyEffect ==
  ASSUME FactoryTypeOK, NEW c \in Clients, Current(c) \in Items,
         ReadVacancy(c), ~ vacancy[Current(c)].archived
  PROVE  Mine(c, "analyze") /\ Kept(c)
<1> DEFINE r == [client[c] EXCEPT !.pc = "analyze", !.read = vacancy[Current(c)].content]
<1>1. r \in Client /\ r.pc = "analyze" /\ r.queue = client[c].queue /\ r.seen = client[c].seen
  BY DEF FactoryTypeOK, Client, Points
<1>2. Becomes(c, r)
  BY Zenon DEF ReadVacancy
<1> HIDE DEF r
<1>3. QED
  BY <1>1, <1>2, OneClientMoves DEF Mine, Kept

LEMMA AnalyzeEffect ==
  ASSUME FactoryTypeOK, NEW c \in Clients, NEW o \in Outcomes,
         Becomes(c, [client[c] EXCEPT !.pc = "settle", !.outcome = o])
  PROVE  Mine(c, "settle") /\ Kept(c) /\ client'[c].outcome = o
<1> DEFINE r == [client[c] EXCEPT !.pc = "settle", !.outcome = o]
<1>1. r \in Client /\ r.pc = "settle" /\ r.queue = client[c].queue /\ r.seen = client[c].seen /\ r.outcome = o
  BY DEF FactoryTypeOK, Client, Points
<1>2. Becomes(c, r)
  BY Zenon
<1> HIDE DEF r
<1>3. QED
  BY <1>1, <1>2, OneClientMoves DEF Mine, Kept

-----------------------------------------------------------------------------
(* Three kinds of step.                                                    *)

LEMMA HeldIsItem ==
  ASSUME FactoryInv, NEW c \in Clients, client[c].pc \in Holding
  PROVE  Current(c) \in Items /\ item[Current(c)] = "ANALYZING"
  BY CurrentIsItem DEF FactoryInv, HoldsItem, OneAnalystPerItem

\* A client that works on nothing afterwards and has changed no table.
LEMMA QuietStep ==
  ASSUME FactoryInv, NEW c \in Clients, NEW p \in Points \ Holding, Mine(c, p),
         UNCHANGED <<session, item, vacancy, verdict, sent>>,
         Closing(c) => Closing(c)'
  PROVE  FactoryInv'
<1> USE DEF FactoryInv, Mine
<1>1. \A d \in Clients \ {c} : Current(d)' = Current(d)
  BY SameCurrent
<1>2. FactoryTypeOK'
  BY DEF FactoryTypeOK
<1>3. \A d \in Clients : (HoldsItem(d) /\ OutcomeOnRecord(d))'
  BY <1>1 DEF HoldsItem, OutcomeOnRecord, At, Holding
<1>4. OneAnalystPerItem'
  BY <1>1 DEF OneAnalystPerItem
<1>5. (NothingQueued /\ ReadyIsAnalysed /\ CompletedIsSettled)'
  BY DEF NothingQueued, ReadyIsAnalysed, CompletedIsSettled
<1>6. SomeoneCloses'
  <2>1. \A d \in Clients \ {c} : Closing(d)' <=> Closing(d)
    BY DEF Closing, At
  <2>2. QED
    BY <2>1 DEF SomeoneCloses
<1>7. QED
  BY <1>2, <1>3, <1>4, <1>5, <1>6

\* A client that works on the item at the head of its queue afterwards: it has
\* just claimed it, or it has worked on it before.
LEMMA WorkStep ==
  ASSUME FactoryInv, FactoryTypeOK', NEW c \in Clients, NEW p \in Holding, Mine(c, p),
         client'[c].queue = client[c].queue, client[c].queue # {}, session' = session,
         \/ client[c].pc \in Holding /\ item' = item
         \/ /\ item[Current(c)] = "NEEDS_ANALYSIS"
            /\ item' = [item EXCEPT ![Current(c)] = "ANALYZING"],
         \A i \in Items, v \in Versions : verdict[i][v] # "open" => verdict'[i][v] = verdict[i][v],
         OutcomeOnRecord(c)'
  PROVE  FactoryInv'
<1> USE DEF FactoryInv
<1>1. \A d \in Clients : Current(d)' = Current(d)
  BY SameCurrent DEF Mine
<1>2. Current(c) \in Items
  BY CurrentIsItem
<1>3. item'[Current(c)] = "ANALYZING"
  BY <1>2, HeldIsItem DEF FactoryTypeOK
<1>4. \A i \in Items \ {Current(c)} : item'[i] = item[i]
  BY DEF FactoryTypeOK
<1>5. \A d \in Clients \ {c} : client[d].pc \in Holding => Current(d) # Current(c)
  BY DEF OneAnalystPerItem
<1>6. \A d \in Clients \ {c} : client'[d] = client[d]
  BY DEF Mine
<1>7. client'[c].pc \in Holding
  BY DEF Mine
<1>8. \A d \in Clients : HoldsItem(d)'
  BY <1>6 DEF HoldsItem
<1>9. \A d \in Clients : OutcomeOnRecord(d)'
  <2> SUFFICES ASSUME NEW d \in Clients \ {c}, At(d, "settle")', client'[d].outcome \in {"ready", "skip"}
               PROVE  \E v \in Versions : verdict'[Current(d)'][v] = client'[d].outcome
    BY DEF OutcomeOnRecord
  <2>1. PICK v \in Versions : verdict[Current(d)][v] = client[d].outcome
    BY <1>6 DEF OutcomeOnRecord, At
  <2>2. Current(d) \in Items
    BY <1>6, HeldIsItem DEF At, Holding
  <2>3. verdict'[Current(d)][v] = client[d].outcome
    BY <1>6, <2>1, <2>2
  <2>4. QED
    BY <1>1, <1>6, <2>3
<1>10. OneAnalystPerItem'
  <2> SUFFICES ASSUME NEW d \in Clients, client'[d].pc \in Holding
               PROVE  /\ item'[Current(d)'] = "ANALYZING"
                      /\ \A e \in Clients \ {d} : client'[e].pc \in Holding => Current(e)' # Current(d)'
    BY DEF OneAnalystPerItem
  <2>1. CASE d = c
    BY <2>1, <1>1, <1>3, <1>5, <1>6
  <2>2. CASE d # c
    <3>1. item[Current(d)] = "ANALYZING" /\ Current(d) \in Items
      BY <2>2, <1>6, HeldIsItem
    <3>2. item'[Current(d)] = "ANALYZING"
      BY <3>1, <2>2, <1>4, <1>5, <1>6
    <3>3. \A e \in Clients \ {d, c} : client[e].pc \in Holding => Current(e) # Current(d)
      BY <2>2, <1>6 DEF OneAnalystPerItem
    <3>4. QED
      BY <2>2, <3>2, <3>3, <1>1, <1>5, <1>6
  <2>3. QED
    BY <2>1, <2>2
<1>11. NothingQueued'
  <2>1. item[Current(c)] # "absent"
    BY <1>2, HeldIsItem DEF FactoryTypeOK
  <2>2. QED
    BY <2>1, <1>2 DEF NothingQueued
<1>12. ReadyIsAnalysed'
  <2> SUFFICES ASSUME NEW i \in Items, NEW s \in {"READY_FOR_MANUAL_APPLY", "SKIPPED"}, item'[i] = s
               PROVE  \E v \in Versions :
                        verdict'[i][v] = (IF s = "SKIPPED" THEN "skip" ELSE "ready")
    BY DEF ReadyIsAnalysed
  <2>1. item[i] = s
    BY <1>3, <1>4
  <2>2. PICK v \in Versions : verdict[i][v] = (IF s = "SKIPPED" THEN "skip" ELSE "ready")
    BY <2>1 DEF ReadyIsAnalysed
  <2>3. QED
    BY <2>2
<1>13. CompletedIsSettled' /\ SomeoneCloses'
  <2>1. item[Current(c)] \notin Terminal /\ item'[Current(c)] \notin Terminal
    BY <1>3, HeldIsItem DEF Terminal
  <2>2. QED
    BY <2>1, <1>2 DEF CompletedIsSettled, SomeoneCloses
<1>14. QED
  BY <1>8, <1>9, <1>10, <1>11, <1>12, <1>13

\* A client that writes what became of its item and goes on to the next.
LEMMA SettleStep ==
  ASSUME FactoryInv, NEW c \in Clients, client[c].pc \in Holding,
         NEW s \in Terminal \cup {"NEEDS_ANALYSIS"}, Settled(c, s),
         item' = [item EXCEPT ![Current(c)] = s],
         UNCHANGED <<session, vacancy, verdict, sent>>,
         s \in {"READY_FOR_MANUAL_APPLY", "SKIPPED"} =>
           \E v \in Versions : verdict[Current(c)][v] = (IF s = "SKIPPED" THEN "skip" ELSE "ready")
  PROVE  FactoryInv' /\ (\A i \in Items : item[i] \in Terminal => item'[i] = item[i])
<1> USE DEF FactoryInv
<1>1. Current(c) \in Items /\ item[Current(c)] = "ANALYZING"
  BY HeldIsItem
<1>2. Mine(c, "loop") /\ client'[c].requeued = (s = "NEEDS_ANALYSIS")
  BY SettledEffect
<1>3. item'[Current(c)] = s /\ \A i \in Items \ {Current(c)} : item'[i] = item[i]
  BY <1>1 DEF FactoryTypeOK
<1>4. \A d \in Clients \ {c} : client'[d] = client[d] /\ Current(d)' = Current(d)
  BY <1>2, SameCurrent DEF Mine
<1>5. client'[c].pc = "loop" /\ client'[c].pc \notin Holding
  BY <1>2 DEF Mine, Holding
<1>6. FactoryTypeOK'
  BY <1>2 DEF FactoryTypeOK, Mine, QueueStates
<1>7. \A d \in Clients : (HoldsItem(d) /\ OutcomeOnRecord(d))'
  BY <1>4, <1>5 DEF HoldsItem, OutcomeOnRecord, At, Holding
<1>8. OneAnalystPerItem'
  <2> SUFFICES ASSUME NEW d \in Clients, client'[d].pc \in Holding
               PROVE  /\ item'[Current(d)'] = "ANALYZING"
                      /\ \A e \in Clients \ {d} : client'[e].pc \in Holding => Current(e)' # Current(d)'
    BY DEF OneAnalystPerItem
  <2>1. d # c /\ client[d].pc \in Holding
    BY <1>4, <1>5
  <2>2. Current(d) # Current(c) /\ Current(d) \in Items /\ item[Current(d)] = "ANALYZING"
    BY <2>1, HeldIsItem DEF OneAnalystPerItem
  <2>3. \A e \in Clients \ {d, c} : client[e].pc \in Holding => Current(e) # Current(d)
    BY <2>1 DEF OneAnalystPerItem
  <2>4. QED
    BY <1>3, <1>4, <1>5, <2>1, <2>2, <2>3
<1>9. NothingQueued'
  BY <1>1 DEF NothingQueued
<1>10. ReadyIsAnalysed'
  BY <1>3 DEF ReadyIsAnalysed
<1>11. CompletedIsSettled'
  BY <1>1 DEF CompletedIsSettled, Terminal
<1>12. SomeoneCloses'
  <2>1. s \in Terminal => Closing(c)'
    BY <1>2, <1>5 DEF Closing, At, Terminal
  <2>2. QED
    BY <1>1, <1>3, <2>1 DEF SomeoneCloses
<1>13. \A i \in Items : item[i] \in Terminal => item'[i] = item[i]
  BY <1>1, <1>3 DEF Terminal
<1>14. QED
  BY <1>6, <1>7, <1>8, <1>9, <1>10, <1>11, <1>12, <1>13

-----------------------------------------------------------------------------
(* Every action is one of them, or stores the session, or closes it.       *)

SettledKept == \A i \in Items : item[i] \in Terminal => item'[i] = item[i]

LEMMA PreviewKeeps ==
  ASSUME FactoryInv, NEW c \in Clients, Preview(c)
  PROVE  FactoryInv' /\ SettledKept
<1>1. Mine(c, "reviewed")
  BY PreviewEffect DEF FactoryInv
<1>2. ~ Closing(c)
  BY DEF Preview, Closing, At
<1>3. QED
  BY <1>1, <1>2, QuietStep DEF Preview, Points, Holding, SettledKept

LEMMA QuietLeaveKeeps ==
  ASSUME FactoryInv, NEW c \in Clients, Leave(c), ~ Closing(c),
         UNCHANGED <<session, item, vacancy, verdict, sent>>
  PROVE  FactoryInv' /\ SettledKept
<1>1. FactoryTypeOK
  BY DEF FactoryInv
<1>2. Mine(c, "done")
  BY <1>1, LeaveEffect
<1>3. QED
  BY <1>2, QuietStep DEF Points, Holding, SettledKept

LEMMA QuietGotoKeeps ==
  ASSUME FactoryInv, NEW c \in Clients, NEW p \in {"insert", "dead"}, Goto(c, p),
         p = "insert" => ~ Closing(c),
         UNCHANGED <<session, item, vacancy, verdict, sent>>
  PROVE  FactoryInv' /\ SettledKept
<1>1. FactoryTypeOK
  BY DEF FactoryInv
<1>2. Mine(c, p)
  BY <1>1, GotoEffect DEF Points
<1>3. Closing(c) => Closing(c)'
  BY <1>2 DEF Mine, Closing, At
<1>4. QED
  BY <1>2, <1>3, QuietStep DEF Points, Holding, SettledKept

LEMMA InsertKeeps ==
  ASSUME FactoryInv, NEW c \in Clients, Insert(c)
  PROVE  FactoryInv' /\ SettledKept
<1> USE DEF FactoryInv
<1>1. Mine(c, "done") /\ ~ Closing(c)
  BY LeaveEffect DEF Insert, Closing, At
<1>2. CASE session # "absent"
  BY <1>1, <1>2, QuietLeaveKeeps DEF Insert
<1>3. CASE session = "absent"
  <2>1. session' = "active" /\ item' = [i \in Items |-> "NEEDS_ANALYSIS"]
    BY <1>3 DEF Insert
  <2>2. \A i \in Items : item[i] = "absent"
    BY <1>3 DEF NothingQueued
  <2>3. \A d \in Clients : client'[d].pc \notin Holding
    BY <1>1, <2>2, HeldIsItem DEF Mine, Holding
  <2>4. FactoryTypeOK'
    BY <1>1, <2>1 DEF FactoryTypeOK, Mine, Insert, QueueStates
  <2>5. (\A d \in Clients : HoldsItem(d) /\ OutcomeOnRecord(d))' /\ OneAnalystPerItem'
    BY <2>3 DEF HoldsItem, OutcomeOnRecord, OneAnalystPerItem, At, Holding
  <2>6. (NothingQueued /\ ReadyIsAnalysed /\ CompletedIsSettled)'
    BY <2>1 DEF NothingQueued, ReadyIsAnalysed, CompletedIsSettled
  <2>7. SomeoneCloses'
    BY <2>1, FactoryAssumptions DEF SomeoneCloses, Terminal
  <2>8. SettledKept
    BY <2>2 DEF SettledKept, Terminal
  <2>9. QED
    BY <2>4, <2>5, <2>6, <2>7, <2>8
<1>4. QED
  BY <1>2, <1>3

LEMMA ExecuteBeginsKeeps ==
  ASSUME FactoryInv, NEW c \in Clients, ExecuteBegins(c)
  PROVE  FactoryInv' /\ SettledKept
<1>1. Candidates \in SUBSET Items
  BY DEF Candidates
<1>2. Mine(c, "loop")
  BY <1>1, ExecuteBeginsEffect DEF FactoryInv
<1>3. ~ Closing(c)
  BY DEF ExecuteBegins, Closing, At
<1>4. QED
  BY <1>2, <1>3, QuietStep DEF ExecuteBegins, Points, Holding, SettledKept

LEMMA ClaimItemKeeps ==
  ASSUME FactoryInv, NEW c \in Clients, ClaimItem(c)
  PROVE  FactoryInv' /\ SettledKept
<1> USE DEF FactoryInv
<1>1. Current(c) \in Items
  BY CurrentIsItem DEF ClaimItem
<1>2. CASE item[Current(c)] = "NEEDS_ANALYSIS"
  <2>1. Goto(c, "claimed") /\ item' = [item EXCEPT ![Current(c)] = "ANALYZING"]
    BY <1>2 DEF ClaimItem
  <2>2. Mine(c, "claimed") /\ client'[c].queue = client[c].queue
    BY <2>1, GotoEffect DEF Points, Kept
  <2>3. FactoryTypeOK'
    BY <2>1, <2>2 DEF FactoryTypeOK, ClaimItem, Mine, QueueStates
  <2>4. OutcomeOnRecord(c)'
    BY <2>2 DEF OutcomeOnRecord, At, Mine
  <2>5. FactoryInv'
    <3>1. verdict' = verdict /\ session' = session /\ client[c].queue # {}
      BY DEF ClaimItem
    <3>2. "claimed" \in Holding
      BY DEF Holding
    <3>3. QED
      BY <1>2, <2>1, <2>2, <2>3, <2>4, <3>1, <3>2, WorkStep
  <2>6. SettledKept
    BY <1>2, <2>1 DEF SettledKept, Terminal, FactoryTypeOK
  <2>7. QED
    BY <2>5, <2>6
<1>3. CASE item[Current(c)] # "NEEDS_ANALYSIS"
  <2>1. NextItem(c) /\ UNCHANGED <<session, item, vacancy, verdict, sent>>
    BY <1>3 DEF ClaimItem
  <2>2. Mine(c, "loop") /\ client'[c].requeued = client[c].requeued
    BY <2>1, NextItemEffect
  <2>3. Closing(c) => Closing(c)'
    BY <2>2 DEF Closing, Mine, At, ClaimItem
  <2>4. QED
    BY <2>1, <2>2, <2>3, QuietStep DEF Points, Holding, SettledKept
<1>4. QED
  BY <1>2, <1>3

LEMMA ReadVacancyKeeps ==
  ASSUME FactoryInv, NEW c \in Clients, ReadVacancy(c)
  PROVE  FactoryInv' /\ SettledKept
<1> USE DEF FactoryInv
<1>1. client[c].pc \in Holding /\ Current(c) \in Items /\ client[c].queue # {}
  BY HeldIsItem DEF ReadVacancy, At, Holding, HoldsItem
<1>2. CASE vacancy[Current(c)].archived
  BY <1>1, <1>2, SettleStep DEF ReadVacancy, SettledKept, Terminal
<1>3. CASE ~ vacancy[Current(c)].archived
  <2>1. Mine(c, "analyze") /\ client'[c].queue = client[c].queue
    BY <1>1, <1>3, ReadVacancyEffect DEF Kept
  <2>2. UNCHANGED <<session, item, vacancy, verdict, sent>>
    BY <1>3 DEF ReadVacancy
  <2>3. FactoryTypeOK'
    BY <2>1, <2>2 DEF FactoryTypeOK, Mine
  <2>4. OutcomeOnRecord(c)'
    BY <2>1 DEF OutcomeOnRecord, At, Mine
  <2>5. "analyze" \in Holding
    BY DEF Holding
  <2>6. FactoryInv'
    BY <1>1, <2>1, <2>2, <2>3, <2>4, <2>5, WorkStep
  <2>7. QED
    BY <2>2, <2>6 DEF SettledKept
<1>4. QED
  BY <1>2, <1>3

\* A verdict is written over an open operation and no other.
LEMMA VerdictWritten ==
  ASSUME NEW f \in [Items -> [Versions -> Verdicts]], NEW i \in Items, NEW v \in Versions,
         NEW o \in Verdicts, f[i][v] = "open", NEW g, g = [f EXCEPT ![i][v] = o]
  PROVE  /\ g \in [Items -> [Versions -> Verdicts]]
         /\ g[i][v] = o
         /\ \A j \in Items, w \in Versions : f[j][w] # "open" => g[j][w] = f[j][w]
<1>1. g = [f EXCEPT ![i] = [f[i] EXCEPT ![v] = o]]
  OBVIOUS
<1>2. [f[i] EXCEPT ![v] = o] \in [Versions -> Verdicts]
  OBVIOUS
<1>3. g[i] = [f[i] EXCEPT ![v] = o] /\ \A j \in Items \ {i} : g[j] = f[j]
  BY <1>1
<1>4. QED
  BY <1>1, <1>2, <1>3

LEMMA AnalyzeKeeps ==
  ASSUME FactoryInv, NEW c \in Clients, Analyze(c)
  PROVE  FactoryInv' /\ SettledKept
<1> USE DEF FactoryInv
<1>1. /\ client[c].pc \in Holding /\ Current(c) \in Items /\ client[c].queue # {}
      /\ client[c].read \in Versions
  BY HeldIsItem DEF Analyze, At, Holding, HoldsItem, FactoryTypeOK, Client
<1> DEFINE i == Current(c)
           v == client[c].read
<1>2. PICK outcome \in Outcomes :
         /\ \/ outcome = "refused" /\ UNCHANGED <<verdict, sent>>
            \/ client[c].seen[i] = v /\ outcome = verdict[i][v] /\ UNCHANGED <<verdict, sent>>
            \/ client[c].seen[i] = v /\ verdict[i][v] = "open"
               /\ outcome \in Refusals /\ UNCHANGED <<verdict, sent>>
            \/ client[c].seen[i] = v /\ verdict[i][v] = "open"
               /\ outcome = "budget" /\ sent' = sent \cup {<<i, v>>} /\ UNCHANGED verdict
            \/ client[c].seen[i] = v /\ verdict[i][v] = "open"
               /\ outcome \notin Refusals /\ sent' = sent \cup {<<i, v>>}
               /\ verdict' = [verdict EXCEPT ![i][v] = outcome]
         /\ Becomes(c, [client[c] EXCEPT !.pc = "settle", !.outcome = outcome])
  BY Zenon DEF Analyze
<1>3. session' = session /\ item' = item /\ vacancy' = vacancy
  BY DEF Analyze
<1>4. Mine(c, "settle") /\ client'[c].queue = client[c].queue /\ client'[c].outcome = outcome
  BY <1>2, AnalyzeEffect DEF Kept
<1>5. /\ verdict' \in [Items -> [Versions -> Verdicts]]
      /\ \A j \in Items, w \in Versions : verdict[j][w] # "open" => verdict'[j][w] = verdict[j][w]
      /\ outcome \in {"ready", "skip"} => verdict'[i][v] = outcome
  <2> HIDE DEF i, v
  <2>1. verdict \in [Items -> [Versions -> Verdicts]]
    BY DEF FactoryTypeOK
  <2>2. CASE verdict[i][v] = "open" /\ verdict' = [verdict EXCEPT ![i][v] = outcome] /\ outcome \in Verdicts
    BY <1>1, <2>1, <2>2, VerdictWritten DEF i, v
  <2>3. CASE verdict' = verdict /\ (outcome \in Refusals \/ outcome = verdict[i][v])
    BY <2>1, <2>3 DEF Refusals
  <2>4. QED
    BY <1>2, <2>2, <2>3 DEF Refusals, Outcomes
<1>6. FactoryTypeOK'
  <2>1. sent' \subseteq Items \X Versions
    BY <1>1, <1>2 DEF FactoryTypeOK
  <2>2. QED
    BY <1>3, <1>4, <1>5, <2>1 DEF FactoryTypeOK, Mine
<1>7. OutcomeOnRecord(c)'
  <2>1. Current(c)' = Current(c)
    BY <1>4, SameCurrent
  <2>2. QED
    BY <1>1, <1>4, <1>5, <2>1 DEF OutcomeOnRecord
<1>8. "settle" \in Holding
  BY DEF Holding
<1>9. FactoryInv'
  BY <1>1, <1>3, <1>4, <1>5, <1>6, <1>7, <1>8, WorkStep
<1>10. QED
  BY <1>3, <1>9 DEF SettledKept

LEMMA SettleItemKeeps ==
  ASSUME FactoryInv, NEW c \in Clients, SettleItem(c)
  PROVE  FactoryInv' /\ SettledKept
<1> DEFINE s == ItemAfter(client[c].outcome)
<1>1. s \in Terminal \cup {"NEEDS_ANALYSIS"}
  BY DEF ItemAfter, Terminal
<1>2. /\ s = "READY_FOR_MANUAL_APPLY" => client[c].outcome = "ready"
      /\ s = "SKIPPED" => client[c].outcome = "skip"
  BY DEF ItemAfter
<1>3. /\ Settled(c, s) /\ item' = [item EXCEPT ![Current(c)] = s]
      /\ UNCHANGED <<session, vacancy, verdict, sent>>
  BY Zenon DEF SettleItem
<1> HIDE DEF s
<1>4. client[c].pc \in Holding /\ At(c, "settle")
  BY DEF SettleItem, At, Holding
<1>5. s \in {"READY_FOR_MANUAL_APPLY", "SKIPPED"} =>
        \E v \in Versions : verdict[Current(c)][v] = (IF s = "SKIPPED" THEN "skip" ELSE "ready")
  BY <1>2, <1>4 DEF FactoryInv, OutcomeOnRecord
<1>6. QED
  BY <1>1, <1>3, <1>4, <1>5, SettleStep DEF SettledKept

LEMMA FinishExecutionKeeps ==
  ASSUME FactoryInv, NEW c \in Clients, FinishExecution(c)
  PROVE  FactoryInv' /\ SettledKept
<1> USE DEF FactoryInv
<1>1. Mine(c, "done") /\ UNCHANGED <<item, vacancy, verdict, sent>> /\ At(c, "loop")
  BY LeaveEffect DEF FinishExecution
<1>2. \A d \in Clients \ {c} : client'[d] = client[d] /\ Current(d)' = Current(d)
  BY <1>1, SameCurrent DEF Mine
<1>3. client'[c].pc = "done" /\ client[c].pc \notin Holding
  BY <1>1 DEF Mine, At, Holding
<1>4. session' \in {session, "completed"} /\ (session = "absent" => session' = session)
  <2>1. CASE session = "absent"
    <3>1. \A i \in Items : item[i] \notin Terminal
      BY <2>1 DEF NothingQueued, Terminal
    <3>2. session' = session
      BY <3>1, FactoryAssumptions DEF FinishExecution
    <3>3. QED
      BY <2>1, <3>2
  <2>2. QED
    BY <2>1 DEF FinishExecution
<1>5. FactoryTypeOK'
  BY <1>1, <1>4 DEF FactoryTypeOK, Mine
<1>6. \A d \in Clients : (HoldsItem(d) /\ OutcomeOnRecord(d))'
  BY <1>1, <1>2, <1>3 DEF HoldsItem, OutcomeOnRecord, At, Holding
<1>7. (OneAnalystPerItem /\ ReadyIsAnalysed)'
  BY <1>1, <1>2, <1>3 DEF OneAnalystPerItem, ReadyIsAnalysed, Holding
<1>8. (NothingQueued /\ CompletedIsSettled)'
  BY <1>1, <1>4 DEF NothingQueued, CompletedIsSettled, FinishExecution
<1>9. SomeoneCloses'
  <2> SUFFICES ASSUME session' # "completed", \A i \in Items : item[i] \in Terminal
               PROVE  \E d \in Clients : Closing(d)'
    BY <1>1 DEF SomeoneCloses
  <2>1. session # "completed" /\ client[c].requeued
    BY <1>4 DEF FinishExecution, FactoryTypeOK, Client
  <2>2. PICK d \in Clients : Closing(d)
    BY <2>1 DEF SomeoneCloses
  <2>3. d # c
    BY <1>1, <2>1, <2>2 DEF Closing, At
  <2>4. QED
    BY <1>2, <2>2, <2>3 DEF Closing, At
<1>10. QED
  BY <1>1, <1>5, <1>6, <1>7, <1>8, <1>9 DEF SettledKept

-----------------------------------------------------------------------------
(* The invariant.                                                          *)

LEMMA ClientKeeps ==
  ASSUME FactoryInv, NEW c \in Clients,
         Preview(c) \/ Confirm(c) \/ Start(c) \/ Run(c) \/ Return(c) \/ Die(c)
  PROVE  FactoryInv' /\ SettledKept
<1>1. CASE CreateRefused(c) \/ ExecuteRefused(c)
  BY <1>1, QuietLeaveKeeps DEF CreateRefused, ExecuteRefused, Closing, At
<1>2. CASE CreateFinds(c)
  BY <1>2, QuietLeaveKeeps, QuietGotoKeeps DEF CreateFinds, Closing, At
<1>3. CASE Die(c)
  BY <1>3, QuietGotoKeeps DEF Die
<1>4. CASE Return(c)
  <2>1. FactoryTypeOK /\ NewClient.pc = "idle"
    BY DEF FactoryInv, NewClient
  <2>2. Mine(c, "idle") /\ ~ Closing(c)
    BY <1>4, <2>1, NewClientTyped, OneClientMoves DEF Return, Mine, Closing, At
  <2>3. QED
    BY <1>4, <2>2, QuietStep DEF Return, Points, Holding, SettledKept
<1>5. QED
  BY <1>1, <1>2, <1>3, <1>4, PreviewKeeps, InsertKeeps, ExecuteBeginsKeeps, ClaimItemKeeps,
     ReadVacancyKeeps, AnalyzeKeeps, SettleItemKeeps, FinishExecutionKeeps DEF Confirm, Start, Run

\* The vacancies and stuttering.
LEMMA OthersKeep ==
  ASSUME FactoryInv, UNCHANGED <<session, item, verdict, sent, client>>,
         \/ \E i \in Items : Reimport(i) \/ Archive(i)
         \/ UNCHANGED vars
  PROVE  FactoryInv' /\ SettledKept
<1> USE DEF FactoryInv
<1>1. vacancy' \in [Items -> [content : Versions, archived : BOOLEAN, returned : BOOLEAN]]
  <2>1. ASSUME NEW i \in Items, Reimport(i)
        PROVE  vacancy' \in [Items -> [content : Versions, archived : BOOLEAN, returned : BOOLEAN]]
    <3>1. PICK v \in Versions :
             vacancy' = [vacancy EXCEPT ![i].content = v, ![i].returned = @ \/ v = BatchPlan[i]]
      BY <2>1 DEF Reimport
    <3> DEFINE new == [vacancy[i] EXCEPT !.content = v,
                                         !.returned = vacancy[i].returned \/ v = BatchPlan[i]]
    <3>2. vacancy[i] \in [content : Versions, archived : BOOLEAN, returned : BOOLEAN]
      BY DEF FactoryTypeOK
    <3>3. (vacancy[i].returned \/ v = BatchPlan[i]) \in BOOLEAN
      OBVIOUS
    <3>4. new \in [content : Versions, archived : BOOLEAN, returned : BOOLEAN]
      BY <3>2, <3>3
    <3>5. vacancy' = [vacancy EXCEPT ![i] = new]
      BY <3>1, <3>2 DEF FactoryTypeOK
    <3> HIDE DEF new
    <3>6. QED
      BY <3>4, <3>5 DEF FactoryTypeOK
  <2>2. ASSUME NEW i \in Items, Archive(i)
        PROVE  vacancy' \in [Items -> [content : Versions, archived : BOOLEAN, returned : BOOLEAN]]
    BY <2>2 DEF Archive, FactoryTypeOK
  <2>3. CASE UNCHANGED vars
    BY <2>3 DEF vars, FactoryTypeOK
  <2>4. QED
    BY <2>1, <2>2, <2>3
<1>2. FactoryTypeOK'
  BY <1>1 DEF FactoryTypeOK
<1>3. \A d \in Clients : Current(d)' = Current(d)
  BY SameCurrent
<1>4. \A d \in Clients : (HoldsItem(d) /\ OutcomeOnRecord(d))'
  BY <1>3 DEF HoldsItem, OutcomeOnRecord, At
<1>5. OneAnalystPerItem'
  BY <1>3 DEF OneAnalystPerItem
<1>6. (NothingQueued /\ ReadyIsAnalysed /\ CompletedIsSettled /\ SomeoneCloses)'
  BY DEF NothingQueued, ReadyIsAnalysed, CompletedIsSettled, SomeoneCloses, Closing, At
<1>7. QED
  BY <1>2, <1>4, <1>5, <1>6 DEF SettledKept

LEMMA FactoryStep ==
  ASSUME FactoryInv, [Next]_vars
  PROVE  FactoryInv' /\ SettledKept
<1>1. CASE \E i \in Items : Reimport(i) \/ Archive(i)
  BY <1>1, OthersKeep DEF Reimport, Archive
<1>2. CASE UNCHANGED vars
  BY <1>2, OthersKeep DEF vars
<1>3. QED
  BY <1>1, <1>2, ClientKeeps DEF Next

THEOREM FactoryInvariant == Spec => []FactoryInv
<1>1. FactoryInv /\ [Next]_vars => FactoryInv'
  BY FactoryStep
<1>2. QED
  BY FactoryStarts, <1>1, PTL DEF Spec

-----------------------------------------------------------------------------
(* What follows.                                                           *)

\* Two executions of one session never work on the same item, however many
\* clients execute it.
THEOREM OneAnalyst == Spec => []OneAnalystPerItem
<1>1. FactoryInv => OneAnalystPerItem
  BY DEF FactoryInv
<1>2. QED
  BY FactoryInvariant, <1>1, PTL

\* An item is only offered or skipped on a successful analysis of its own.
THEOREM ReadyAnalysed == Spec => []ReadyIsAnalysed
<1>1. FactoryInv => ReadyIsAnalysed
  BY DEF FactoryInv
<1>2. QED
  BY FactoryInvariant, <1>1, PTL

\* The session is completed when its items are settled and nobody executes it,
\* and never before: nobody who left has queued an item again last.
THEOREM SessionTellsItems == Spec => []SessionOnRecord
<1>1. FactoryInv => SessionOnRecord
  <2> SUFFICES ASSUME FactoryInv PROVE LastOneCompletes
    BY DEF FactoryInv, SessionOnRecord
  <2>1. (\A c \in Clients : client[c].pc \in {"idle", "reviewed", "done"})
           => ~ \E c \in Clients : Closing(c)
    BY DEF Closing, At
  <2>2. QED
    BY <2>1 DEF FactoryInv, SomeoneCloses, LastOneCompletes
<1>2. QED
  BY FactoryInvariant, <1>1, PTL

\* A settled item stays as it was settled, whoever confirms or executes later.
THEOREM SettledItemsStay == Spec => SettledStays
<1>1. FactoryInv /\ [Next]_vars => [\A i \in Items : item[i] \in Terminal => item'[i] = item[i]]_vars
  BY FactoryStep DEF SettledKept
<1>2. QED
  BY FactoryInvariant, <1>1, PTL DEF Spec, SettledStays

-----------------------------------------------------------------------------
(* The plan, of the items whose vacancies have not come back to it.         *)

\* While the plan of such an item is the batch's, a client that has reviewed it
\* holds a receipt for that, and one that executes holds nothing else.
Steady(i) == ~ vacancy[i].returned

ReceiptsHold(c) ==
    /\ At(c, "reviewed") =>
         \A i \in Items : Steady(i) /\ Plan[i] = 1 => client[c].seen[i] = 1
    /\ client[c].pc \in {"loop"} \cup Holding =>
         \A i \in Items : Steady(i) => client[c].seen[i] = 1

PlanInv ==
    /\ \A c \in Clients : ReceiptsHold(c)
    /\ \A s \in sent : Steady(s[1]) => s[2] = 1

\* A step that leaves the vacancies and what was sent alone.
LEMMA ReceiptsStay ==
  ASSUME FactoryInv, PlanInv, NEW c \in Clients, NEW p, Mine(c, p), UNCHANGED <<vacancy, sent>>,
         ReceiptsHold(c)'
  PROVE  PlanInv'
<1>1. Plan' = Plan /\ \A i : Steady(i)' <=> Steady(i)
  BY DEF Plan, Steady
<1>2. \A d \in Clients \ {c} : ReceiptsHold(d)'
  BY <1>1 DEF PlanInv, ReceiptsHold, Mine, At
<1>3. QED
  BY <1>1, <1>2 DEF PlanInv

LEMMA LeaveKeepsPlan ==
  ASSUME FactoryInv, PlanInv, NEW c \in Clients, NEW p \in {"idle", "insert", "done", "dead"},
         Mine(c, p), UNCHANGED <<vacancy, sent>>
  PROVE  PlanInv'
<1>1. ReceiptsHold(c)'
  BY DEF ReceiptsHold, Mine, At, Holding
<1>2. QED
  BY <1>1, ReceiptsStay

LEMMA WorkKeepsPlan ==
  ASSUME FactoryInv, PlanInv, NEW c \in Clients, NEW p \in {"loop"} \cup Holding, Mine(c, p),
         client'[c].seen = client[c].seen,
         \A i \in Items : Steady(i) => client[c].seen[i] = 1,
         UNCHANGED <<vacancy, sent>>
  PROVE  PlanInv'
<1>1. ReceiptsHold(c)'
  BY DEF ReceiptsHold, Mine, At, Holding, Steady
<1>2. QED
  BY <1>1, ReceiptsStay

LEMMA RunKeepsPlan ==
  ASSUME FactoryInv, PlanInv, NEW c \in Clients, Run(c)
  PROVE  PlanInv'
<1> USE DEF FactoryInv
<1>1. \A i \in Items : Steady(i) => client[c].seen[i] = 1
  BY DEF PlanInv, ReceiptsHold, Run, ClaimItem, ReadVacancy, Analyze, SettleItem, FinishExecution,
         At, Holding
<1>2. client[c].pc \in Holding => Current(c) \in Items
  BY HeldIsItem
<1>3. CASE ClaimItem(c)
  <2>1. CASE Goto(c, "claimed")
    BY <1>1, <1>3, <2>1, GotoEffect, WorkKeepsPlan DEF ClaimItem, Kept, Points, Holding
  <2>2. CASE NextItem(c)
    BY <1>1, <1>3, <2>2, NextItemEffect, WorkKeepsPlan DEF ClaimItem
  <2>3. QED
    BY <1>3, <2>1, <2>2 DEF ClaimItem
<1>4. CASE ReadVacancy(c)
  <2>1. CASE vacancy[Current(c)].archived
    BY <1>1, <1>4, <2>1, SettledEffect, WorkKeepsPlan DEF ReadVacancy
  <2>2. CASE ~ vacancy[Current(c)].archived
    <3>1. Current(c) \in Items /\ UNCHANGED <<vacancy, sent>>
      BY <1>2, <1>4 DEF ReadVacancy, At, Holding
    <3>2. QED
      BY <1>1, <1>4, <2>2, <3>1, ReadVacancyEffect, WorkKeepsPlan DEF Kept, Holding
  <2>3. QED
    BY <2>1, <2>2
<1>5. CASE Analyze(c)
  <2> DEFINE i == Current(c)
             v == client[c].read
  <2>1. Mine(c, "settle") /\ client'[c].seen = client[c].seen
    BY <1>5, AnalyzeEffect, Zenon DEF Analyze, Kept
  <2>2. sent' = sent \/ (client[c].seen[i] = v /\ sent' = sent \cup {<<i, v>>})
    BY <1>5, Zenon DEF Analyze
  <2>3. i \in Items
    BY <1>2, <1>5 DEF Analyze, At, Holding
  <2>4. \A s \in sent' : Steady(s[1]) => s[2] = 1
    BY <1>1, <2>2, <2>3 DEF PlanInv
  <2>5. Plan' = Plan /\ \A j : Steady(j)' <=> Steady(j)
    BY <1>5 DEF Analyze, Plan, Steady
  <2>6. \A d \in Clients : ReceiptsHold(d)'
    BY <1>1, <2>1, <2>5 DEF PlanInv, ReceiptsHold, Mine, At, Holding
  <2>7. QED
    BY <2>4, <2>5, <2>6 DEF PlanInv
<1>6. CASE SettleItem(c)
  BY <1>1, <1>6, SettledEffect, WorkKeepsPlan DEF SettleItem
<1>7. CASE FinishExecution(c)
  BY <1>7, LeaveEffect, LeaveKeepsPlan DEF FinishExecution
<1>8. QED
  BY <1>3, <1>4, <1>5, <1>6, <1>7 DEF Run

LEMMA PlanStep ==
  ASSUME FactoryInv, PlanInv, [Next]_vars
  PROVE  PlanInv'
<1> USE DEF FactoryInv
<1>1. ASSUME NEW c \in Clients, Preview(c) PROVE PlanInv'
  <2>1. Mine(c, "reviewed") /\ client'[c].seen = Plan
    BY <1>1, PreviewEffect
  <2>2. Plan' = Plan /\ UNCHANGED <<vacancy, sent>>
    BY <1>1 DEF Preview, Plan
  <2>3. ReceiptsHold(c)'
    BY <2>1, <2>2 DEF ReceiptsHold, Mine, At, Holding
  <2>4. QED
    BY <2>1, <2>2, <2>3, ReceiptsStay
<1>2. ASSUME NEW c \in Clients, Confirm(c) \/ ExecuteRefused(c) PROVE PlanInv'
  <2>1. (Leave(c) \/ Goto(c, "insert")) /\ UNCHANGED <<vacancy, sent>>
    BY <1>2 DEF Confirm, CreateRefused, CreateFinds, Insert, ExecuteRefused
  <2>2. QED
    BY <2>1, LeaveEffect, GotoEffect, LeaveKeepsPlan DEF Points
<1>3. ASSUME NEW c \in Clients, ExecuteBegins(c) PROVE PlanInv'
  <2>1. Candidates \in SUBSET Items
    BY DEF Candidates
  <2>2. Mine(c, "loop") /\ client'[c].seen = client[c].seen /\ UNCHANGED <<vacancy, sent>>
    BY <1>3, <2>1, ExecuteBeginsEffect DEF ExecuteBegins
  <2>3. \A i \in Items : Plan[i] = 1
    BY <1>3 DEF ExecuteBegins, BatchPlan
  <2>4. \A i \in Items : Steady(i) => client[c].seen[i] = 1
    BY <1>3, <2>3 DEF ExecuteBegins, PlanInv, ReceiptsHold
  <2>5. QED
    BY <2>2, <2>4, WorkKeepsPlan
<1>4. ASSUME NEW c \in Clients, Return(c) \/ Die(c) PROVE PlanInv'
  <2>1. CASE Return(c)
    <3>1. NewClient.pc = "idle"
      BY DEF NewClient
    <3>2. Mine(c, "idle")
      BY <2>1, <3>1, NewClientTyped, OneClientMoves DEF Return, Mine
    <3>3. QED
      BY <2>1, <3>2, LeaveKeepsPlan DEF Return
  <2>2. CASE Die(c)
    BY <2>2, GotoEffect, LeaveKeepsPlan DEF Die, Points
  <2>3. QED
    BY <1>4, <2>1, <2>2
<1>5. ASSUME NEW i \in Items, Reimport(i) \/ Archive(i) PROVE PlanInv'
  <2>1. \A j \in Items : Steady(j)' => Steady(j) /\ (Plan'[j] = 1 => Plan[j] = 1)
    <3>1. CASE Reimport(i)
      <4>1. PICK v \in Versions :
               vacancy' = [vacancy EXCEPT ![i].content = v, ![i].returned = @ \/ v = BatchPlan[i]]
        BY <3>1 DEF Reimport
      <4>2. BatchPlan[i] = 1
        BY DEF BatchPlan
      <4>3. ASSUME NEW j \in Items, j # i PROVE vacancy'[j] = vacancy[j]
        BY <4>1, <4>3 DEF FactoryTypeOK
      <4>4. /\ vacancy'[i].content = v /\ vacancy'[i].archived = vacancy[i].archived
            /\ vacancy'[i].returned = (vacancy[i].returned \/ v = 1)
        BY <4>1, <4>2 DEF FactoryTypeOK
      <4>5. QED
        BY <4>3, <4>4 DEF Plan, Steady, Archived
    <3>2. CASE Archive(i)
      BY <3>2 DEF Archive, Plan, Archived, Steady, FactoryTypeOK
    <3>3. QED
      BY <1>5, <3>1, <3>2
  <2>2. client' = client /\ sent' = sent
    BY <1>5 DEF Reimport, Archive
  <2>3. \A s \in sent : s[1] \in Items
    BY DEF FactoryTypeOK
  <2>4. \A s \in sent' : Steady(s[1])' => s[2] = 1
    BY <2>1, <2>2, <2>3 DEF PlanInv
  <2>5. \A d \in Clients : ReceiptsHold(d)'
    BY <2>1, <2>2 DEF PlanInv, ReceiptsHold, At
  <2>6. QED
    BY <2>4, <2>5 DEF PlanInv
<1>6. ASSUME UNCHANGED vars PROVE PlanInv'
  BY <1>6 DEF vars, PlanInv, ReceiptsHold, At, Plan, Steady
<1>7. QED
  BY <1>1, <1>2, <1>3, <1>4, <1>5, <1>6, RunKeepsPlan DEF Next, Start

\* The comment at r5_application_factory.py:502 as far as it is true: of an item
\* whose vacancy has not come back to the plan's content from another, a session
\* sends the content of its plan and no other.
THEOREM PlanKept == Spec => []PlanIsKeptUnlessReturned
<1>1. Init => PlanInv
  BY DEF Init, PlanInv, ReceiptsHold, NewClient, At, Holding
<1>2. FactoryInv /\ PlanInv /\ [Next]_vars => PlanInv'
  BY PlanStep
<1>3. FactoryInv /\ PlanInv => PlanIsKeptUnlessReturned
  <2>1. ASSUME FactoryInv, PlanInv, NEW s \in sent
        PROVE  s[2] = BatchPlan[s[1]] \/ vacancy[s[1]].returned
    <3>1. s[1] \in Items /\ (Steady(s[1]) => s[2] = 1)
      BY <2>1 DEF FactoryInv, FactoryTypeOK, PlanInv
    <3>2. QED
      BY <3>1 DEF BatchPlan, Steady
  <2>2. QED
    BY <2>1 DEF PlanIsKeptUnlessReturned
<1>4. QED
  BY FactoryInvariant, <1>1, <1>2, <1>3, PTL DEF Spec
=============================================================================
