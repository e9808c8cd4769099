------------------------------ MODULE MCRecords ------------------------------
(* What the companion keeps: the workflow of an application, its letters, its *)
(* follow-ups and the ledger of provider attempts.  They share no table but   *)
(* the log, and are checked side by side: each behaviour is one of one part,  *)
(* chosen by its initial state.                                               *)
EXTENDS ApplicationWorkflow, CoverLetters, FollowUps, ProviderCoordinator, TLC

CONSTANTS w1, w2, e1, e2, c1, c2, text1, text2, k1, op1, op2, r1, r2, r3

VARIABLE part

Parts == {"workflow", "letters", "followups", "ledger"}

RecordsInit ==
    /\ part \in Parts
    /\ Init /\ LettersInit /\ FollowUpsInit /\ CoordinatorInit

RecordsNext ==
    \/ part = "workflow" /\ Next /\ UNCHANGED <<part, lettersVars, followUpVars, coordinatorVars>>
    \/ part = "letters" /\ LettersNext /\ UNCHANGED <<part, vars, followUpVars, coordinatorVars>>
    \/ part = "followups" /\ FollowUpsNext /\ UNCHANGED <<part, vars, lettersVars, coordinatorVars>>
    \/ part = "ledger" /\ CoordinatorNext /\ UNCHANGED <<part, vars, lettersVars, followUpVars>>

RecordsSpec ==
    RecordsInit /\ [][RecordsNext]_<<part, vars, lettersVars, followUpVars, coordinatorVars>>

\* The callers of the ledger are interchangeable.
CallerSymmetry == Permutations(Requests)
=============================================================================
