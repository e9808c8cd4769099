------------------------------- MODULE MCBatches -------------------------------
(* A batch of vacancies that clients analyse for applications, and beside it   *)
(* what the companion takes in from outside: the tokens of the HH account and  *)
(* engine packages.  Each behaviour is one of one part, chosen by its initial  *)
(* state.                                                                      *)
EXTENDS ApplicationFactory, HHOAuth, EnginePackage

VARIABLE part

Parts == {"factory", "account", "package"}

\* Two packages, one that is the first with another label and other instructions, and one
\* whose manifest does not claim the last of its files.
Package(label, instructions, first, last, claimed) ==
    "manifest" :> [label |-> label, files |-> ("01" :> first @@ "02" :> claimed)]
    @@ "checksums" :> ("01" :> first @@ "02" :> last @@ "instructions" :> instructions)
    @@ "instructions" :> instructions @@ "01" :> first @@ "02" :> last

MCPackages == {Package("old", "i", "a", "b", "b"), Package("new", "i", "c", "c", "c"),
               Package("relabelled", "j", "a", "b", "b"), Package("odd", "i", "a", "d", "b")}
MCFiles == <<"01", "02">>

BatchesInit == part \in Parts /\ Init /\ OAuthInit /\ EngineInit

BatchesNext ==
    \/ part = "factory" /\ Next /\ UNCHANGED <<part, oauthVars, engineVars>>
    \/ part = "account" /\ OAuthNext /\ UNCHANGED <<part, vars, engineVars>>
    \/ part = "package" /\ EngineNext /\ UNCHANGED <<part, vars, oauthVars>>

\* The fairness of the factory, where it runs.
BatchesSpec ==
    /\ BatchesInit /\ [][BatchesNext]_<<part, vars, oauthVars, engineVars>>
    /\ \A c \in Clients : WF_vars(part = "factory" /\ Run(c))
=============================================================================
