-------------------------- MODULE IntegrationsProofs --------------------------
(* The account at HH, the private engine package and the sync of vacancies:  *)
(* a refresh token is not sent again once its answer is kept, the active     *)
(* package stays whole, and a sync reports what it stored, for any number of *)
(* threads, tokens, installations, loads and requests.                       *)
EXTENDS HHOAuth, EnginePackage, HHSync, TLAPS

(* The HH account.                                                         *)

OAuthSpec == OAuthInit /\ [][OAuthNext]_oauthVars

Points == {"idle", "exchanging", "waiting", "locked", "refreshing", "storing", "stored"}
Requests == [at : Points, sent : Nat, granted : Nat]

OAuthTypeOK ==
    /\ bundle \in Nat /\ issued \in Nat
    /\ flow \in [Flows -> Requests] /\ thread \in [Threads -> Requests]

Refreshes(c) == thread[c].at \in {"locked", "refreshing", "storing", "stored"}
Spends(c) == thread[c].at \in {"refreshing", "storing"}
Stores(r) == r.at = "storing"

\* The refresh is serialised.
RefreshHoldsLock == \A c \in Threads : Refreshes(c) => lock = c

\* What is in the keyring has not been replaced.
BundleIsCurrent == bundle <= issued /\ replaced \subseteq 1..issued /\ bundle \notin replaced

\* A token on its way to HH came from the keyring.
SentIsIssued == \A c \in Threads : Spends(c) => thread[c].sent \in 1..issued

IsNew(t) == t \in 1..issued /\ t \notin replaced

\* An answer that is not stored yet is the answer to another token than any that are in the
\* keyring, on their way, or waiting to be stored.
RefreshedIsNew == \A c \in Threads : Stores(thread[c]) => IsNew(thread[c].granted) /\ thread[c].granted # thread[c].sent
ExchangedIsNew ==
    \A f \in Flows : Stores(flow[f]) =>
        /\ IsNew(flow[f].granted) /\ flow[f].granted # bundle
        /\ \A g \in Flows \ {f} : Stores(flow[g]) => flow[g].granted # flow[f].granted
        /\ \A c \in Threads : /\ Stores(thread[c]) => thread[c].granted # flow[f].granted
                              /\ Spends(c) => thread[c].sent # flow[f].granted

OAuthInv ==
    /\ OAuthTypeOK
    /\ RefreshHoldsLock
    /\ BundleIsCurrent
    /\ SentIsIssued
    /\ RefreshedIsNew
    /\ ExchangedIsNew
    /\ RefreshTokenSpentOnce

USE DEF NoToken, Stores, Spends, Refreshes, IsNew

-----------------------------------------------------------------------------
LEMMA OAuthStarts == OAuthInit => OAuthInv
  BY OAuthAssumption
  DEF OAuthInit, OAuthInv, OAuthTypeOK, Requests, Points, Waits, RefreshHoldsLock, BundleIsCurrent,
      SentIsIssued, RefreshedIsNew, ExchangedIsNew, RefreshTokenSpentOnce

\* A request that begins, waits or ends spends and stores nothing.
LEMMA QuietSteps ==
  ASSUME OAuthInv, OAuthTypeOK',
         bundle' \in {bundle, 0}, UNCHANGED <<issued, replaced>>,
         \A f \in Flows : flow'[f] = flow[f] \/ ~Stores(flow'[f]),
         \A c \in Threads : \/ thread'[c] = thread[c] /\ lock' = lock
                            \/ ~Refreshes(c)'
  PROVE  OAuthInv'
<1>1. RefreshHoldsLock'
  BY DEF OAuthInv, RefreshHoldsLock
<1>2. BundleIsCurrent'
  BY DEF OAuthInv, OAuthTypeOK, BundleIsCurrent
<1>3. SentIsIssued' /\ RefreshedIsNew' /\ RefreshTokenSpentOnce'
  BY DEF OAuthInv, SentIsIssued, RefreshedIsNew, RefreshTokenSpentOnce
<1>4. ExchangedIsNew'
  BY DEF OAuthInv, OAuthTypeOK, ExchangedIsNew
<1>5. QED
  BY <1>1, <1>2, <1>3, <1>4 DEF OAuthInv

-----------------------------------------------------------------------------
(* The steps of an authorization.                                          *)

LEMMA FlowWaits ==
  ASSUME OAuthInv, NEW f \in Flows,
         StartOAuth(f) \/ PendingExpires(f) \/ Callback(f) \/ RememberTokens(f)
  PROVE  OAuthInv'
<1>1. OAuthTypeOK'
  BY DEF OAuthInv, OAuthTypeOK, Requests, Points, Waits, hhVars,
         StartOAuth, PendingExpires, Callback, RememberTokens
<1>2. \A g \in Flows : flow'[g] = flow[g] \/ ~Stores(flow'[g])
  BY DEF OAuthInv, OAuthTypeOK, Requests, Waits, StartOAuth, PendingExpires, Callback, RememberTokens
<1>3. UNCHANGED <<bundle, issued, replaced, thread, lock>>
  BY DEF StartOAuth, PendingExpires, Callback, RememberTokens, hhVars
<1>4. QED
  BY <1>1, <1>2, <1>3, QuietSteps

LEMMA CodeIsExchanged ==
  ASSUME OAuthInv, NEW f \in Flows, ExchangeCode(f)
  PROVE  OAuthInv'
<1>1. CASE UNCHANGED issued /\ flow' = [flow EXCEPT ![f] = Waits]
  <2>1. OAuthTypeOK'
    BY <1>1 DEF OAuthInv, OAuthTypeOK, Requests, Points, Waits, ExchangeCode
  <2>2. \A g \in Flows : flow'[g] = flow[g] \/ ~Stores(flow'[g])
    BY <1>1 DEF OAuthInv, OAuthTypeOK, Waits
  <2>3. QED
    BY <1>1, <2>1, <2>2, QuietSteps DEF ExchangeCode
<1>2. CASE issued' = issued + 1 /\ flow' = [flow EXCEPT ![f].at = "storing", ![f].granted = issued']
  <2>1. OAuthTypeOK'
    BY <1>2 DEF OAuthInv, OAuthTypeOK, Requests, Points, ExchangeCode
  <2>2. UNCHANGED <<bundle, replaced, thread, lock>>
    BY DEF ExchangeCode
  <2>3. RefreshHoldsLock' /\ BundleIsCurrent' /\ SentIsIssued' /\ RefreshedIsNew' /\ RefreshTokenSpentOnce'
    BY <1>2, <2>2 DEF OAuthInv, OAuthTypeOK, Requests, RefreshHoldsLock, BundleIsCurrent, SentIsIssued,
                      RefreshedIsNew, RefreshTokenSpentOnce
  <2>4. \A g \in Flows : flow'[g] = IF g = f THEN [flow[f] EXCEPT !.at = "storing", !.granted = issued + 1]
                                    ELSE flow[g]
    BY <1>2 DEF OAuthInv, OAuthTypeOK
  <2>5. /\ bundle < issued + 1 /\ issued + 1 \notin replaced
        /\ \A c \in Threads : /\ Stores(thread[c]) => thread[c].granted # issued + 1
                              /\ Spends(c) => thread[c].sent # issued + 1
        /\ \A g \in Flows : Stores(flow[g]) => flow[g].granted # issued + 1
    BY DEF OAuthInv, OAuthTypeOK, Requests, BundleIsCurrent, SentIsIssued, RefreshedIsNew, ExchangedIsNew
  <2>6. ExchangedIsNew'
    BY <1>2, <2>2, <2>4, <2>5 DEF OAuthInv, OAuthTypeOK, Requests, ExchangedIsNew
  <2>7. QED
    BY <2>1, <2>3, <2>6 DEF OAuthInv
<1>3. QED
  BY <1>1, <1>2 DEF ExchangeCode

LEMMA TokensAreStored ==
  ASSUME OAuthInv, NEW f \in Flows, StoreTokens(f)
  PROVE  OAuthInv'
<1>1. OAuthTypeOK'
  BY DEF OAuthInv, OAuthTypeOK, Requests, Points, Waits, StoreTokens, hhVars
<1>2. \A g \in Flows : flow'[g] = flow[g] \/ ~Stores(flow'[g])
  BY DEF OAuthInv, OAuthTypeOK, Requests, Waits, StoreTokens
<1>3. UNCHANGED <<issued, replaced, thread, lock>>
  BY DEF StoreTokens, hhVars
<1>4. CASE UNCHANGED bundle
  BY <1>1, <1>2, <1>3, <1>4, QuietSteps
<1>5. CASE bundle' = flow[f].granted /\ flow' = [flow EXCEPT ![f].at = "stored"]
  <2>1. ~Stores(flow'[f])
    BY <1>5 DEF OAuthInv, OAuthTypeOK, Requests
  <2>2. RefreshHoldsLock' /\ SentIsIssued' /\ RefreshedIsNew' /\ RefreshTokenSpentOnce'
    BY <1>3 DEF OAuthInv, RefreshHoldsLock, SentIsIssued, RefreshedIsNew, RefreshTokenSpentOnce
  <2>3. BundleIsCurrent'
    BY <1>3, <1>5 DEF OAuthInv, OAuthTypeOK, BundleIsCurrent, ExchangedIsNew, StoreTokens
  <2>4. ExchangedIsNew'
    BY <1>2, <1>3, <1>5, <2>1 DEF OAuthInv, ExchangedIsNew, StoreTokens
  <2>5. QED
    BY <1>1, <2>2, <2>3, <2>4 DEF OAuthInv
<1>6. QED
  BY <1>4, <1>5 DEF StoreTokens

LEMMA AccountIsLeft ==
  ASSUME OAuthInv, Disconnect \/ RestartCompanion
  PROVE  OAuthInv'
<1>1. OAuthTypeOK'
  BY DEF OAuthInv, OAuthTypeOK, Requests, Points, Waits, hhVars, Disconnect, RestartCompanion
<1>2. bundle' \in {bundle, 0} /\ UNCHANGED <<issued, replaced>>
  BY DEF Disconnect, RestartCompanion, hhVars
<1>3. \A f \in Flows : flow'[f] = flow[f] \/ ~Stores(flow'[f])
  BY DEF Waits, Disconnect, RestartCompanion
<1>4. \A c \in Threads : (thread'[c] = thread[c] /\ lock' = lock) \/ ~Refreshes(c)'
  BY DEF Waits, Disconnect, RestartCompanion
<1>5. QED
  BY <1>1, <1>2, <1>3, <1>4, QuietSteps

-----------------------------------------------------------------------------
(* The steps of a refresh.                                                 *)

\* The lock is left by the thread that holds it.
LEMMA LeavesIsQuiet ==
  ASSUME OAuthInv, NEW c \in Threads, Leaves(c), Refreshes(c), UNCHANGED <<bundle, issued, replaced, flow>>
  PROVE  OAuthInv'
<1>1. OAuthTypeOK'
  BY DEF OAuthInv, OAuthTypeOK, Requests, Points, Waits, Leaves
<1>2. \A d \in Threads : ~Refreshes(d)'
  BY DEF OAuthInv, OAuthTypeOK, RefreshHoldsLock, Waits, Leaves
<1>3. QED
  BY <1>1, <1>2, QuietSteps

LEMMA CallerWaits ==
  ASSUME OAuthInv, NEW c \in Threads, NeedToken(c)
  PROVE  OAuthInv'
<1>1. OAuthTypeOK'
  BY DEF OAuthInv, OAuthTypeOK, Requests, Points, NeedToken, hhVars
<1>2. \A d \in Threads : (thread'[d] = thread[d] /\ lock' = lock) \/ ~Refreshes(d)'
  BY DEF OAuthInv, OAuthTypeOK, Requests, NeedToken
<1>3. QED
  BY <1>1, <1>2, QuietSteps DEF NeedToken, hhVars

LEMMA LockIsTaken ==
  ASSUME OAuthInv, NEW c \in Threads, TakeLock(c)
  PROVE  OAuthInv'
<1>1. OAuthTypeOK'
  BY DEF OAuthInv, OAuthTypeOK, Requests, Points, Waits, TakeLock, hhVars
<1>2. UNCHANGED <<bundle, issued, replaced, flow>>
  BY DEF TakeLock, hhVars
<1>3. \A d \in Threads : ~Refreshes(d)
  BY OAuthAssumption DEF OAuthInv, RefreshHoldsLock, TakeLock
<1>4. \A d \in Threads : ~Spends(d)' /\ ~Stores(thread'[d]) /\ (Refreshes(d)' => lock' = d)
  BY <1>3 DEF OAuthInv, OAuthTypeOK, Requests, Waits, TakeLock
<1>5. RefreshHoldsLock' /\ BundleIsCurrent' /\ SentIsIssued' /\ RefreshedIsNew' /\ RefreshTokenSpentOnce'
  BY <1>2, <1>4 DEF OAuthInv, RefreshHoldsLock, BundleIsCurrent, SentIsIssued, RefreshedIsNew, RefreshTokenSpentOnce
<1>6. ExchangedIsNew'
  BY <1>2, <1>4 DEF OAuthInv, ExchangedIsNew
<1>7. QED
  BY <1>1, <1>5, <1>6 DEF OAuthInv

\* The other threads wait while one refreshes.
LEMMA OthersWait ==
  ASSUME OAuthInv, NEW c \in Threads, Refreshes(c)
  PROVE  \A d \in Threads \ {c} : ~Refreshes(d)
  BY DEF OAuthInv, RefreshHoldsLock

LEMMA BundleIsRead ==
  ASSUME OAuthInv, NEW c \in Threads, ReadBundle(c)
  PROVE  OAuthInv'
<1>1. CASE bundle = NoToken
  BY <1>1, LeavesIsQuiet DEF ReadBundle, hhVars
<1>2. CASE /\ bundle # NoToken /\ UNCHANGED lock
           /\ thread' = [thread EXCEPT ![c].at = "refreshing", ![c].sent = bundle]
  <2>1. OAuthTypeOK'
    BY <1>2 DEF OAuthInv, OAuthTypeOK, Requests, Points, ReadBundle, hhVars
  <2>2. UNCHANGED <<bundle, issued, replaced, flow, lock>>
    BY <1>2 DEF ReadBundle, hhVars
  <2>3. /\ \A d \in Threads \ {c} : thread'[d] = thread[d] /\ ~Refreshes(d)'
        /\ thread'[c].at = "refreshing" /\ thread'[c].sent = bundle
    BY <1>2, OthersWait DEF OAuthInv, OAuthTypeOK, Requests, ReadBundle
  <2>4. lock = c /\ bundle \in 1..issued
    BY <1>2 DEF OAuthInv, OAuthTypeOK, BundleIsCurrent, RefreshHoldsLock, ReadBundle
  <2>5. RefreshHoldsLock' /\ BundleIsCurrent' /\ SentIsIssued' /\ RefreshedIsNew' /\ RefreshTokenSpentOnce'
    BY <2>2, <2>3, <2>4 DEF OAuthInv, RefreshHoldsLock, BundleIsCurrent, SentIsIssued, RefreshedIsNew,
                            RefreshTokenSpentOnce
  <2>6. ExchangedIsNew'
    BY <2>2, <2>3 DEF OAuthInv, ExchangedIsNew
  <2>7. QED
    BY <2>1, <2>5, <2>6 DEF OAuthInv
<1>3. QED
  BY <1>1, <1>2 DEF ReadBundle

LEMMA TokenIsRefreshed ==
  ASSUME OAuthInv, NEW c \in Threads, RefreshToken(c)
  PROVE  OAuthInv'
<1>1. UNCHANGED <<bundle, replaced, flow>> /\ Refreshes(c) /\ Spends(c)
  BY DEF RefreshToken
<1>2. CASE Leaves(c) /\ UNCHANGED issued
  BY <1>1, <1>2, LeavesIsQuiet
<1>3. CASE Leaves(c) /\ issued' = issued + 1
  <2>1. OAuthTypeOK'
    BY <1>1, <1>3 DEF OAuthInv, OAuthTypeOK, Requests, Points, Waits, Leaves
  <2>2. \A d \in Threads : ~Refreshes(d)'
    BY <1>1, <1>3 DEF OAuthInv, OAuthTypeOK, RefreshHoldsLock, Waits, Leaves
  <2>3. RefreshHoldsLock' /\ SentIsIssued' /\ RefreshedIsNew' /\ RefreshTokenSpentOnce'
    BY <2>2 DEF RefreshHoldsLock, SentIsIssued, RefreshedIsNew, RefreshTokenSpentOnce
  <2>4. BundleIsCurrent' /\ ExchangedIsNew'
    BY <1>1, <1>3, <2>2 DEF OAuthInv, OAuthTypeOK, BundleIsCurrent, ExchangedIsNew
  <2>5. QED
    BY <2>1, <2>3, <2>4 DEF OAuthInv
<1>4. CASE issued' = issued + 1 /\ UNCHANGED lock
           /\ thread' = [thread EXCEPT ![c].at = "storing", ![c].granted = issued']
  <2>1. OAuthTypeOK'
    <3>1. issued + 1 \in Nat /\ thread \in [Threads -> Requests]
      BY DEF OAuthInv, OAuthTypeOK
    <3>2. [thread[c] EXCEPT !.at = "storing", !.granted = issued + 1] \in Requests
      BY <3>1 DEF Requests, Points
    <3>3. thread' = [thread EXCEPT ![c] = [thread[c] EXCEPT !.at = "storing", !.granted = issued + 1]]
      BY <1>4, <3>1
    <3>4. QED
      BY <1>1, <1>4, <3>1, <3>2, <3>3 DEF OAuthInv, OAuthTypeOK
  <2>2. /\ \A d \in Threads \ {c} : thread'[d] = thread[d] /\ ~Refreshes(d)'
        /\ thread'[c].at = "storing" /\ thread'[c].granted = issued + 1
        /\ thread'[c].sent = thread[c].sent
    BY <1>1, <1>4, OthersWait DEF OAuthInv, OAuthTypeOK, Requests
  <2>3. lock = c /\ thread[c].sent \in 1..issued
    BY <1>1 DEF OAuthInv, RefreshHoldsLock, SentIsIssued
  <2>4. \A f \in Flows : Stores(flow[f]) => flow[f].granted # issued + 1
    BY DEF OAuthInv, OAuthTypeOK, Requests, ExchangedIsNew
  <2>5. RefreshHoldsLock' /\ BundleIsCurrent' /\ SentIsIssued'
    BY <1>1, <1>4, <2>2, <2>3 DEF OAuthInv, OAuthTypeOK, Requests, RefreshHoldsLock, BundleIsCurrent, SentIsIssued
  <2>6. RefreshedIsNew' /\ RefreshTokenSpentOnce'
    BY <1>1, <1>4, <2>2, <2>3 DEF OAuthInv, OAuthTypeOK, Requests, BundleIsCurrent, RefreshedIsNew,
                                  RefreshTokenSpentOnce
  <2>7. ExchangedIsNew'
    BY <1>1, <1>4, <2>2, <2>4 DEF OAuthInv, OAuthTypeOK, Requests, ExchangedIsNew
  <2>8. QED
    BY <2>1, <2>5, <2>6, <2>7 DEF OAuthInv
<1>5. QED
  BY <1>2, <1>3, <1>4 DEF RefreshToken

LEMMA RefreshedIsStored ==
  ASSUME OAuthInv, NEW c \in Threads, StoreRefreshed(c)
  PROVE  OAuthInv'
<1>1. CASE Leaves(c) /\ UNCHANGED <<bundle, replaced>>
  BY <1>1, LeavesIsQuiet DEF StoreRefreshed, hhVars
<1>2. CASE /\ bundle' = thread[c].granted /\ replaced' = replaced \cup {thread[c].sent}
           /\ thread' = [thread EXCEPT ![c].at = "stored"] /\ UNCHANGED lock
  <2>1. OAuthTypeOK'
    BY <1>2 DEF OAuthInv, OAuthTypeOK, Requests, Points, StoreRefreshed, hhVars
  <2>2. UNCHANGED <<issued, flow, lock>> /\ Refreshes(c) /\ Spends(c) /\ Stores(thread[c])
    BY <1>2 DEF StoreRefreshed, hhVars
  <2>3. /\ \A d \in Threads \ {c} : ~Refreshes(d)'
        /\ thread'[c].at = "stored"
    BY <1>2, <2>2, OthersWait DEF OAuthInv, OAuthTypeOK, Requests
  <2>4. RefreshHoldsLock' /\ SentIsIssued' /\ RefreshedIsNew' /\ RefreshTokenSpentOnce'
    BY <2>2, <2>3 DEF OAuthInv, RefreshHoldsLock, SentIsIssued, RefreshedIsNew, RefreshTokenSpentOnce
  <2>5. BundleIsCurrent'
    BY <1>2, <2>2 DEF OAuthInv, OAuthTypeOK, Requests, BundleIsCurrent, SentIsIssued, RefreshedIsNew
  <2>6. ExchangedIsNew'
    BY <1>2, <2>2, <2>3 DEF OAuthInv, ExchangedIsNew
  <2>7. QED
    BY <2>1, <2>4, <2>5, <2>6 DEF OAuthInv
<1>3. QED
  BY <1>1, <1>2 DEF StoreRefreshed

LEMMA RefreshedIsRemembered ==
  ASSUME OAuthInv, NEW c \in Threads, RememberRefreshed(c)
  PROVE  OAuthInv'
  BY LeavesIsQuiet DEF RememberRefreshed, hhVars

-----------------------------------------------------------------------------
LEMMA OAuthInvIsKept == OAuthInv /\ [OAuthNext]_oauthVars => OAuthInv'
<1> SUFFICES ASSUME OAuthInv, [OAuthNext]_oauthVars PROVE OAuthInv'
  OBVIOUS
<1>1. CASE UNCHANGED oauthVars
  <2>1. OAuthTypeOK'
    BY <1>1 DEF OAuthInv, OAuthTypeOK, oauthVars
  <2>2. QED
    BY <1>1, <2>1, QuietSteps DEF oauthVars
<1>2. CASE \E f \in Flows :
             StartOAuth(f) \/ PendingExpires(f) \/ Callback(f) \/ ExchangeCode(f) \/ StoreTokens(f) \/ RememberTokens(f)
  BY <1>2, FlowWaits, CodeIsExchanged, TokensAreStored
<1>3. CASE \E c \in Threads :
             NeedToken(c) \/ TakeLock(c) \/ ReadBundle(c) \/ RefreshToken(c) \/ StoreRefreshed(c) \/ RememberRefreshed(c)
  BY <1>3, CallerWaits, LockIsTaken, BundleIsRead, TokenIsRefreshed, RefreshedIsStored, RefreshedIsRemembered
<1>4. CASE Disconnect \/ RestartCompanion
  BY <1>4, AccountIsLeft
<1>5. CASE \E t \in 1..MaxTokens : Expires(t)
  <2>1. OAuthTypeOK' /\ UNCHANGED <<bundle, issued, replaced, flow, thread, lock>>
    BY <1>5 DEF OAuthInv, OAuthTypeOK, Expires
  <2>2. QED
    BY <2>1, QuietSteps
<1>6. QED
  BY <1>1, <1>2, <1>3, <1>4, <1>5 DEF OAuthNext

\* The refresh token that was exchanged for the bundle in the keyring is never sent again: the
\* lock serialises the refresh, and no callback, disconnect or restart brings an old bundle back.
THEOREM RefreshTokensAreSpentOnce == OAuthSpec => []RefreshTokenSpentOnce
<1>1. OAuthInv => RefreshTokenSpentOnce
  BY DEF OAuthInv
<1>2. QED
  BY <1>1, OAuthStarts, OAuthInvIsKept, PTL DEF OAuthSpec

-----------------------------------------------------------------------------
(* The engine package.                                                     *)

Valid(parts) == parts \in Packages /\ Sound(parts)

\* The current directory is the active package, or is not there.  From the
\* validation to the activation staging is a valid package, and while the
\* current one is set aside the older one beside it is the active one.
InstallerShape ==
    /\ DOMAIN dirs = {"staging", "current", "previous"}
    /\ dirs = [d \in {"staging", "current", "previous"} |-> dirs[d]]
    /\ installer = [at |-> installer.at, source |-> installer.source, force |-> installer.force,
                    hadCurrent |-> installer.hadCurrent]

Standing ==
    /\ dirs["current"] = Absent \/ (active # Nothing /\ dirs["current"] = Directory(active))
    /\ active # Nothing =>
         Valid(active) /\ (dirs["current"] # Absent \/ dirs["previous"] = Directory(active))

UnderWay ==
    /\ installer.at # "idle" => installer.source \in Packages
    /\ installer.at = "validate" => dirs["staging"] = Directory(installer.source)
    /\ installer.at \in {"swap", "set aside", "activate"} =>
         Sound(installer.source) /\ dirs["staging"] = Directory(installer.source)
    /\ installer.at = "swap" => (installer.hadCurrent <=> dirs["current"] # Absent)
    /\ installer.at = "set aside" => installer.hadCurrent /\ dirs["current"] # Absent
    /\ installer.at = "activate" =>
         /\ dirs["current"] = Absent
         /\ installer.hadCurrent => active # Nothing

InstallerInv == InstallerShape /\ Standing /\ UnderWay

\* Each part that a load has read was a part of a valid package, and a load that
\* has not failed read the parts that its manifest and its checksums name.
IsLoad(l) == DOMAIN l = {"phase", "next", "failed", "got", "index"}
LoadShape(l) == IsLoad(l) /\ IsFunction(l.got) /\ DOMAIN l.got \subseteq PackageParts

WasValidated(parts) == \A x \in DOMAIN parts : \E p \in Packages : Sound(p) /\ parts[x] = p[x]

ReadInOrder(l) ==
    /\ l.phase \in {"idle", "manifest"} => l.got = Nothing
    /\ l.phase = "checksums" => DOMAIN l.got \subseteq {"manifest"}
    /\ l.phase \in {"list", "instructions"} => DOMAIN l.got \subseteq {"manifest", "checksums"}
    /\ l.phase \in {"checksums", "list", "instructions", "files"} => "manifest" \in DOMAIN l.got
    /\ l.phase \in {"files", "index"} => l.next \in 1 .. Len(Files)

Agrees(got) ==
    /\ "instructions" \in DOMAIN got =>
         "checksums" \in DOMAIN got /\ got["checksums"]["instructions"] = got["instructions"]
    /\ \A f \in FileSet \cap DOMAIN got :
         /\ "checksums" \in DOMAIN got /\ got["checksums"][f] = got[f]
         /\ "manifest" \in DOMAIN got /\ got["manifest"].files[f] = got[f]

LoadInv(l) ==
    /\ LoadShape(l) /\ WasValidated(l.got) /\ WasValidated(l.index) /\ ReadInOrder(l)
    /\ l.failed \/ Agrees(l.got)

PackageInv ==
    /\ InstallerInv
    /\ DOMAIN loader = Loaders /\ loader = [r \in Loaders |-> loader[r]]
    /\ \A r \in Loaders : LoadInv(loader[r])

-----------------------------------------------------------------------------
\* The directories.

LEMMA Directories ==
    /\ Absent.there = FALSE /\ Absent.parts = Nothing /\ DOMAIN Nothing = {}
    /\ \A parts : Directory(parts).there = TRUE /\ Directory(parts).parts = parts
    /\ \A p, q : Directory(p) = Directory(q) => p = q
    /\ \A parts : Directory(parts) # Absent
    /\ \A parts : Sound(parts) => parts # Nothing
<1>1. Absent.there = FALSE /\ Absent.parts = Nothing /\ DOMAIN Nothing = {}
  BY DEF Absent, Nothing
<1>2. \A parts : Directory(parts).there = TRUE /\ Directory(parts).parts = parts
  BY DEF Directory
<1>3. \A parts : Sound(parts) => parts # Nothing
  BY DEF Sound, Nothing, PackageParts
<1> QED BY <1>1, <1>2, <1>3

\* What a request finds in the current directory is a part of a valid package.
LEMMA HereIsValid ==
    ASSUME InstallerInv
    PROVE  \A x \in DOMAIN Here : x \in PackageParts /\ Valid(Here)
<1>1. CASE dirs["current"] = Absent
  BY <1>1, Directories DEF Here
<1>2. CASE active # Nothing /\ dirs["current"] = Directory(active)
  BY <1>2, Directories DEF Here, InstallerInv, Standing, Valid, Sound
<1> QED BY <1>1, <1>2 DEF InstallerInv, Standing

\* Where nothing is under way there is nothing to show of it.
LEMMA IdleIsNotUnderWay == installer' = Rest => UnderWay'
BY DEF Rest, UnderWay

DirsBecome(staging, current, previous) ==
    /\ DOMAIN dirs' = {"staging", "current", "previous"}
    /\ dirs' = [d \in {"staging", "current", "previous"} |-> dirs'[d]]
    /\ dirs'["staging"] = staging /\ dirs'["current"] = current /\ dirs'["previous"] = previous

LEMMA DirsMove ==
    ASSUME InstallerShape
    PROVE  /\ UNCHANGED dirs => DirsBecome(dirs["staging"], dirs["current"], dirs["previous"])
           /\ \A s : dirs' = [dirs EXCEPT !["staging"] = s] => DirsBecome(s, dirs["current"], dirs["previous"])
           /\ \A p : dirs' = [dirs EXCEPT !["previous"] = p] => DirsBecome(dirs["staging"], dirs["current"], p)
           /\ \A p, s : dirs' = [dirs EXCEPT !["previous"] = p, !["staging"] = s]
                          => DirsBecome(s, dirs["current"], p)
           /\ \A p, c : dirs' = [dirs EXCEPT !["previous"] = p, !["current"] = c]
                          => DirsBecome(dirs["staging"], c, p)
           /\ \A c, s : dirs' = [dirs EXCEPT !["current"] = c, !["staging"] = s]
                          => DirsBecome(s, c, dirs["previous"])
           /\ \A c, p, s : dirs' = [dirs EXCEPT !["current"] = c, !["previous"] = p, !["staging"] = s]
                          => DirsBecome(s, c, p)
BY DEF InstallerShape, DirsBecome

LEMMA InstallerMoves ==
    ASSUME InstallerShape
    PROVE  /\ Ends => installer' = Rest
           /\ installer' = Rest => /\ installer'.at = "idle"
                                   /\ installer' = [at |-> installer'.at, source |-> installer'.source,
                                          force |-> installer'.force, hadCurrent |-> installer'.hadCurrent]
           /\ \A point : Reaches(point) =>
                /\ installer'.at = point /\ installer'.source = installer.source
                /\ installer'.hadCurrent = installer.hadCurrent
                /\ installer' = [at |-> installer'.at, source |-> installer'.source,
                                 force |-> installer'.force, hadCurrent |-> installer'.hadCurrent]
BY DEF InstallerShape, Ends, Reaches, Rest

\* A step that ends the command has only to leave the active package standing.
LEMMA EndsKeeps ==
    ASSUME InstallerInv, Ends, NEW s, NEW c, NEW p, DirsBecome(s, c, p), Standing'
    PROVE  InstallerInv'
<1>1. InstallerShape'
  BY InstallerMoves DEF InstallerInv, InstallerShape, DirsBecome
<1> QED BY <1>1, IdleIsNotUnderWay, InstallerMoves DEF InstallerInv

LEMMA StagingKeeps ==
    ASSUME InstallerInv, Ends, UNCHANGED active, NEW s,
           \/ UNCHANGED dirs
           \/ dirs' = [dirs EXCEPT !["staging"] = s]
    PROVE  InstallerInv'
<1>1. PICK t : DirsBecome(t, dirs["current"], dirs["previous"])
  BY DirsMove DEF InstallerInv
<1>2. Standing'
  BY <1>1 DEF InstallerInv, Standing, DirsBecome, Valid
<1> QED BY <1>1, <1>2, EndsKeeps

\* Nor does the older package matter while the current one is there.
LEMMA PreviousKeeps ==
    ASSUME InstallerInv, Ends, UNCHANGED active, NEW p, NEW s, dirs["current"] # Absent,
           \/ dirs' = [dirs EXCEPT !["previous"] = p]
           \/ dirs' = [dirs EXCEPT !["previous"] = p, !["staging"] = s]
    PROVE  InstallerInv'
<1>1. PICK t : DirsBecome(t, dirs["current"], p)
  BY DirsMove DEF InstallerInv
<1>2. Standing'
  BY <1>1 DEF InstallerInv, Standing, DirsBecome, Valid
<1> QED BY <1>1, <1>2, EndsKeeps

LEMMA ReachesKeeps ==
    ASSUME InstallerInv, NEW point, Reaches(point), NEW s, NEW c, NEW p, DirsBecome(s, c, p),
           Standing', UnderWay'
    PROVE  InstallerInv'
BY InstallerMoves DEF InstallerInv, InstallerShape, DirsBecome

LEMMA StartKeeps ==
    ASSUME InstallerInv, NEW source \in Packages, NEW force \in BOOLEAN, StartInstall(source, force)
    PROVE  InstallerInv'
<1>1. /\ installer'.at = "clear" /\ installer'.source = source
      /\ installer' = [at |-> installer'.at, source |-> installer'.source, force |-> installer'.force,
                       hadCurrent |-> installer'.hadCurrent]
      /\ dirs' = dirs /\ active' = active
  BY DEF StartInstall, Rest
<1>2. UnderWay'
  BY <1>1 DEF UnderWay
<1>3. InstallerShape' /\ Standing'
  BY <1>1 DEF InstallerInv, InstallerShape, Standing, Valid
<1> QED BY <1>2, <1>3 DEF InstallerInv

LEMMA ClearKeeps == ASSUME InstallerInv, ClearStaging PROVE InstallerInv'
<1>1. Reaches("copy") /\ installer.at = "clear" /\ active' = active
      /\ dirs' = [dirs EXCEPT !["staging"] = Absent]
  BY DEF ClearStaging, Installing
<1>2. DirsBecome(Absent, dirs["current"], dirs["previous"])
  BY <1>1, DirsMove DEF InstallerInv
<1>3. installer'.at = "copy" /\ installer'.source = installer.source
  BY <1>1, InstallerMoves DEF InstallerInv
<1>4. UnderWay'
  BY <1>1, <1>3 DEF InstallerInv, UnderWay
<1>5. Standing'
  BY <1>1, <1>2 DEF InstallerInv, Standing, DirsBecome, Valid
<1> QED BY <1>1, <1>2, <1>4, <1>5, ReachesKeeps

LEMMA CopyKeeps == ASSUME InstallerInv, CopyPackage PROVE InstallerInv'
<1>1. CASE Ends /\ UNCHANGED dirs
  BY <1>1, StagingKeeps DEF CopyPackage
<1>2. CASE Reaches("validate") /\ dirs' = [dirs EXCEPT !["staging"] = Directory(installer.source)]
  <2>1. installer.at = "copy" /\ active' = active
    BY DEF CopyPackage, Installing
  <2>2. DirsBecome(Directory(installer.source), dirs["current"], dirs["previous"])
    BY <1>2, DirsMove DEF InstallerInv
  <2>3. installer'.at = "validate" /\ installer'.source = installer.source
    BY <1>2, InstallerMoves DEF InstallerInv
  <2>4. UnderWay'
    BY <2>1, <2>2, <2>3 DEF InstallerInv, UnderWay, DirsBecome
  <2>5. Standing'
    BY <2>1, <2>2 DEF InstallerInv, Standing, DirsBecome, Valid
  <2> QED BY <1>2, <2>2, <2>4, <2>5, ReachesKeeps
<1> QED BY <1>1, <1>2 DEF CopyPackage

LEMMA ValidateKeeps == ASSUME InstallerInv, ValidateStaging PROVE InstallerInv'
<1>1. active' = active /\ installer.at = "validate" /\ dirs["staging"] = Directory(installer.source)
      /\ dirs["staging"].parts = installer.source /\ installer.source \in Packages
  BY Directories DEF ValidateStaging, Installing, InstallerInv, UnderWay
<1>2. CASE Ends /\ dirs' = [dirs EXCEPT !["staging"] = Absent]
  BY <1>1, <1>2, StagingKeeps
<1>3. CASE /\ Sound(dirs["staging"].parts) /\ UNCHANGED dirs
           /\ installer' = [installer EXCEPT !.at = "swap", !.hadCurrent = dirs["current"].there]
  <2>1. dirs["current"].there <=> dirs["current"] # Absent
    BY Directories DEF InstallerInv, Standing
  <2>2. /\ installer'.at = "swap" /\ installer'.source = installer.source
        /\ installer'.hadCurrent = dirs["current"].there
        /\ installer' = [at |-> installer'.at, source |-> installer'.source,
                         force |-> installer'.force, hadCurrent |-> installer'.hadCurrent]
    BY <1>3 DEF InstallerInv, InstallerShape
  <2>3. UnderWay'
    BY <1>1, <1>3, <2>1, <2>2 DEF UnderWay
  <2>4. InstallerShape' /\ Standing'
    BY <1>1, <1>3, <2>2 DEF InstallerInv, InstallerShape, Standing, Valid
  <2> QED BY <2>3, <2>4 DEF InstallerInv
<1> QED BY <1>2, <1>3 DEF ValidateStaging

LEMMA RemoveKeeps == ASSUME InstallerInv, RemovePrevious PROVE InstallerInv'
<1>1. /\ active' = active /\ installer.at = "swap"
      /\ Sound(installer.source) /\ dirs["staging"] = Directory(installer.source)
      /\ installer.source \in Packages
      /\ installer.hadCurrent <=> dirs["current"] # Absent
  BY DEF RemovePrevious, Installing, InstallerInv, UnderWay
<1>2. CASE installer.hadCurrent /\ dirs' = [dirs EXCEPT !["previous"] = Absent] /\ Reaches("set aside")
  <2>1. DirsBecome(dirs["staging"], dirs["current"], Absent)
    BY <1>2, DirsMove DEF InstallerInv
  <2>2. installer'.at = "set aside" /\ installer'.source = installer.source
        /\ installer'.hadCurrent = installer.hadCurrent
    BY <1>2, InstallerMoves DEF InstallerInv
  <2>3. UnderWay'
    BY <1>1, <1>2, <2>1, <2>2 DEF UnderWay, DirsBecome
  <2>4. Standing'
    BY <1>1, <1>2, <2>1 DEF InstallerInv, Standing, DirsBecome, Valid
  <2> QED BY <1>2, <2>1, <2>3, <2>4, ReachesKeeps
<1>3. ASSUME NEW left, installer.hadCurrent, Ends,
             dirs' = [dirs EXCEPT !["previous"] = Directory(left), !["staging"] = Absent]
      PROVE  InstallerInv'
  BY <1>1, <1>3, PreviousKeeps
<1>4. CASE ~ installer.hadCurrent /\ UNCHANGED dirs /\ Reaches("activate")
  <2>1. DirsBecome(dirs["staging"], dirs["current"], dirs["previous"])
    BY <1>4, DirsMove DEF InstallerInv
  <2>2. installer'.at = "activate" /\ installer'.source = installer.source
        /\ installer'.hadCurrent = installer.hadCurrent
    BY <1>4, InstallerMoves DEF InstallerInv
  <2>3. UnderWay'
    BY <1>1, <1>4, <2>1, <2>2 DEF UnderWay, DirsBecome
  <2>4. Standing'
    BY <1>1, <1>4 DEF InstallerInv, Standing, Valid
  <2> QED BY <1>4, <2>1, <2>3, <2>4, ReachesKeeps
<1> QED BY <1>2, <1>3, <1>4 DEF RemovePrevious

LEMMA SetAsideKeeps == ASSUME InstallerInv, SetAside PROVE InstallerInv'
<1>1. /\ active' = active /\ installer.at = "set aside"
      /\ Sound(installer.source) /\ dirs["staging"] = Directory(installer.source)
      /\ installer.source \in Packages
      /\ installer.hadCurrent /\ dirs["current"] # Absent
      /\ active # Nothing /\ dirs["current"] = Directory(active)
  BY DEF SetAside, Installing, InstallerInv, UnderWay, Standing
<1>2. CASE Reaches("activate") /\ dirs' = [dirs EXCEPT !["previous"] = dirs["current"], !["current"] = Absent]
  <2>1. DirsBecome(dirs["staging"], Absent, dirs["current"])
    BY <1>2, DirsMove DEF InstallerInv
  <2>2. installer'.at = "activate" /\ installer'.source = installer.source
        /\ installer'.hadCurrent = installer.hadCurrent
    BY <1>2, InstallerMoves DEF InstallerInv
  <2>3. UnderWay'
    BY <1>1, <1>2, <2>1, <2>2 DEF UnderWay, DirsBecome
  <2>4. Standing'
    BY <1>1, <2>1 DEF InstallerInv, Standing, DirsBecome, Valid
  <2> QED BY <1>2, <2>1, <2>3, <2>4, ReachesKeeps
<1>3. CASE Ends /\ dirs' = [dirs EXCEPT !["staging"] = Absent]
  BY <1>1, <1>3, StagingKeeps
<1> QED BY <1>2, <1>3 DEF SetAside

LEMMA ActivateKeeps == ASSUME InstallerInv, Activate PROVE InstallerInv'
<1>1. /\ installer.at = "activate" /\ dirs["current"] = Absent
      /\ Sound(installer.source) /\ dirs["staging"] = Directory(installer.source)
      /\ installer.source \in Packages
      /\ installer.hadCurrent => active # Nothing
      /\ Ends
  BY DEF Activate, Installing, InstallerInv, UnderWay
<1>2. active # Nothing => Valid(active) /\ dirs["previous"] = Directory(active)
  BY <1>1 DEF InstallerInv, Standing
<1>3. CASE /\ dirs' = [dirs EXCEPT !["current"] = dirs["staging"], !["staging"] = Absent]
           /\ active' = dirs["staging"].parts
  <2>1. DirsBecome(Absent, dirs["staging"], dirs["previous"])
    BY <1>3, DirsMove DEF InstallerInv
  <2>2. active' = installer.source /\ active' # Nothing
    BY <1>1, <1>3, Directories
  <2>3. Standing'
    BY <1>1, <2>1, <2>2, Directories DEF Standing, DirsBecome, Valid
  <2> QED BY <1>1, <2>1, <2>3, EndsKeeps
<1>4. CASE dirs' = [dirs EXCEPT !["staging"] = Absent] /\ active' = active
  BY <1>1, <1>4, StagingKeeps
<1>5. CASE /\ installer.hadCurrent /\ active' = active
           /\ dirs' = [dirs EXCEPT !["current"] = dirs["previous"], !["previous"] = Absent, !["staging"] = Absent]
  <2>1. DirsBecome(Absent, dirs["previous"], Absent)
    BY <1>5, DirsMove DEF InstallerInv
  <2>2. Standing'
    BY <1>1, <1>2, <1>5, <2>1, Directories DEF Standing, DirsBecome, Valid
  <2> QED BY <1>1, <2>1, <2>2, EndsKeeps
<1> QED BY <1>3, <1>4, <1>5 DEF Activate

LEMMA InterruptedKeeps == ASSUME InstallerInv, Interrupted PROVE InstallerInv'
<1>1. Ends /\ active' = active
  BY DEF Interrupted
<1>2. CASE \/ UNCHANGED dirs
           \/ \E s : dirs' = [dirs EXCEPT !["staging"] = s]
  BY <1>1, <1>2, StagingKeeps
<1>3. CASE installer.at = "swap" /\ installer.hadCurrent /\ \E p : dirs' = [dirs EXCEPT !["previous"] = p]
  <2>1. dirs["current"] # Absent
    BY <1>3 DEF InstallerInv, UnderWay
  <2> QED BY <1>1, <1>3, <2>1, PreviousKeeps
<1> QED BY <1>2, <1>3 DEF Interrupted, Installing

LEMMA InstallerStepKeeps ==
    ASSUME InstallerInv, InstallerStep
    PROVE  InstallerInv' /\ loader' = loader
<1>1. InstallerInv'
  BY StartKeeps, ClearKeeps, CopyKeeps, ValidateKeeps, RemoveKeeps, SetAsideKeeps, ActivateKeeps,
     InterruptedKeeps DEF InstallerStep
<1>2. loader' = loader
  BY DEF InstallerStep, StartInstall, ClearStaging, CopyPackage, ValidateStaging, RemovePrevious,
         SetAside, Activate, Interrupted, Untouched
<1> QED BY <1>1, <1>2
-----------------------------------------------------------------------------
\* The requests.

Extended(got, x, v) == [p \in DOMAIN got \cup {x} |-> IF p = x THEN v ELSE got[p]]

LEMMA ExtendedFacts ==
    ASSUME NEW got, NEW x, NEW v
    PROVE  /\ IsFunction(Extended(got, x, v)) /\ Extended(got, x, v)[x] = v
           /\ \A p \in DOMAIN got : p # x => Extended(got, x, v)[p] = got[p]
BY DEF Extended, IsFunction

LEMMA ExtendedDomain ==
    ASSUME NEW got, NEW x, NEW v
    PROVE  DOMAIN Extended(got, x, v) = DOMAIN got \cup {x}
BY DEF Extended

\* What a request reads was validated.
LEMMA ReadValidated ==
    ASSUME InstallerInv, NEW got, WasValidated(got), NEW x \in DOMAIN Here
    PROVE  WasValidated(Extended(got, x, Here[x]))
<1>1. Here \in Packages /\ Sound(Here)
  BY HereIsValid DEF Valid
<1>2. DOMAIN Extended(got, x, Here[x]) = DOMAIN got \cup {x}
  BY ExtendedDomain
<1> SUFFICES ASSUME NEW y \in DOMAIN Extended(got, x, Here[x])
             PROVE  \E p \in Packages : Sound(p) /\ Extended(got, x, Here[x])[y] = p[y]
  BY DEF WasValidated
<1>3. CASE y = x
  BY <1>1, <1>3, ExtendedFacts
<1>4. CASE y # x
  <2>1. y \in DOMAIN got /\ Extended(got, x, Here[x])[y] = got[y]
    BY <1>2, <1>4, ExtendedFacts
  <2> QED BY <2>1 DEF WasValidated
<1> QED BY <1>3, <1>4

LEMMA ReadsHere ==
    ASSUME NEW l, IsLoad(l), NEW x \in DOMAIN Here, NEW next
    PROVE  /\ Reads(l, x, next).phase = next /\ Reads(l, x, next).next = l.next
           /\ Reads(l, x, next).index = l.index /\ Reads(l, x, next).failed = l.failed
           /\ Reads(l, x, next).got = Extended(l.got, x, Here[x])
           /\ IsLoad(Reads(l, x, next))
BY DEF Reads, IsLoad, Extended

LEMMA ReadsMissing ==
    ASSUME NEW l, IsLoad(l), NEW x, x \notin DOMAIN Here, NEW next
    PROVE  /\ Reads(l, x, next).phase = next /\ Reads(l, x, next).next = l.next
           /\ Reads(l, x, next).index = l.index /\ Reads(l, x, next).got = l.got
           /\ IsLoad(Reads(l, x, next))
BY DEF Reads, IsLoad

LEMMA ReadsFails ==
    ASSUME NEW l, IsLoad(l), NEW x, x \notin DOMAIN Here, NEW next
    PROVE  Reads(l, x, next).failed
BY DEF Reads, IsLoad

LEMMA ReadsKeeps ==
    ASSUME InstallerInv, NEW l, LoadInv(l), NEW x, NEW next
    PROVE  /\ LoadShape(Reads(l, x, next)) /\ WasValidated(Reads(l, x, next).got)
           /\ WasValidated(Reads(l, x, next).index)
<1>1. LoadShape(l)
  BY DEF LoadInv
<1>2. CASE x \in DOMAIN Here
  <2>1. Reads(l, x, next).got = Extended(l.got, x, Here[x]) /\ IsLoad(Reads(l, x, next))
        /\ Reads(l, x, next).index = l.index
    BY <1>1, <1>2, ReadsHere DEF LoadShape
  <2>2. x \in PackageParts
    BY <1>2, HereIsValid
  <2>3. DOMAIN Reads(l, x, next).got = DOMAIN l.got \cup {x} /\ IsFunction(Reads(l, x, next).got)
    <3>1. DOMAIN Extended(l.got, x, Here[x]) = DOMAIN l.got \cup {x}
      BY ExtendedDomain
    <3>2. IsFunction(Extended(l.got, x, Here[x]))
      BY ExtendedFacts
    <3> QED BY <2>1, <3>1, <3>2
  <2>4. WasValidated(Reads(l, x, next).got)
    BY <1>2, <2>1, ReadValidated DEF LoadInv
  <2> QED BY <1>1, <2>1, <2>2, <2>3, <2>4 DEF LoadInv, LoadShape
<1>3. CASE x \notin DOMAIN Here
  <2>1. Reads(l, x, next).got = l.got /\ IsLoad(Reads(l, x, next)) /\ Reads(l, x, next).index = l.index
    BY <1>1, <1>3, ReadsMissing DEF LoadShape
  <2> QED BY <1>1, <2>1 DEF LoadInv, LoadShape
<1> QED BY <1>2, <1>3

LEMMA FreshLoads ==
    ASSUME NEW phase \in {"idle", "manifest"}
    PROVE  LoadInv(LoadAt(phase))
<1>1. LoadAt(phase).phase = phase /\ LoadAt(phase).got = Nothing /\ LoadAt(phase).index = Nothing
  BY DEF LoadAt
<1>2. IsLoad(LoadAt(phase))
  BY DEF LoadAt, IsLoad
<1>3. DOMAIN Nothing = {} /\ IsFunction(Nothing)
  BY DEF Nothing, IsFunction
<1>4. LoadShape(LoadAt(phase))
  BY <1>1, <1>2, <1>3 DEF LoadShape
<1>5. WasValidated(Nothing) /\ Agrees(Nothing)
  BY <1>3 DEF WasValidated, Agrees
<1>6. ReadInOrder(LoadAt(phase))
  BY <1>1 DEF ReadInOrder
<1> QED BY <1>1, <1>4, <1>5, <1>6 DEF LoadInv

\* Without a file and without instructions there is nothing to agree.
LEMMA NothingToAgree ==
    ASSUME NEW got, DOMAIN got \subseteq {"manifest", "checksums"}
    PROVE  Agrees(got)
BY FilesAssumption DEF Agrees

LEMMA InstructionsAgree ==
    ASSUME NEW got, DOMAIN got \subseteq {"manifest", "checksums"}, Expected(got, "instructions")
    PROVE  Agrees(Extended(got, "instructions", Here["instructions"]))
<1> DEFINE new == Extended(got, "instructions", Here["instructions"])
<1>1. DOMAIN new = DOMAIN got \cup {"instructions"}
  BY ExtendedDomain
<1>2. new["instructions"] = Here["instructions"] /\ \A p \in DOMAIN got : p # "instructions" => new[p] = got[p]
  BY ExtendedFacts
<1>3. "checksums" \in DOMAIN got /\ got["checksums"]["instructions"] = Here["instructions"]
  BY DEF Expected
<1>4. FileSet \cap DOMAIN new = {}
  BY <1>1, FilesAssumption
<1> HIDE DEF new
<1>5. Agrees(new)
  BY <1>1, <1>2, <1>3, <1>4 DEF Agrees
<1> QED BY <1>5 DEF new

LEMMA FileAgrees ==
    ASSUME NEW got, Agrees(got), "manifest" \in DOMAIN got, NEW f \in FileSet, Matches(got, f)
    PROVE  Agrees(Extended(got, f, Here[f]))
<1> DEFINE new == Extended(got, f, Here[f])
<1>1. DOMAIN new = DOMAIN got \cup {f}
  BY ExtendedDomain
<1>2. new[f] = Here[f] /\ \A p \in DOMAIN got : p # f => new[p] = got[p]
  BY ExtendedFacts
<1>3. "checksums" \in DOMAIN got /\ got["checksums"][f] = Here[f] /\ got["manifest"].files[f] = Here[f]
  BY DEF Expected, Matches
<1>4. f \notin {"manifest", "checksums", "instructions"}
  BY FilesAssumption
<1> HIDE DEF new
<1>5. new["manifest"] = got["manifest"] /\ new["checksums"] = got["checksums"]
  BY <1>2, <1>3, <1>4
<1>6. "instructions" \in DOMAIN new => new["instructions"] = got["instructions"] /\ "instructions" \in DOMAIN got
  BY <1>1, <1>2, <1>4
<1>7. ASSUME NEW g \in FileSet \cap DOMAIN new
      PROVE  new["checksums"][g] = new[g] /\ new["manifest"].files[g] = new[g]
  <2>1. CASE g = f
    BY <1>2, <1>3, <1>5, <2>1
  <2>2. CASE g # f
    BY <1>1, <1>2, <1>5, <2>2 DEF Agrees
  <2> QED BY <2>1, <2>2
<1>8. Agrees(new)
  BY <1>1, <1>3, <1>5, <1>6, <1>7 DEF Agrees
<1> QED BY <1>8 DEF new

\* A step that reads nothing more for the load.
LEMMA SameParts ==
    ASSUME NEW l, LoadInv(l), NEW k, IsLoad(k), k.got = l.got, WasValidated(k.index), ReadInOrder(k),
           k.failed \/ ~ l.failed
    PROVE  LoadInv(k)
BY DEF LoadInv, LoadShape

\* A step that reads one part more.
LEMMA OneMorePart ==
    ASSUME InstallerInv, NEW l, LoadInv(l), NEW x \in DOMAIN Here, NEW k, IsLoad(k),
           k.got = Extended(l.got, x, Here[x]), k.index = l.index, ReadInOrder(k),
           k.failed \/ Agrees(k.got)
    PROVE  LoadInv(k)
<1>1. x \in PackageParts
  BY HereIsValid
<1>2. DOMAIN Extended(l.got, x, Here[x]) = DOMAIN l.got \cup {x}
  BY ExtendedDomain
<1>3. IsFunction(Extended(l.got, x, Here[x]))
  BY ExtendedFacts
<1>4. LoadShape(k)
  BY <1>1, <1>2, <1>3 DEF LoadInv, LoadShape
<1>5. WasValidated(k.got) /\ WasValidated(k.index)
  BY ReadValidated DEF LoadInv
<1> QED BY <1>4, <1>5 DEF LoadInv

\* What a failure sets in the record of a load.
LEMMA FailedFields ==
    ASSUME NEW l, IsLoad(l), NEW phase
    PROVE  /\ IsLoad([l EXCEPT !.phase = phase, !.failed = TRUE])
           /\ [l EXCEPT !.phase = phase, !.failed = TRUE].phase = phase
           /\ [l EXCEPT !.phase = phase, !.failed = TRUE].got = l.got
           /\ [l EXCEPT !.phase = phase, !.failed = TRUE].index = l.index
           /\ [l EXCEPT !.phase = phase, !.failed = TRUE].failed
BY DEF IsLoad

LEMMA LoadsFacts ==
    ASSUME PackageInv, NEW r \in Loaders, NEW k, Loads(r, k)
    PROVE  loader'[r] = k
BY DEF PackageInv, Loads

LEMMA ManifestKeeps ==
    ASSUME PackageInv, NEW r \in Loaders, ReadManifest(r)
    PROVE  LoadInv(loader'[r])
<1> DEFINE l == loader[r]
<1> DEFINE found == [l EXCEPT !.phase = "checksums", !.got = [p \in {"manifest"} |-> Here[p]]]
<1> DEFINE missed == [l EXCEPT !.phase = "done", !.failed = TRUE]
<1>1. InstallerInv /\ LoadInv(l) /\ l.phase = "manifest" /\ IsLoad(l)
  BY DEF PackageInv, ReadManifest, Loading, LoadInv, LoadShape
<1>2. l.got = Nothing /\ DOMAIN Nothing = {}
  BY <1>1 DEF LoadInv, ReadInOrder, Nothing
<1>3. CASE "manifest" \in DOMAIN Here
  <2>1. loader'[r] = found
    BY <1>3, LoadsFacts DEF ReadManifest
  <2>2. found.phase = "checksums" /\ found.got = [p \in {"manifest"} |-> Here[p]] /\ found.index = l.index
        /\ IsLoad(found)
    BY <1>1 DEF IsLoad
  <2> HIDE DEF found, l
  <2>3. [p \in {"manifest"} |-> Here[p]] = Extended(Nothing, "manifest", Here["manifest"])
    BY <1>2 DEF Extended
  <2>4. DOMAIN found.got = {"manifest"}
    BY <2>2
  <2>5. Agrees(found.got) /\ ReadInOrder(found)
    BY <2>2, <2>4, NothingToAgree DEF ReadInOrder
  <2>6. LoadInv(found)
    BY <1>1, <1>2, <1>3, <2>2, <2>3, <2>5, OneMorePart
  <2> QED BY <2>1, <2>6
<1>4. CASE "manifest" \notin DOMAIN Here
  <2>1. loader'[r] = missed
    BY <1>4, LoadsFacts DEF ReadManifest
  <2>2. missed.phase = "done" /\ missed.got = l.got /\ missed.index = l.index /\ IsLoad(missed)
        /\ missed.failed
    BY <1>1, FailedFields
  <2> HIDE DEF missed, l
  <2>4. ReadInOrder(missed)
    BY <2>2 DEF ReadInOrder
  <2>5. LoadInv(missed)
    BY <1>1, <2>2, <2>4, SameParts DEF LoadInv
  <2> QED BY <2>1, <2>5
<1> QED BY <1>3, <1>4

LEMMA LoadingFacts ==
    ASSUME PackageInv, NEW r \in Loaders
    PROVE  InstallerInv /\ LoadInv(loader[r]) /\ IsLoad(loader[r])
BY DEF PackageInv, LoadInv, LoadShape

LEMMA StartLoadKeeps ==
    ASSUME PackageInv, NEW r \in Loaders, LoadPackage(r)
    PROVE  LoadInv(loader'[r])
<1>1. loader'[r] = LoadAt("manifest")
  BY LoadsFacts DEF LoadPackage
<1> QED BY <1>1, FreshLoads

LEMMA ChecksumsKeeps ==
    ASSUME PackageInv, NEW r \in Loaders, ReadChecksums(r)
    PROVE  LoadInv(loader'[r])
<1> DEFINE l == loader[r]
<1> DEFINE k == Reads(l, "checksums", "list")
<1>1. InstallerInv /\ LoadInv(l) /\ l.phase = "checksums" /\ IsLoad(l)
  BY LoadingFacts DEF ReadChecksums, Loading
<1>2. DOMAIN l.got \subseteq {"manifest"} /\ "manifest" \in DOMAIN l.got
  BY <1>1 DEF LoadInv, ReadInOrder
<1>3. loader'[r] = k
  BY LoadsFacts DEF ReadChecksums
<1>4. CASE "checksums" \in DOMAIN Here
  <2>1. k.phase = "list" /\ k.index = l.index /\ k.got = Extended(l.got, "checksums", Here["checksums"])
        /\ IsLoad(k)
    BY <1>1, <1>4, ReadsHere
  <2>2. DOMAIN Extended(l.got, "checksums", Here["checksums"]) = DOMAIN l.got \cup {"checksums"}
    BY ExtendedDomain
  <2> HIDE DEF k, l
  <2>3. DOMAIN k.got \subseteq {"manifest", "checksums"} /\ "manifest" \in DOMAIN k.got
    BY <1>2, <2>1, <2>2
  <2>4. Agrees(k.got) /\ ReadInOrder(k)
    BY <2>1, <2>3, NothingToAgree DEF ReadInOrder
  <2>5. LoadInv(k)
    BY <1>1, <1>4, <2>1, <2>4, OneMorePart
  <2> QED BY <1>3, <2>5
<1>5. CASE "checksums" \notin DOMAIN Here
  <2>1. k.phase = "list" /\ k.index = l.index /\ k.got = l.got /\ IsLoad(k)
    BY <1>1, <1>5, ReadsMissing
  <2>2. k.failed
    BY <1>1, <1>5, ReadsFails
  <2> HIDE DEF k, l
  <2>3. ReadInOrder(k)
    BY <1>2, <2>1 DEF ReadInOrder
  <2>4. LoadInv(k)
    BY <1>1, <2>1, <2>2, <2>3, SameParts DEF LoadInv
  <2> QED BY <1>3, <2>4
<1> QED BY <1>4, <1>5

LEMMA ListKeeps ==
    ASSUME PackageInv, NEW r \in Loaders, ListActive(r)
    PROVE  LoadInv(loader'[r])
<1> DEFINE l == loader[r]
<1> DEFINE missed == [l EXCEPT !.phase = "done", !.failed = TRUE]
<1> DEFINE b == l.failed \/ ~(FileSet \subseteq DOMAIN Here)
<1> DEFINE listed == [l EXCEPT !.phase = "instructions", !.failed = b]
<1>1. InstallerInv /\ LoadInv(l) /\ l.phase = "list" /\ IsLoad(l)
  BY LoadingFacts DEF ListActive, Loading
<1>2. DOMAIN l.got \subseteq {"manifest", "checksums"} /\ "manifest" \in DOMAIN l.got
  BY <1>1 DEF LoadInv, ReadInOrder
<1>3. CASE ~ dirs["current"].there
  <2>1. loader'[r] = missed
    BY <1>3, LoadsFacts DEF ListActive
  <2>2. missed.phase = "done" /\ missed.got = l.got /\ missed.index = l.index /\ IsLoad(missed)
        /\ missed.failed
    BY <1>1, FailedFields
  <2> HIDE DEF missed, l
  <2>3. ReadInOrder(missed)
    BY <2>2 DEF ReadInOrder
  <2>4. LoadInv(missed)
    BY <1>1, <2>2, <2>3, SameParts DEF LoadInv
  <2> QED BY <2>1, <2>4
<1>4. CASE dirs["current"].there
  <2>1. loader'[r] = listed
    BY <1>4, LoadsFacts DEF ListActive
  <2>2. ~ l.failed \/ b
    OBVIOUS
  <2> HIDE DEF b
  <2>3. listed.phase = "instructions" /\ listed.got = l.got /\ listed.index = l.index /\ IsLoad(listed)
        /\ listed.failed = b
    BY <1>1 DEF IsLoad
  <2> HIDE DEF listed, l
  <2>4. ReadInOrder(listed)
    BY <1>2, <2>3 DEF ReadInOrder
  <2>5. LoadInv(listed)
    BY <1>1, <2>2, <2>3, <2>4, SameParts DEF LoadInv
  <2> QED BY <2>1, <2>5
<1> QED BY <1>3, <1>4

LEMMA FilesFacts ==
    /\ Len(Files) \in Nat /\ 1 \in 1 .. Len(Files)
    /\ \A i \in 1 .. Len(Files) : Files[i] \in FileSet
<1>1. Files \in Seq(STRING) /\ Files # <<>>
  BY FilesAssumption
<1>2. Len(Files) \in Nat /\ 1 \in 1 .. Len(Files) /\ DOMAIN Files = 1 .. Len(Files)
  BY <1>1
<1> QED BY <1>2 DEF FileSet, ToSet

LEMMA InstructionsKeeps ==
    ASSUME PackageInv, NEW r \in Loaders, ReadInstructions(r)
    PROVE  LoadInv(loader'[r])
<1> DEFINE l == loader[r]
<1> DEFINE read == Reads(l, "instructions", "files")
<1> DEFINE ok == "instructions" \in DOMAIN Here /\ Expected(l.got, "instructions")
<1> DEFINE b == read.failed \/ ~ ok
<1> DEFINE k == [read EXCEPT !.next = 1, !.failed = b]
<1>1. InstallerInv /\ LoadInv(l) /\ l.phase = "instructions" /\ IsLoad(l)
  BY LoadingFacts DEF ReadInstructions, Loading
<1>2. DOMAIN l.got \subseteq {"manifest", "checksums"} /\ "manifest" \in DOMAIN l.got
  BY <1>1 DEF LoadInv, ReadInOrder
<1>3. loader'[r] = k
  BY LoadsFacts DEF ReadInstructions
<1>4. CASE "instructions" \in DOMAIN Here
  <2>1. read.phase = "files" /\ read.index = l.index /\ IsLoad(read)
        /\ read.got = Extended(l.got, "instructions", Here["instructions"])
    BY <1>1, <1>4, ReadsHere
  <2>2. DOMAIN Extended(l.got, "instructions", Here["instructions"]) = DOMAIN l.got \cup {"instructions"}
    BY ExtendedDomain
  <2>3. b \/ Expected(l.got, "instructions")
    OBVIOUS
  <2> HIDE DEF b, read
  <2>4. k.phase = "files" /\ k.index = l.index /\ IsLoad(k) /\ k.next = 1
        /\ k.got = Extended(l.got, "instructions", Here["instructions"]) /\ k.failed = b
    BY <2>1 DEF IsLoad
  <2> HIDE DEF k, l
  <2>5. ReadInOrder(k)
    BY <1>2, <2>2, <2>4, FilesFacts DEF ReadInOrder
  <2>6. k.failed \/ Agrees(k.got)
    BY <1>2, <2>3, <2>4, InstructionsAgree
  <2>7. LoadInv(k)
    BY <1>1, <1>4, <2>4, <2>5, <2>6, OneMorePart
  <2> QED BY <1>3, <2>7
<1>5. CASE "instructions" \notin DOMAIN Here
  <2>1. read.phase = "files" /\ read.index = l.index /\ read.got = l.got /\ IsLoad(read)
    BY <1>1, <1>5, ReadsMissing
  <2>2. b
    BY <1>5
  <2> HIDE DEF b, read
  <2>3. k.phase = "files" /\ k.index = l.index /\ k.got = l.got /\ IsLoad(k) /\ k.next = 1 /\ k.failed = b
    BY <2>1 DEF IsLoad
  <2> HIDE DEF k, l
  <2>4. ReadInOrder(k)
    BY <1>2, <2>3, FilesFacts DEF ReadInOrder
  <2>5. LoadInv(k)
    BY <1>1, <2>2, <2>3, <2>4, SameParts DEF LoadInv
  <2> QED BY <1>3, <2>5
<1> QED BY <1>4, <1>5

FileRead(l, f) ==
    IF f \in DOMAIN Here
      THEN [Reads(l, f, "files") EXCEPT !.failed = @ \/ ~Matches(l.got, f)]
      ELSE l

LEMMA FileReadKeeps ==
    ASSUME InstallerInv, NEW l, LoadInv(l), l.phase = "files", NEW f \in FileSet
    PROVE  LoadInv(FileRead(l, f)) /\ FileRead(l, f).next = l.next /\ FileRead(l, f).phase = "files"
<1> DEFINE read == Reads(l, f, "files")
<1> DEFINE b == read.failed \/ ~Matches(l.got, f)
<1> DEFINE k == [read EXCEPT !.failed = b]
<1>1. IsLoad(l) /\ "manifest" \in DOMAIN l.got /\ l.next \in 1 .. Len(Files)
  BY DEF LoadInv, LoadShape, ReadInOrder
<1>2. CASE f \in DOMAIN Here
  <2>1. FileRead(l, f) = k
    BY <1>2 DEF FileRead
  <2>2. /\ read.phase = "files" /\ read.index = l.index /\ IsLoad(read) /\ read.next = l.next
        /\ read.got = Extended(l.got, f, Here[f])
    BY <1>1, <1>2, ReadsHere
  <2>3. DOMAIN Extended(l.got, f, Here[f]) = DOMAIN l.got \cup {f}
    BY ExtendedDomain
  <2>4. read.failed \/ ~ l.failed
    BY <1>1, <1>2, ReadsHere
  <2>5. b \/ (~ l.failed /\ Matches(l.got, f))
    BY <2>4
  <2> HIDE DEF b, read
  <2>6. k.phase = "files" /\ k.index = l.index /\ IsLoad(k) /\ k.next = l.next
        /\ k.got = Extended(l.got, f, Here[f]) /\ k.failed = b
    BY <2>2 DEF IsLoad
  <2> HIDE DEF k
  <2>7. ReadInOrder(k)
    BY <1>1, <2>3, <2>6 DEF ReadInOrder
  <2>8. k.failed \/ Agrees(k.got)
    BY <1>1, <2>5, <2>6, FileAgrees DEF LoadInv
  <2>9. LoadInv(k)
    BY <1>1, <1>2, <2>6, <2>7, <2>8, OneMorePart
  <2> QED BY <2>1, <2>6, <2>9
<1>3. CASE f \notin DOMAIN Here
  BY <1>3 DEF FileRead
<1> QED BY <1>2, <1>3

LEMMA FileKeeps ==
    ASSUME PackageInv, NEW r \in Loaders, ReadFile(r)
    PROVE  LoadInv(loader'[r])
<1> DEFINE read == FileRead(loader[r], Files[loader[r].next])
<1>1. InstallerInv /\ LoadInv(loader[r]) /\ loader[r].phase = "files" /\ loader[r].next \in 1 .. Len(Files)
  BY LoadingFacts DEF ReadFile, Loading, LoadInv, ReadInOrder
<1>2. Files[loader[r].next] \in FileSet
  BY <1>1, FilesFacts
<1>3. LoadInv(read) /\ read.next = loader[r].next /\ read.phase = "files"
  BY <1>1, <1>2, FileReadKeeps
<1>4. IsLoad(read) /\ "manifest" \in DOMAIN read.got /\ WasValidated(read.index)
  BY <1>3 DEF LoadInv, LoadShape, ReadInOrder
<1>5. CASE loader[r].next < Len(Files) /\ loader'[r] = [read EXCEPT !.next = @ + 1]
  <2> DEFINE k == [read EXCEPT !.next = @ + 1]
  <2>1. k.phase = "files" /\ k.next = loader[r].next + 1 /\ k.got = read.got /\ k.index = read.index
        /\ IsLoad(k) /\ k.failed = read.failed
    BY <1>3, <1>4 DEF IsLoad
  <2> HIDE DEF k, read
  <2>2. k.next \in 1 .. Len(Files)
    BY <1>1, <1>5, <2>1, FilesFacts
  <2>3. ReadInOrder(k)
    BY <1>4, <2>1, <2>2 DEF ReadInOrder
  <2>4. LoadInv(k)
    BY <1>3, <1>4, <2>1, <2>3, SameParts
  <2> QED BY <1>5, <2>4 DEF k
<1>6. ASSUME NEW phase \in {"done", "index"}, loader'[r] = [read EXCEPT !.next = 1, !.phase = phase]
      PROVE  LoadInv(loader'[r])
  <2> DEFINE k == [read EXCEPT !.next = 1, !.phase = phase]
  <2>1. k.phase = phase /\ k.next = 1 /\ k.got = read.got /\ k.index = read.index
        /\ IsLoad(k) /\ k.failed = read.failed
    BY <1>4 DEF IsLoad
  <2> HIDE DEF k, read
  <2>2. ReadInOrder(k)
    BY <1>6, <2>1, FilesFacts DEF ReadInOrder
  <2>3. LoadInv(k)
    BY <1>3, <1>4, <2>1, <2>2, SameParts
  <2> QED BY <1>6, <2>3 DEF k
<1>7. \/ loader[r].next < Len(Files) /\ loader'[r] = [read EXCEPT !.next = @ + 1]
      \/ \E phase \in {"done", "index"} : loader'[r] = [read EXCEPT !.next = 1, !.phase = phase]
  BY LoadsFacts DEF ReadFile, FileRead
<1> QED BY <1>5, <1>6, <1>7

IndexRead(l, f) ==
    IF f \in DOMAIN l.got \cap DOMAIN Here
      THEN [l EXCEPT !.index = [g \in DOMAIN @ \cup {f} |-> IF g = f THEN Here[g] ELSE @[g]]]
      ELSE l

LEMMA IndexReadKeeps ==
    ASSUME InstallerInv, NEW l, LoadInv(l), NEW f
    PROVE  /\ LoadInv(IndexRead(l, f)) /\ IndexRead(l, f).next = l.next
           /\ IndexRead(l, f).phase = l.phase
<1> DEFINE k == [l EXCEPT !.index = Extended(l.index, f, Here[f])]
<1>1. IsLoad(l) /\ ReadInOrder(l)
  BY DEF LoadInv, LoadShape
<1>2. CASE f \in DOMAIN l.got \cap DOMAIN Here
  <2>1. IndexRead(l, f) = k
    <3>1. Extended(l.index, f, Here[f]) = [g \in DOMAIN l.index \cup {f} |-> IF g = f THEN Here[g] ELSE l.index[g]]
      BY DEF Extended
    <3> QED BY <1>2, <3>1 DEF IndexRead
  <2>2. k.phase = l.phase /\ k.next = l.next /\ k.got = l.got /\ IsLoad(k) /\ k.failed = l.failed
        /\ k.index = Extended(l.index, f, Here[f])
    BY <1>1 DEF IsLoad
  <2> HIDE DEF k
  <2>3. WasValidated(k.index)
    BY <1>2, <2>2, ReadValidated DEF LoadInv
  <2>4. ReadInOrder(k)
    BY <1>1, <2>2 DEF ReadInOrder
  <2>5. LoadInv(k)
    BY <2>2, <2>3, <2>4, SameParts
  <2> QED BY <2>1, <2>2, <2>5
<1>3. CASE f \notin DOMAIN l.got \cap DOMAIN Here
  BY <1>3 DEF IndexRead
<1> QED BY <1>2, <1>3

LEMMA IndexKeeps ==
    ASSUME PackageInv, NEW r \in Loaders, IndexFile(r)
    PROVE  LoadInv(loader'[r])
<1> DEFINE read == IndexRead(loader[r], Files[loader[r].next])
<1>1. InstallerInv /\ LoadInv(loader[r]) /\ loader[r].phase = "index" /\ loader[r].next \in 1 .. Len(Files)
  BY LoadingFacts DEF IndexFile, Loading, LoadInv, ReadInOrder
<1>2. LoadInv(read) /\ read.next = loader[r].next /\ read.phase = "index"
  BY <1>1, IndexReadKeeps
<1>3. IsLoad(read) /\ WasValidated(read.index)
  BY <1>2 DEF LoadInv, LoadShape
<1>4. CASE loader[r].next < Len(Files) /\ loader'[r] = [read EXCEPT !.next = @ + 1]
  <2> DEFINE k == [read EXCEPT !.next = @ + 1]
  <2>1. k.phase = "index" /\ k.next = loader[r].next + 1 /\ k.got = read.got /\ k.index = read.index
        /\ IsLoad(k) /\ k.failed = read.failed
    BY <1>2, <1>3 DEF IsLoad
  <2> HIDE DEF k, read
  <2>2. k.next \in 1 .. Len(Files)
    BY <1>1, <1>4, <2>1, FilesFacts
  <2>3. ReadInOrder(k)
    BY <2>1, <2>2 DEF ReadInOrder
  <2>4. LoadInv(k)
    BY <1>2, <1>3, <2>1, <2>3, SameParts
  <2> QED BY <1>4, <2>4 DEF k
<1>5. CASE loader'[r] = [read EXCEPT !.phase = "done"]
  <2> DEFINE k == [read EXCEPT !.phase = "done"]
  <2>1. k.phase = "done" /\ k.got = read.got /\ k.index = read.index /\ IsLoad(k) /\ k.failed = read.failed
    BY <1>3 DEF IsLoad
  <2> HIDE DEF k, read
  <2>2. ReadInOrder(k)
    BY <2>1 DEF ReadInOrder
  <2>3. LoadInv(k)
    BY <1>2, <1>3, <2>1, <2>2, SameParts
  <2> QED BY <1>5, <2>3 DEF k
<1>6. \/ loader[r].next < Len(Files) /\ loader'[r] = [read EXCEPT !.next = @ + 1]
      \/ loader'[r] = [read EXCEPT !.phase = "done"]
  BY LoadsFacts DEF IndexFile, IndexRead
<1> QED BY <1>4, <1>5, <1>6

LEMMA LoaderStepKeeps ==
    ASSUME PackageInv, NEW r \in Loaders, LoaderStep(r)
    PROVE  PackageInv'
<1>1. LoadInv(loader'[r])
  BY StartLoadKeeps, ManifestKeeps, ChecksumsKeeps, ListKeeps, InstructionsKeeps, FileKeeps, IndexKeeps
     DEF LoaderStep
<1>2. PICK k : Loads(r, k)
  BY DEF LoaderStep, LoadPackage, ReadManifest, ReadChecksums, ListActive, ReadInstructions, ReadFile,
         IndexFile
<1>3. loader' = [loader EXCEPT ![r] = k] /\ UNCHANGED <<dirs, installer, active>>
  BY <1>2 DEF Loads
<1>4. InstallerInv'
  BY <1>3 DEF PackageInv, InstallerInv, InstallerShape, Standing, UnderWay, Valid
<1>5. DOMAIN loader' = Loaders /\ loader' = [s \in Loaders |-> loader'[s]]
  BY <1>3 DEF PackageInv
<1>6. ASSUME NEW s \in Loaders PROVE LoadInv(loader'[s])
  BY <1>1, <1>3 DEF PackageInv
<1> QED BY <1>4, <1>5, <1>6 DEF PackageInv

LEMMA PackageInit == EngineInit => PackageInv
<1> SUFFICES ASSUME EngineInit PROVE PackageInv
  OBVIOUS
<1>1. dirs["current"] = Absent /\ installer = Rest /\ active = Nothing
  BY DEF EngineInit
<1>2. InstallerShape
  BY DEF EngineInit, InstallerShape, Rest
<1>3. Standing
  BY <1>1 DEF Standing
<1>4. UnderWay
  BY <1>1 DEF UnderWay, Rest
<1>5. loader = [r \in Loaders |-> LoadAt("idle")]
  BY DEF EngineInit, NotLoading
<1>6. \A r \in Loaders : LoadInv(loader[r])
  BY <1>5, FreshLoads
<1> QED BY <1>2, <1>3, <1>4, <1>5, <1>6 DEF PackageInv, InstallerInv

LEMMA PackageStep == PackageInv /\ [EngineNext]_engineVars => PackageInv'
<1> SUFFICES ASSUME PackageInv, [EngineNext]_engineVars PROVE PackageInv'
  OBVIOUS
<1>1. CASE InstallerStep
  BY <1>1, InstallerStepKeeps DEF PackageInv
<1>2. CASE \E r \in Loaders : LoaderStep(r)
  BY <1>2, LoaderStepKeeps
<1>3. CASE UNCHANGED engineVars
  BY <1>3 DEF engineVars, PackageInv, InstallerInv, InstallerShape, Standing, UnderWay, Valid
<1> QED BY <1>1, <1>2, <1>3 DEF EngineNext

\* A load that found all the parts and failed at none has read the files that its manifest
\* names and those that its checksums name; its instructions are those of the checksums.
LEMMA CompleteIsOne ==
    ASSUME NEW l, LoadInv(l), ~ l.failed, DOMAIN l.got = PackageParts
    PROVE  \E p, q \in Packages :
             /\ Sound(p) /\ Sound(q) /\ SameFiles(p, q)
             /\ l.got = [q EXCEPT !["manifest"] = p["manifest"]]
<1>1. PICK p \in Packages : Sound(p) /\ l.got["manifest"] = p["manifest"]
  BY DEF LoadInv, WasValidated, PackageParts
<1>2. PICK q \in Packages : Sound(q) /\ l.got["checksums"] = q["checksums"]
  BY DEF LoadInv, WasValidated, PackageParts
<1>3. \A f \in FileSet : l.got[f] = l.got["checksums"][f] /\ l.got[f] = l.got["manifest"].files[f]
  BY DEF LoadInv, Agrees, PackageParts
<1>4. \A f \in FileSet : l.got[f] = q[f] /\ l.got[f] = p[f]
  BY <1>1, <1>2, <1>3 DEF Sound
<1>5. l.got["instructions"] = q["instructions"]
  BY <1>2 DEF LoadInv, Agrees, Sound, PackageParts
<1> DEFINE whole == [q EXCEPT !["manifest"] = p["manifest"]]
<1>6. IsFunction(l.got) /\ IsFunction(q) /\ DOMAIN q = PackageParts
  BY <1>2, FilesAssumption DEF LoadInv, LoadShape, Sound
<1>7. whole = [x \in PackageParts |-> IF x = "manifest" THEN p["manifest"] ELSE q[x]]
  BY <1>6 DEF IsFunction
<1>8. l.got = [x \in PackageParts |-> l.got[x]]
  BY <1>6 DEF IsFunction
<1>9. ASSUME NEW x \in PackageParts
      PROVE  l.got[x] = IF x = "manifest" THEN p["manifest"] ELSE q[x]
  BY <1>1, <1>2, <1>4, <1>5 DEF PackageParts
<1>10. l.got = whole
  BY <1>7, <1>8, <1>9
<1>11. Sound(p) /\ Sound(q) /\ SameFiles(p, q)
  BY <1>1, <1>2, <1>4 DEF SameFiles
<1> QED BY <1>10, <1>11

LEMMA PackageInvImplies == PackageInv => PackageOnRecord
<1> SUFFICES ASSUME PackageInv PROVE PackageOnRecord
  OBVIOUS
<1>1. PackageIsKept
  <2>1. Standing
    BY DEF PackageInv, InstallerInv
  <2>2. CASE dirs["current"] = Absent
    BY <2>1, <2>2, Directories DEF PackageIsKept, Standing, Valid
  <2>3. CASE active # Nothing /\ dirs["current"] = Directory(active)
    BY <2>1, <2>3, Directories DEF PackageIsKept, Standing, Valid
  <2> QED BY <2>1, <2>2, <2>3 DEF Standing
<1>2. CompleteLoadIsOnePackage
  BY CompleteIsOne DEF CompleteLoadIsOnePackage, Loaded, PackageInv
<1>3. IndexWasValidated
  BY DEF IndexWasValidated, PackageInv, LoadInv, WasValidated
<1> QED BY <1>1, <1>2, <1>3 DEF PackageOnRecord

\* Whatever an installation loses or leaves half done, the package activated last is whole and
\* stays in reach; a load that reads it part by part while another is put in its place accepts
\* no files or instructions of two, and what it indexes was validated.
THEOREM PackagesAreKept == EngineSpec => []PackageOnRecord
<1>1. EngineInit => PackageInv
  BY PackageInit
<1>2. PackageInv /\ [EngineNext]_engineVars => PackageInv'
  BY PackageStep
<1>3. PackageInv => PackageOnRecord
  BY PackageInvImplies
<1> QED BY <1>1, <1>2, <1>3, PTL DEF EngineSpec

-----------------------------------------------------------------------------
(* The sync of vacancies.                                                  *)

SyncSpec == SyncInit /\ [][SyncNext]_syncVars

\* A request has the fields of NoSync, what it read was offered, and a hit that
\* waits for the next flush is one it served.
IsRequest(r) ==
    /\ DOMAIN r = DOMAIN NoSync /\ (r.at = "idle" => r = NoSync)
    /\ r.items \in Seq(Offered) /\ r.fresh \in Seq(r.served)
    /\ r.seen \in Nat /\ r.stored \in Nat
    /\ {r.errors, r.lost, r.limited, r.writing} \subseteq BOOLEAN

\* Every item seen is stored, still to come, or its profile failed, which is
\* reported.
Counted(r) ==
    /\ r.stored + Len(r.items) <= r.seen /\ r.seen <= MaxSyncItems
    /\ ~ r.errors => r.stored + Len(r.items) = r.seen /\ ~ r.lost
    /\ r.at \in {"profile", "fetch"} => r.items = <<>>

\* What a request has served has a row, and a hit unless it is yet to be flushed.
NotedIn(r, tables) ==
    /\ r.served \subseteq tables.hits \cup ToSet(r.fresh)
    /\ \A pair \in ToSet(r.fresh) : tables.rows[pair[2]] # None
    /\ r.at = "write" => r.items # <<>> /\ Head(r.items) # Malformed

AreTables(tables) ==
    /\ DOMAIN tables = DOMAIN Tables /\ DOMAIN tables.rows = Vacancies
    /\ \A key \in tables.keys \cup tables.hits : tables.rows[key[2]] # None

\* The open transaction adds to the tables, and only hits that its request served.
Adds(r) ==
    /\ AreTables(db.written)
    /\ db.written.runs = db.committed.runs
    /\ db.committed.hits \subseteq db.written.hits
    /\ db.written.hits \subseteq db.committed.hits \cup r.served
    /\ \A v : db.committed.rows[v] # None => db.written.rows[v] # None

OneWriter == \A s, t \in Syncs : sync[s].writing /\ sync[t].writing => s = t

SyncInv ==
    /\ DOMAIN sync = Syncs /\ DOMAIN db = {"committed", "written"}
    /\ \A s \in Syncs : /\ IsRequest(sync[s]) /\ Counted(sync[s]) /\ NotedIn(sync[s], Sees(s))
                        /\ sync[s].writing => Adds(sync[s])
    /\ OneWriter /\ AreTables(db.committed) /\ AuditIsTrue

\* A request has the fields of one that is idle.
LEMMA SyncFields == DOMAIN NoSync =
    {"at", "scope", "todo", "page", "pages", "items", "last", "seen", "stored", "errors",
     "limited", "intake", "writing", "fresh", "served", "lost"}
BY DEF NoSync

\* What a request must be on its own.
Good(r) == IsRequest(r) /\ Counted(r)

\* A sequence over a set is one over a larger set.
LEMMA SeqOfMore ==
    ASSUME NEW S, NEW T, S \subseteq T, NEW q \in Seq(S)
    PROVE  q \in Seq(T)
<1>1. q \in [1 .. Len(q) -> T] /\ Len(q) \in Nat
  OBVIOUS
<1> QED BY <1>1, SMT

\* A thread without a request.
LEMMA IdleIsGood ==
    /\ Good(NoSync)
    /\ \A tables : NotedIn(NoSync, tables)
    /\ NoSync.writing = FALSE
BY SyncAssumption, SyncFields DEF Good, IsRequest, Counted, NotedIn, NoSync, ToSet

\* The profile ends, and the request goes on with the next.
LEMMA EndsGood ==
    ASSUME NEW r, Good(r), r.errors \/ r.items = <<>>
    PROVE  /\ Good(ProfileEnds(r)) /\ ProfileEnds(r).at = "profile"
           /\ ProfileEnds(r).served = r.served /\ ProfileEnds(r).fresh = r.fresh
           /\ ProfileEnds(r).writing = r.writing
<1> DEFINE e == ProfileEnds(r)
<1>1. /\ DOMAIN e = DOMAIN NoSync /\ e.at = "profile" /\ e.items = <<>>
      /\ e.fresh = r.fresh /\ e.served = r.served /\ e.seen = r.seen /\ e.stored = r.stored
      /\ e.errors = r.errors /\ e.lost = r.lost /\ e.limited = r.limited /\ e.writing = r.writing
  BY SyncFields DEF Good, IsRequest, ProfileEnds
<1> HIDE DEF e
<1>2. Len(r.items) \in Nat /\ Len(e.items) = 0 /\ e.items \in Seq(Offered)
  BY <1>1 DEF Good, IsRequest
<1>3. r.seen \in Nat /\ r.stored \in Nat /\ r.stored + Len(r.items) <= r.seen
  BY DEF Good, IsRequest, Counted
<1>4. r.stored <= r.seen
  BY <1>2, <1>3
<1>5. ~ r.errors => r.stored = r.seen
  BY <1>2, <1>3 DEF Good, Counted
<1>6. IsRequest(e)
  BY <1>1, <1>2 DEF Good, IsRequest
<1>7. Counted(e)
  BY <1>1, <1>2, <1>3, <1>4, <1>5 DEF Good, Counted
<1> QED BY <1>1, <1>6, <1>7 DEF Good, e

\* The profile fails, which is reported.
LEMMA FailsGood ==
    ASSUME NEW r, Good(r)
    PROVE  /\ Good(ProfileFails(r)) /\ ProfileFails(r).at = "profile"
           /\ ProfileFails(r).served = r.served /\ ProfileFails(r).fresh = r.fresh
           /\ ProfileFails(r).writing = r.writing
<1> DEFINE e == ProfileFails(r)
<1>1. /\ DOMAIN e = DOMAIN NoSync /\ e.at = "profile" /\ e.items = <<>>
      /\ e.fresh = r.fresh /\ e.served = r.served /\ e.seen = r.seen /\ e.stored = r.stored
      /\ e.errors = TRUE /\ e.lost = TRUE /\ e.limited = r.limited /\ e.writing = r.writing
  BY SyncFields DEF Good, IsRequest, ProfileEnds, ProfileFails
<1> HIDE DEF e
<1>2. Len(r.items) \in Nat /\ Len(e.items) = 0 /\ e.items \in Seq(Offered)
  BY <1>1 DEF Good, IsRequest
<1>3. r.seen \in Nat /\ r.stored \in Nat /\ r.stored + Len(r.items) <= r.seen
  BY DEF Good, IsRequest, Counted
<1>4. r.stored <= r.seen
  BY <1>2, <1>3
<1>5. IsRequest(e)
  BY <1>1, <1>2 DEF Good, IsRequest
<1>6. Counted(e)
  BY <1>1, <1>2, <1>3, <1>4 DEF Good, Counted
<1> QED BY <1>1, <1>5, <1>6 DEF Good, e

\* The least of two numbers.
LEMMA MinOfTwo ==
    ASSUME NEW a \in Nat, NEW b \in Nat
    PROVE  Min({a, b}) \in {a, b} /\ Min({a, b}) <= a /\ Min({a, b}) <= b
<1>1. \E m \in {a, b} : \A n \in {a, b} : m <= n
  BY SMT
<1> QED BY <1>1 DEF Min

\* What is kept of a page fits into the run, and is all of it unless that is reported.
LEMMA KeptFits ==
    ASSUME NEW r, Good(r), NEW items \in Seq(Offered)
    PROVE  /\ Kept(r, items) \in Seq(Offered)
           /\ Len(Kept(r, items)) <= Len(items) /\ Len(Kept(r, items)) \in Nat
           /\ r.seen + Len(Kept(r, items)) <= MaxSyncItems
<1> DEFINE n == Min({Len(items), MaxSyncItems - r.seen})
<1>1. /\ r.seen \in Nat /\ r.seen <= MaxSyncItems /\ MaxSyncItems \in Nat
      /\ Len(items) \in Nat /\ MaxSyncItems - r.seen \in Nat
  BY SyncAssumption DEF Good, IsRequest, Counted
<1>2. n \in Nat /\ n <= Len(items) /\ n <= MaxSyncItems - r.seen
  BY <1>1, MinOfTwo
<1> HIDE DEF n
<1>3. Kept(r, items) = SubSeq(items, 1, n)
  BY DEF Kept, n
<1>4. SubSeq(items, 1, n) \in Seq(Offered) /\ Len(SubSeq(items, 1, n)) = n
  BY <1>1, <1>2
<1> QED BY <1>1, <1>2, <1>3, <1>4

\* A request that has fetched a page.
Fetched(r, items, last) ==
    LET t == Truncated(r, items) IN
    [t EXCEPT !.at = "items", !.last = last \/ t.items = <<>>]

LEMMA FetchedGood ==
    ASSUME NEW r, Good(r), r.items = <<>>, NEW items \in Seq(Offered), NEW last \in BOOLEAN
    PROVE  /\ Good(Fetched(r, items, last)) /\ Fetched(r, items, last).at = "items"
           /\ Fetched(r, items, last).served = r.served
           /\ Fetched(r, items, last).fresh = r.fresh
           /\ Fetched(r, items, last).writing = r.writing
<1> DEFINE kept == Kept(r, items)
           over == Len(kept) < Len(items)
           t == Truncated(r, items)
           q == [t EXCEPT !.at = "items", !.last = last \/ t.items = <<>>]
<1>1. /\ DOMAIN t = DOMAIN NoSync /\ t.items = kept /\ t.seen = r.seen + Len(kept)
      /\ t.fresh = r.fresh /\ t.served = r.served /\ t.stored = r.stored /\ t.writing = r.writing
      /\ t.lost = (r.lost \/ over) /\ t.limited = over /\ t.errors = (r.errors \/ over)
  BY SyncFields DEF Good, IsRequest, Truncated
<1> HIDE DEF t
<1>2. /\ DOMAIN q = DOMAIN NoSync /\ q.at = "items" /\ q.items = kept
      /\ q.seen = r.seen + Len(kept) /\ q.stored = r.stored
      /\ q.fresh = r.fresh /\ q.served = r.served /\ q.writing = r.writing
      /\ q.lost = (r.lost \/ over) /\ q.limited = over /\ q.errors = (r.errors \/ over)
  BY <1>1, SyncFields
<1> HIDE DEF q
<1>3. /\ kept \in Seq(Offered) /\ Len(kept) \in Nat /\ Len(kept) <= Len(items)
      /\ r.seen + Len(kept) <= MaxSyncItems /\ Len(items) \in Nat
  BY KeptFits
<1> HIDE DEF kept
<1>4. /\ r.seen \in Nat /\ r.stored \in Nat /\ r.stored <= r.seen
      /\ ~ r.errors => r.stored = r.seen /\ ~ r.lost
      /\ r.errors \in BOOLEAN /\ r.lost \in BOOLEAN /\ r.writing \in BOOLEAN
      /\ r.fresh \in Seq(r.served)
  BY DEF Good, IsRequest, Counted
<1>5. over \in BOOLEAN
  OBVIOUS
<1> HIDE DEF over
<1>6. IsRequest(q)
  <2>1. q.seen \in Nat /\ q.stored \in Nat /\ q.items \in Seq(Offered) /\ q.fresh \in Seq(q.served)
    BY <1>2, <1>3, <1>4
  <2>2. q.errors \in BOOLEAN /\ q.lost \in BOOLEAN /\ q.limited \in BOOLEAN /\ q.writing \in BOOLEAN
    BY <1>2, <1>4, <1>5
  <2> QED BY <1>2, <2>1, <2>2 DEF IsRequest
<1>7. Counted(q)
  <2>1. q.stored + Len(q.items) <= q.seen /\ q.seen <= MaxSyncItems
    BY <1>2, <1>3, <1>4
  <2>2. ~ q.errors => ~ r.errors /\ ~ q.lost
    BY <1>2, <1>4, <1>5
  <2>3. ~ r.errors => q.stored + Len(q.items) = q.seen
    BY <1>2, <1>3, <1>4
  <2> QED BY <1>2, <2>1, <2>2, <2>3 DEF Counted
<1>8. Good(q) /\ q.at = "items" /\ q.served = r.served /\ q.fresh = r.fresh /\ q.writing = r.writing
  BY <1>2, <1>6, <1>7 DEF Good
<1>9. Fetched(r, items, last) = q
  BY DEF Fetched, q, t
<1> QED BY <1>8, <1>9

\* What is appended is in the sequence, with what was there.
LEMMA AppendedHas ==
    ASSUME NEW S, NEW q \in Seq(S), NEW e \in S
    PROVE  Append(q, e) \in Seq(S) /\ ToSet(Append(q, e)) = ToSet(q) \cup {e}
<1>1. Len(q) \in Nat /\ DOMAIN q = 1 .. Len(q)
  OBVIOUS
<1>2. Append(q, e) \in Seq(S) /\ Len(Append(q, e)) = Len(q) + 1
  OBVIOUS
<1>3. DOMAIN Append(q, e) = 1 .. Len(q) + 1
  BY <1>2
<1>4. \A i \in 1 .. Len(q) : Append(q, e)[i] = q[i]
  OBVIOUS
<1>5. Append(q, e)[Len(q) + 1] = e
  OBVIOUS
<1> DEFINE p == Append(q, e)
<1>6. /\ DOMAIN p = 1 .. Len(q) + 1 /\ p[Len(q) + 1] = e
      /\ \A i \in 1 .. Len(q) : p[i] = q[i]
  BY <1>3, <1>4, <1>5
<1> HIDE DEF p
<1>7. \A i \in 1 .. Len(q) + 1 : i \in 1 .. Len(q) \/ i = Len(q) + 1
  BY <1>1
<1>8. ToSet(p) \subseteq ToSet(q) \cup {e}
  BY <1>1, <1>6, <1>7 DEF ToSet
<1>9. ToSet(q) \subseteq ToSet(p) /\ e \in ToSet(p)
  <2>1. 1 .. Len(q) \subseteq 1 .. Len(q) + 1 /\ Len(q) + 1 \in 1 .. Len(q) + 1
    BY <1>1
  <2> QED BY <1>1, <1>6, <2>1 DEF ToSet
<1> QED BY <1>2, <1>8, <1>9 DEF p

\* An item is taken from the page, stored, and its hit is in the tables or in the session.
LEMMA HitNotedGood ==
    ASSUME NEW r, Good(r), r.items # <<>>, NEW pair, NEW tables,
           NotedIn([r EXCEPT !.at = "items"], tables), tables.rows[pair[2]] # None
    PROVE  LET h == HitNoted(r, pair, tables.hits)
           IN  /\ Good(h) /\ NotedIn(h, tables)
               /\ h.writing = r.writing /\ h.served = r.served \cup {pair}
<1> DEFINE h == HitNoted(r, pair, tables.hits)
           f == IF pair \in tables.hits THEN r.fresh ELSE Append(r.fresh, pair)
<1>1. /\ DOMAIN h = DOMAIN NoSync /\ h.at = "items" /\ h.items = Tail(r.items)
      /\ h.stored = r.stored + 1 /\ h.seen = r.seen /\ h.fresh = f
      /\ h.served = r.served \cup {pair} /\ h.errors = r.errors /\ h.lost = r.lost
      /\ h.limited = r.limited /\ h.writing = r.writing
  BY SyncFields DEF Good, IsRequest, HitNoted
<1>2. /\ Len(r.items) \in Nat /\ Len(r.items) > 0
      /\ Tail(r.items) \in Seq(Offered) /\ Len(Tail(r.items)) = Len(r.items) - 1
  BY DEF Good, IsRequest
<1>3. /\ r.seen \in Nat /\ r.stored \in Nat /\ r.stored + Len(r.items) <= r.seen
      /\ ~ r.errors => r.stored + Len(r.items) = r.seen /\ ~ r.lost
      /\ r.fresh \in Seq(r.served) /\ r.seen <= MaxSyncItems
      /\ {r.errors, r.lost, r.limited, r.writing} \subseteq BOOLEAN
  BY DEF Good, IsRequest, Counted
<1>4. r.fresh \in Seq(h.served) /\ pair \in h.served
  BY <1>1, <1>3, SeqOfMore
<1>5. /\ f \in Seq(h.served) /\ ToSet(f) \subseteq ToSet(r.fresh) \cup {pair}
      /\ ToSet(r.fresh) \subseteq ToSet(f) /\ (pair \in tables.hits \/ pair \in ToSet(f))
  <2>1. CASE pair \in tables.hits
    BY <1>4, <2>1
  <2>2. CASE pair \notin tables.hits
    <3>1. f = Append(r.fresh, pair)
      BY <2>2
    <3> HIDE DEF f, h
    <3>2. /\ Append(r.fresh, pair) \in Seq(h.served)
          /\ ToSet(Append(r.fresh, pair)) = ToSet(r.fresh) \cup {pair}
      <4>1. PICK S : S = h.served
        OBVIOUS
      <4>2. PICK q \in Seq(S) : q = r.fresh
        BY <1>4, <4>1
      <4>3. pair \in S
        BY <1>4, <4>1
      <4>4. Append(q, pair) \in Seq(S) /\ ToSet(Append(q, pair)) = ToSet(q) \cup {pair}
        BY <4>3, AppendedHas
      <4> QED BY <4>1, <4>2, <4>4
    <3> QED BY <3>1, <3>2
  <2> QED BY <2>1, <2>2
<1> HIDE DEF h, f
<1>6. IsRequest(h)
  BY <1>1, <1>2, <1>3, <1>5 DEF IsRequest
<1>7. Counted(h)
  <2>1. h.stored + Len(h.items) = r.stored + Len(r.items)
    BY <1>1, <1>2, <1>3
  <2> QED BY <1>1, <1>3, <2>1 DEF Counted
<1>8. NotedIn(h, tables)
  <2>1. /\ r.served \subseteq tables.hits \cup ToSet(r.fresh)
        /\ \A p \in ToSet(r.fresh) : tables.rows[p[2]] # None
    BY SyncFields DEF NotedIn, Good, IsRequest
  <2> QED BY <1>1, <1>5, <2>1 DEF NotedIn
<1> QED BY <1>1, <1>6, <1>7, <1>8 DEF Good, h

-----------------------------------------------------------------------------
\* Steps of a request that leave the tables alone.

\* The request goes on, or is over.
LEMMA QuietSync ==
    ASSUME SyncInv, NEW s \in Syncs, NEW r, SyncBecomes(s, r), db' = db,
           Good(r), NotedIn(r, Sees(s)) \/ r = NoSync,
           r.writing => sync[s].writing, ~ r.writing => ~ sync[s].writing \/ r = NoSync,
           sync[s].served \subseteq r.served \/ r = NoSync
    PROVE  SyncInv'
<1>1. DOMAIN sync' = Syncs /\ sync'[s] = r /\ \A t \in Syncs \ {s} : sync'[t] = sync[t]
  BY DEF SyncInv, SyncBecomes
<1>2. AreTables(db.committed)' /\ AuditIsTrue' /\ DOMAIN db' = {"committed", "written"}
  BY DEF SyncInv, AreTables, AuditIsTrue
<1>3. OneWriter'
  BY <1>1 DEF SyncInv, OneWriter
<1>4. ASSUME NEW t \in Syncs
      PROVE  /\ IsRequest(sync'[t]) /\ Counted(sync'[t]) /\ NotedIn(sync'[t], Sees(t)')
             /\ sync'[t].writing => Adds(sync[t])'
  <2>1. CASE t # s
    <3>1. sync'[t] = sync[t] /\ Sees(t)' = Sees(t)
      BY <1>1, <2>1 DEF Sees
    <3> QED BY <3>1 DEF SyncInv, Adds, AreTables
  <2>2. CASE t = s
    <3>1. IsRequest(sync'[t]) /\ Counted(sync'[t])
      BY <1>1, <2>2 DEF Good
    <3>2. NotedIn(sync'[t], Sees(t)')
      <4>1. CASE r = NoSync
        BY <1>1, <2>2, <4>1, IdleIsGood
      <4>2. CASE r # NoSync
        <5>1. Sees(t)' = Sees(s)
          BY <1>1, <2>2, <4>2 DEF Sees, Good, IsRequest, SyncInv
        <5> QED BY <1>1, <2>2, <4>2, <5>1
      <4> QED BY <4>1, <4>2
    <3>3. sync'[t].writing => Adds(sync[t])'
      <4>1. ASSUME r.writing
            PROVE  Adds(sync[s]) /\ sync[s].served \subseteq r.served
        BY <4>1, IdleIsGood DEF SyncInv
      <4> QED BY <1>1, <2>2, <4>1 DEF Adds, AreTables
    <3> QED BY <3>1, <3>2, <3>3
  <2> QED BY <2>1, <2>2
<1> QED BY <1>1, <1>2, <1>3, <1>4 DEF SyncInv

\* What a request has noted stays noted while it moves between other points.
LEMMA StillNoted ==
    ASSUME NEW r, NEW q, NEW tables, NotedIn(r, tables),
           q.served = r.served, q.fresh = r.fresh, q.at # "write"
    PROVE  NotedIn(q, tables)
BY DEF NotedIn

LEMMA SyncIsGood ==
    ASSUME SyncInv, NEW s \in Syncs
    PROVE  Good(sync[s]) /\ NotedIn(sync[s], Sees(s))
BY DEF SyncInv, Good

\* A request that moves on without having served more.
LEMMA MovesOn ==
    ASSUME SyncInv, NEW s \in Syncs, NEW r, SyncBecomes(s, r), db' = db, Good(r),
           r.served = sync[s].served, r.fresh = sync[s].fresh,
           r.writing = sync[s].writing, r.at # "write"
    PROVE  SyncInv'
<1>1. NotedIn(r, Sees(s))
  BY SyncIsGood, StillNoted
<1> QED BY <1>1, QuietSync

\* Steps of a request that leave the tables alone, one by one.
LEMMA StartSyncKeepsInv ==
    ASSUME SyncInv, NEW s \in Syncs, NEW scope, StartSync(s, scope)
    PROVE  SyncInv'
<1>1. PICK todo : SyncBecomes(s, [NoSync EXCEPT !.at = "profile", !.scope = scope, !.todo = todo])
  BY DEF StartSync
<1> DEFINE r == [NoSync EXCEPT !.at = "profile", !.scope = scope, !.todo = todo]
<1>2. /\ DOMAIN r = DOMAIN NoSync /\ r.at = "profile" /\ r.items = <<>> /\ r.fresh = <<>>
      /\ r.served = {} /\ r.seen = 0 /\ r.stored = 0
      /\ r.errors = FALSE /\ r.lost = FALSE /\ r.limited = FALSE /\ r.writing = FALSE
  BY DEF NoSync
<1>3. sync[s] = NoSync /\ db' = db
  BY SyncIsGood DEF StartSync, SyncAt, Good, IsRequest
<1>4. NoSync.served = {} /\ NoSync.fresh = <<>> /\ NoSync.writing = FALSE
  BY DEF NoSync
<1> HIDE DEF r
<1>5. Good(r)
  <2>1. <<>> \in Seq(Offered) /\ <<>> \in Seq({}) /\ Len(<<>>) = 0 /\ MaxSyncItems \in Nat
    BY SyncAssumption
  <2>2. IsRequest(r)
    <3>1. r.items \in Seq(Offered) /\ r.fresh \in Seq(r.served) /\ r.seen \in Nat /\ r.stored \in Nat
      BY <1>2, <2>1
    <3>2. {r.errors, r.lost, r.limited, r.writing} \subseteq BOOLEAN
      BY <1>2
    <3>3. DOMAIN r = DOMAIN NoSync /\ r.at # "idle"
      BY <1>2
    <3> QED BY <3>1, <3>2, <3>3 DEF IsRequest
  <2>3. Counted(r)
    BY <1>2, <2>1 DEF Counted
  <2> QED BY <2>2, <2>3 DEF Good
<1> QED BY <1>1, <1>2, <1>3, <1>4, <1>5, MovesOn DEF r

LEMMA PreviewProfileKeepsInv ==
    ASSUME SyncInv, NEW s \in Syncs, PreviewProfile(s)
    PROVE  SyncInv'
<1>1. Good(sync[s]) /\ sync[s].at = "profile" /\ sync[s].items = <<>> /\ db' = db
  BY SyncIsGood DEF PreviewProfile, SyncAt, Good, Counted
<1>2. CASE SyncBecomes(s, ProfileFails(sync[s]))
  BY <1>1, <1>2, FailsGood, MovesOn
<1>3. CASE SyncBecomes(s, ProfileEnds(sync[s]))
  BY <1>1, <1>3, EndsGood, MovesOn
<1>4. ASSUME NEW pages \in 1 .. MaxPages,
             SyncBecomes(s, [sync[s] EXCEPT !.at = "fetch", !.page = 0, !.pages = pages])
      PROVE  SyncInv'
  <2> DEFINE r == [sync[s] EXCEPT !.at = "fetch", !.page = 0, !.pages = pages]
  <2>1. Good(r) /\ r.at = "fetch"
        /\ r.served = sync[s].served /\ r.fresh = sync[s].fresh /\ r.writing = sync[s].writing
    BY <1>1, SyncFields DEF Good, IsRequest, Counted
  <2> HIDE DEF r
  <2> QED BY <1>1, <1>4, <2>1, MovesOn DEF r
<1> QED BY <1>2, <1>3, <1>4 DEF PreviewProfile

LEMMA FetchPageKeepsInv ==
    ASSUME SyncInv, NEW s \in Syncs, FetchPage(s)
    PROVE  SyncInv'
<1>1. Good(sync[s]) /\ sync[s].items = <<>> /\ db' = db
  BY SyncIsGood DEF FetchPage, SyncAt, Good, Counted
<1>2. CASE SyncBecomes(s, ProfileFails(sync[s]))
  BY <1>1, <1>2, FailsGood, MovesOn
<1>3. ASSUME NEW items \in Pages, NEW last \in BOOLEAN,
             SyncBecomes(s, Fetched(sync[s], items, last))
      PROVE  SyncInv'
  <2> DEFINE r == Fetched(sync[s], items, last)
  <2>1. items \in Seq(Offered)
    BY SyncAssumption
  <2>2. Good(r) /\ r.at = "items"
        /\ r.served = sync[s].served /\ r.fresh = sync[s].fresh /\ r.writing = sync[s].writing
    BY <1>1, <2>1, FetchedGood
  <2>3. SyncBecomes(s, r)
    BY <1>3
  <2> HIDE DEF r
  <2> QED BY <1>1, <2>2, <2>3, MovesOn
<1> QED BY <1>2, <1>3 DEF FetchPage, Fetched

LEMMA NextPageKeepsInv ==
    ASSUME SyncInv, NEW s \in Syncs, NextPage(s)
    PROVE  SyncInv'
<1>1. Good(sync[s]) /\ sync[s].items = <<>> /\ db' = db
  BY SyncIsGood DEF NextPage, SyncAt
<1>2. CASE SyncBecomes(s, ProfileEnds(sync[s]))
  BY <1>1, <1>2, EndsGood, MovesOn
<1>3. CASE SyncBecomes(s, [sync[s] EXCEPT !.at = "fetch", !.page = @ + 1])
  <2> DEFINE r == [sync[s] EXCEPT !.at = "fetch", !.page = @ + 1]
  <2>1. Good(r) /\ r.at = "fetch"
        /\ r.served = sync[s].served /\ r.fresh = sync[s].fresh /\ r.writing = sync[s].writing
    BY <1>1, SyncFields DEF Good, IsRequest, Counted
  <2> HIDE DEF r
  <2> QED BY <1>1, <1>3, <2>1, MovesOn DEF r
<1> QED BY <1>2, <1>3 DEF NextPage

\* What a request sees: the tables, with what it has added to them.
LEMMA SeesTables ==
    ASSUME SyncInv, NEW s \in Syncs
    PROVE  /\ AreTables(Sees(s)) /\ Sees(s).runs = db.committed.runs
           /\ db.committed.hits \subseteq Sees(s).hits
           /\ Sees(s).hits \subseteq db.committed.hits \cup sync[s].served
           /\ \A v : db.committed.rows[v] # None => Sees(s).rows[v] # None
BY DEF SyncInv, Sees, Adds

\* The item at hand is one that HH offered.
LEMMA ItemShape ==
    ASSUME SyncInv, NEW s \in Syncs, sync[s].items # <<>>
    PROVE  Item(s) # Malformed => Item(s).vacancy \in Vacancies /\ Item(s).content # None
<1>1. Head(sync[s].items) \in Offered
  BY SyncIsGood DEF Good, IsRequest
<1> QED BY <1>1, SyncAssumption DEF Item

LEMMA ReadItemKeepsInv ==
    ASSUME SyncInv, NEW s \in Syncs, ReadItem(s)
    PROVE  SyncInv'
<1>1. /\ Good(sync[s]) /\ NotedIn(sync[s], Sees(s)) /\ sync[s].items # <<>>
      /\ sync[s].at = "items" /\ db' = db /\ AreTables(Sees(s))
  BY SyncIsGood, SeesTables DEF ReadItem, SyncAt
<1>2. CASE SyncBecomes(s, ProfileFails(sync[s]))
  BY <1>1, <1>2, FailsGood, MovesOn
<1>3. CASE Intake(s) = "replay" /\ SyncBecomes(s, HitNoted(sync[s], Pair(s), Sees(s).hits))
  <2>1. Key(s) \in Sees(s).keys
    BY <1>3 DEF Intake
  <2>2. Sees(s).rows[Pair(s)[2]] # None
    BY <1>1, <2>1 DEF AreTables, Key, Pair
  <2>3. NotedIn([sync[s] EXCEPT !.at = "items"], Sees(s))
    BY <1>1, SyncFields DEF NotedIn, Good, IsRequest
  <2> DEFINE r == HitNoted(sync[s], Pair(s), Sees(s).hits)
  <2>4. /\ Good(r) /\ NotedIn(r, Sees(s)) /\ r.writing = sync[s].writing
        /\ r.served = sync[s].served \cup {Pair(s)}
    BY <1>1, <2>2, <2>3, HitNotedGood
  <2> HIDE DEF r
  <2> QED BY <1>1, <1>3, <2>4, QuietSync DEF r
<1>4. CASE Item(s) # Malformed /\ SyncBecomes(s, [sync[s] EXCEPT !.at = "write", !.intake = Intake(s)])
  <2> DEFINE r == [sync[s] EXCEPT !.at = "write", !.intake = Intake(s)]
  <2>1. /\ Good(r) /\ r.at = "write" /\ r.items = sync[s].items
        /\ r.served = sync[s].served /\ r.fresh = sync[s].fresh /\ r.writing = sync[s].writing
    BY <1>1, SyncFields DEF Good, IsRequest, Counted
  <2> HIDE DEF r
  <2>2. NotedIn(r, Sees(s))
    BY <1>1, <1>4, <2>1 DEF NotedIn, Item
  <2> QED BY <1>1, <1>4, <2>1, <2>2, QuietSync DEF r
<1> QED BY <1>2, <1>3, <1>4 DEF ReadItem

-----------------------------------------------------------------------------
\* Steps that write.


\* A hit that waits for the flush is one the request served.
LEMMA FreshServed ==
    ASSUME NEW r, Good(r)
    PROVE  ToSet(r.fresh) \subseteq r.served
BY DEF Good, IsRequest, ToSet

\* Another request neither writes nor sees what is not committed.
LEMMA OthersReadCommitted ==
    ASSUME SyncInv, NEW s \in Syncs, MayWrite(s), NEW t \in Syncs \ {s}
    PROVE  ~ sync[t].writing /\ Sees(t) = db.committed
BY DEF MayWrite, Sees

\* An item is written: others see what is committed, the request what it added.
LEMMA WriteItemKeepsInv ==
    ASSUME SyncInv, NEW s \in Syncs, WriteItem(s)
    PROVE  SyncInv'
<1> DEFINE t == Sees(s)
           v == Item(s).vacancy
           c == Item(s).content
           fresh == ToSet(sync[s].fresh)
           stored == sync[s].intake \in {"created", "updated"}
           key == Key(s)
           keys == IF stored THEN t.keys \cup {key} ELSE t.keys
           w == [t EXCEPT !.hits = t.hits \cup fresh, !.rows[v] = c, !.keys = keys]
           r == [sync[s] EXCEPT !.writing = TRUE, !.fresh = <<>>]
           h == HitNoted(r, Pair(s), w.hits)
<1>1. /\ Good(sync[s]) /\ NotedIn(sync[s], t) /\ sync[s].at = "write" /\ MayWrite(s)
      /\ sync[s].items # <<>> /\ Item(s) # Malformed
  BY SyncIsGood DEF WriteItem, SyncAt, NotedIn, Item
<1>2. v \in Vacancies /\ c # None /\ key[2] = v /\ Pair(s)[2] = v
  BY <1>1, ItemShape DEF Key, Pair
<1>3. /\ AreTables(t) /\ t.runs = db.committed.runs
      /\ db.committed.hits \subseteq t.hits
      /\ t.hits \subseteq db.committed.hits \cup sync[s].served
      /\ \A x : db.committed.rows[x] # None => t.rows[x] # None
  BY SeesTables
<1>4. fresh \subseteq sync[s].served /\ \A pair \in fresh : t.rows[pair[2]] # None
  BY <1>1, FreshServed DEF NotedIn
<1>5. \A k \in keys : k \in t.keys \/ k[2] = v
  BY <1>2
<1>6. /\ AreTables(w) /\ w.hits = t.hits \cup fresh /\ w.runs = t.runs
      /\ w.rows[v] # None /\ \A x : t.rows[x] # None => w.rows[x] # None
  <2>1. DOMAIN t = {"rows", "keys", "hits", "runs"} /\ DOMAIN t.rows = Vacancies
    BY <1>3 DEF AreTables, Tables
  <2> HIDE DEF t, v, c, keys, fresh
  <2>2. /\ DOMAIN w = DOMAIN t /\ w.hits = t.hits \cup fresh /\ w.runs = t.runs
        /\ w.rows = [t.rows EXCEPT ![v] = c] /\ w.keys = keys
    BY <2>1
  <2> HIDE DEF w
  <2>3. /\ DOMAIN w.rows = Vacancies /\ w.rows[v] # None
        /\ \A x : t.rows[x] # None => w.rows[x] # None
    BY <1>2, <2>1, <2>2
  <2>4. AreTables(w)
    BY <1>2, <1>3, <1>4, <1>5, <2>2, <2>3 DEF AreTables
  <2> QED BY <2>2, <2>3, <2>4
<1>7. db' = [db EXCEPT !.written = w] /\ SyncBecomes(s, h)
  <2>1. w.hits = t.hits \cup fresh
    BY <1>6
  <2> QED BY <2>1 DEF WriteItem
<1>8. /\ Good(r) /\ r.items = sync[s].items /\ r.served = sync[s].served
      /\ r.fresh = <<>> /\ r.writing = TRUE
  BY <1>1, SyncFields DEF Good, IsRequest, Counted
<1>9. NotedIn([r EXCEPT !.at = "items"], w)
  <2>1. ToSet(<<>>) = {}
    BY DEF ToSet
  <2>2. LET q == [r EXCEPT !.at = "items"] IN
        q.at = "items" /\ q.served = r.served /\ q.fresh = <<>>
    BY <1>8, SyncFields DEF Good, IsRequest
  <2>3. r.served \subseteq w.hits
    BY <1>1, <1>6, <1>8 DEF NotedIn
  <2> HIDE DEF r, w
  <2> QED BY <2>1, <2>2, <2>3 DEF NotedIn
<1> HIDE DEF w, t, r, fresh, keys
<1>10. /\ Good(h) /\ NotedIn(h, w) /\ h.writing = TRUE
       /\ h.served = sync[s].served \cup {Pair(s)}
  <2>1. w.rows[Pair(s)[2]] # None
    BY <1>2, <1>6
  <2> QED BY <1>1, <1>8, <1>9, <2>1, HitNotedGood
<1> HIDE DEF h, v, c
<1>11. /\ DOMAIN sync' = Syncs /\ sync'[s] = h /\ \A o \in Syncs \ {s} : sync'[o] = sync[o]
       /\ DOMAIN db' = {"committed", "written"} /\ db'.committed = db.committed /\ db'.written = w
  BY <1>7 DEF SyncInv, SyncBecomes
<1>12. ASSUME NEW o \in Syncs \ {s}
       PROVE  /\ IsRequest(sync'[o]) /\ Counted(sync'[o]) /\ NotedIn(sync'[o], Sees(o)')
              /\ ~ sync'[o].writing
  <2>1. ~ sync[o].writing /\ Sees(o) = db.committed /\ Sees(o)' = db.committed
    BY <1>1, <1>11, OthersReadCommitted DEF Sees
  <2> QED BY <1>11, <2>1, SyncIsGood DEF Good
<1>13. Sees(s)' = w
  BY <1>10, <1>11 DEF Sees
<1>14. Adds(sync[s])'
  <2>1. w.hits \subseteq db.committed.hits \cup h.served
    BY <1>3, <1>4, <1>6, <1>10
  <2>2. \A x : db.committed.rows[x] # None => w.rows[x] # None
    BY <1>3, <1>6
  <2>3. w.runs = db.committed.runs /\ db.committed.hits \subseteq w.hits
    BY <1>3, <1>6
  <2> QED BY <1>6, <1>11, <2>1, <2>2, <2>3 DEF Adds, AreTables
<1>15. ASSUME NEW o \in Syncs
       PROVE  /\ IsRequest(sync'[o]) /\ Counted(sync'[o]) /\ NotedIn(sync'[o], Sees(o)')
              /\ sync'[o].writing => Adds(sync[o])'
  <2>1. CASE o = s
    BY <1>10, <1>11, <1>13, <1>14, <2>1 DEF Good
  <2>2. CASE o # s
    BY <1>12, <2>2
  <2> QED BY <2>1, <2>2
<1>16. OneWriter'
  BY <1>12 DEF OneWriter
<1>17. AreTables(db.committed)' /\ AuditIsTrue'
  BY <1>11 DEF SyncInv, AreTables, AuditIsTrue
<1> QED BY <1>11, <1>15, <1>16, <1>17 DEF SyncInv

\* The transaction commits with the audit of what the request counted.
LEMMA FinishSyncKeepsInv ==
    ASSUME SyncInv, NEW s \in Syncs, FinishSync(s)
    PROVE  SyncInv'
<1> DEFINE t == Sees(s)
           fresh == ToSet(sync[s].fresh)
           audit == Audit(sync[s])
           w == [t EXCEPT !.hits = @ \cup fresh, !.runs = @ \cup {audit}]
<1>1. /\ Good(sync[s]) /\ NotedIn(sync[s], t) /\ sync[s].items = <<>> /\ MayWrite(s)
      /\ db' = [db EXCEPT !.committed = w] /\ SyncBecomes(s, NoSync)
  BY SyncIsGood DEF FinishSync, Finished, SyncAt, Good, Counted, Release
<1>2. /\ AreTables(t) /\ t.runs = db.committed.runs
      /\ db.committed.hits \subseteq t.hits
      /\ t.hits \subseteq db.committed.hits \cup sync[s].served
      /\ \A x : db.committed.rows[x] # None => t.rows[x] # None
  BY SeesTables
<1>3. fresh \subseteq sync[s].served /\ \A pair \in fresh : t.rows[pair[2]] # None
  BY <1>1, FreshServed DEF NotedIn
<1>4. /\ audit.served = sync[s].served /\ audit.stored = sync[s].stored /\ audit.seen = sync[s].seen
      /\ audit.lost = sync[s].lost
      /\ audit.status = "success" => ~ sync[s].errors
  BY DEF Audit
<1>5. /\ DOMAIN w = DOMAIN t /\ w.rows = t.rows /\ w.keys = t.keys
      /\ w.hits = t.hits \cup fresh /\ w.runs = t.runs \cup {audit}
  <2>1. DOMAIN t = {"rows", "keys", "hits", "runs"}
    BY <1>2 DEF AreTables, Tables
  <2> HIDE DEF t, fresh, audit
  <2> QED BY <2>1
<1> HIDE DEF w, t, fresh, audit
<1>6. AreTables(w)
  BY <1>2, <1>3, <1>5 DEF AreTables
<1>7. /\ DOMAIN sync' = Syncs /\ sync'[s] = NoSync /\ \A o \in Syncs \ {s} : sync'[o] = sync[o]
      /\ DOMAIN db' = {"committed", "written"} /\ db'.committed = w
  BY <1>1 DEF SyncInv, SyncBecomes
<1>8. ASSUME NEW o \in Syncs
      PROVE  /\ IsRequest(sync'[o]) /\ Counted(sync'[o]) /\ NotedIn(sync'[o], Sees(o)')
             /\ ~ sync'[o].writing
  <2>1. CASE o = s
    BY <1>7, <2>1, IdleIsGood DEF Good
  <2>2. CASE o # s
    <3>1. ~ sync[o].writing /\ Sees(o) = db.committed /\ Sees(o)' = w /\ sync'[o] = sync[o]
      BY <1>1, <1>7, <2>2, OthersReadCommitted DEF Sees
    <3>2. NotedIn(sync[o], w)
      <4>1. NotedIn(sync[o], db.committed)
        BY <3>1, SyncIsGood
      <4> QED BY <1>2, <1>5, <4>1 DEF NotedIn
    <3> QED BY <3>1, <3>2, SyncIsGood DEF Good
  <2> QED BY <2>1, <2>2
<1>9. OneWriter'
  BY <1>8 DEF OneWriter
<1>10. AuditIsTrue'
  <2>1. /\ audit.status = "success" => ~ audit.lost /\ audit.stored = audit.seen
        /\ audit.stored <= audit.seen /\ audit.seen <= MaxSyncItems
    <3>1. sync[s].stored \in Nat /\ Len(sync[s].items) = 0
      BY <1>1 DEF Good, IsRequest
    <3> QED BY <1>1, <1>4, <3>1 DEF Good, Counted
  <2>2. audit.served \subseteq w.hits
    BY <1>1, <1>4, <1>5 DEF NotedIn, fresh
  <2>3. ASSUME NEW run \in w.runs
        PROVE  /\ run.status = "success" => ~ run.lost /\ run.stored = run.seen
               /\ run.served \subseteq w.hits
               /\ run.stored <= run.seen /\ run.seen <= MaxSyncItems
    <3>1. CASE run = audit
      BY <3>1, <2>1, <2>2
    <3>2. CASE run \in db.committed.runs
      BY <3>2, <1>2, <1>5 DEF SyncInv, AuditIsTrue
    <3> QED BY <3>1, <3>2, <1>2, <1>5
  <2>4. ASSUME NEW pair \in w.hits
        PROVE  w.rows[pair[2]] # None /\ \E run \in w.runs : pair \in run.served
    <3>1. w.rows[pair[2]] # None
      BY <1>6 DEF AreTables
    <3>2. CASE pair \in db.committed.hits
      BY <3>1, <3>2, <1>2, <1>5 DEF SyncInv, AuditIsTrue
    <3>3. CASE pair \in audit.served
      BY <3>1, <3>3, <1>5
    <3> QED BY <3>2, <3>3, <1>2, <1>3, <1>4, <1>5
  <2> QED BY <1>7, <2>3, <2>4 DEF AuditIsTrue
<1> QED BY <1>6, <1>7, <1>8, <1>9, <1>10 DEF SyncInv, AreTables

-----------------------------------------------------------------------------

LEMMA WriteFailsKeepsInv ==
    ASSUME SyncInv, NEW s \in Syncs, WriteFails(s)
    PROVE  SyncInv'
BY QuietSync, IdleIsGood DEF WriteFails, Release

LEMMA StopSyncsKeepsInv ==
    ASSUME SyncInv, StopSyncs
    PROVE  SyncInv'
<1>1. DOMAIN sync' = Syncs /\ db' = db /\ \A s \in Syncs : sync'[s] = NoSync
  BY DEF StopSyncs
<1>2. AreTables(db.committed)' /\ AuditIsTrue'
  BY <1>1 DEF SyncInv, AreTables, AuditIsTrue
<1>3. OneWriter'
  BY <1>1, IdleIsGood DEF OneWriter
<1> QED BY <1>1, <1>2, <1>3, IdleIsGood DEF SyncInv, Good

LEMMA SameSyncKeepsInv ==
    ASSUME SyncInv, UNCHANGED <<db, sync>>
    PROVE  SyncInv'
BY DEF SyncInv, AreTables, AuditIsTrue, OneWriter, Sees, Adds

LEMMA InitSyncInv ==
    ASSUME SyncInit
    PROVE  SyncInv
<1>1. DOMAIN sync = Syncs /\ \A s \in Syncs : sync[s] = NoSync
  BY DEF SyncInit
<1>2. DOMAIN db = {"committed", "written"} /\ db.committed = Tables
  BY DEF SyncInit
<1>3. AreTables(Tables) /\ Tables.runs = {} /\ Tables.hits = {}
  BY DEF AreTables, Tables
<1> QED BY <1>1, <1>2, <1>3, IdleIsGood DEF SyncInv, OneWriter, AuditIsTrue, Good

\* What a run of the sync reports is in the tables: none that reports success has lost
\* an item, and no hit is stored without its vacancy or by a run that did not report.
THEOREM SyncReportsTruly == SyncSpec => []AuditIsTrue
<1>1. SyncInit => SyncInv
  BY InitSyncInv
<1>2. SyncInv /\ [SyncNext]_syncVars => SyncInv'
  <2> SUFFICES ASSUME SyncInv, [SyncNext]_syncVars PROVE SyncInv'
    OBVIOUS
  <2>1. ASSUME NEW s \in Syncs, SyncStep(s)
        PROVE  SyncInv'
    BY <2>1, StartSyncKeepsInv, PreviewProfileKeepsInv, FetchPageKeepsInv, NextPageKeepsInv,
       ReadItemKeepsInv, WriteItemKeepsInv, FinishSyncKeepsInv, WriteFailsKeepsInv DEF SyncStep
  <2>2. ASSUME NEW p \in Profiles, PatchProfile(p)
        PROVE  SyncInv'
    BY <2>2, SameSyncKeepsInv DEF PatchProfile
  <2>3. CASE UNCHANGED syncVars
    BY <2>3, SameSyncKeepsInv DEF syncVars
  <2> QED BY <2>1, <2>2, <2>3, StopSyncsKeepsInv DEF SyncNext
<1>3. SyncInv => AuditIsTrue
  BY DEF SyncInv
<1> QED BY <1>1, <1>2, <1>3, PTL DEF SyncSpec
=============================================================================
