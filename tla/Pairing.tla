------------------------------- MODULE Pairing -------------------------------
(***************************************************************************)
(* The pairing of the extension with the local companion.  Every page of   *)
(* the extension has its own client object, status cache and shared status *)
(* probe; they share one stored token.  The settings page pairs, recovers, *)
(* disconnects, switches Ops Mode and deletes all data; any page probes    *)
(* the status.  companion-service.ts, companion-auth-bridge.ts,            *)
(* ops-client.ts, CompanionSettings.tsx, OpsStatusIndicator.tsx, and the   *)
(* companion's pairing.py at the other end.                                *)
(***************************************************************************)
EXTENDS Integers

CONSTANTS
    PairingPages,   \* extension pages
    SettingsPage,   \* the one that shows CompanionSettings
    MaxTokens,      \* bound on the tokens the companion issues
    MaxOpsSwitches     \* bound on the uses of the Ops Mode switch

ASSUME PairingAssumption == SettingsPage \in PairingPages

VARIABLES
    opsWanted,     \* settings.companion.opsModeEnabled
    storedToken,   \* chrome.storage.local companion_client_token_v1
    serverToken,   \* the token the companion accepts
    issued,        \* tokens issued so far
    challenge,     \* the companion holds the challenge of the form
    clientToken,   \* page -> the token in the page's OpsClient
    probe,         \* page -> its statusProbeInFlight
    cached,        \* page -> its statusCache
    job,           \* what the settings page's handler is doing
    wiping,        \* deleteAllData() is between the storage and the client
    wiped,         \* tokens that deleteAllData() has removed
    opsSwitches

pairingVars == <<opsWanted, storedToken, serverToken, issued, challenge, clientToken,
                 probe, cached, job, wiping, wiped, opsSwitches>>

NoToken == 0
NoStatus == "none"
\* A probe or job: its step, the token it has loaded, whether the client it uses is the
\* page's (owned), and whether the page's client state was reset meanwhile (stale).
At(step) == [at |-> step, token |-> NoToken, owned |-> FALSE, stale |-> FALSE]
ProbeIdle == At("idle")
JobIdle == At("idle")

PairingInit ==
    /\ opsWanted \in BOOLEAN
    /\ storedToken = NoToken /\ serverToken = NoToken
    /\ issued = 0 /\ challenge = FALSE
    /\ clientToken = [p \in PairingPages |-> NoToken]
    /\ probe = [p \in PairingPages |-> ProbeIdle]
    /\ cached = [p \in PairingPages |-> NoStatus]
    /\ job = JobIdle
    /\ wiping = FALSE /\ wiped = {}
    /\ opsSwitches = 0

\* The storage event makes every status dot, of any page, drop the cached status.
Invalidated == [p \in PairingPages |-> NoStatus]
SettingsCacheDropped == [cached EXCEPT ![SettingsPage] = NoStatus]

\* setClientToken and clearClientToken change the object a running probe may be using.
ClientSet(t) ==
    /\ clientToken' = [clientToken EXCEPT ![SettingsPage] = t]
    /\ probe' = [probe EXCEPT ![SettingsPage].token =
                     IF probe[SettingsPage].owned THEN t ELSE @]

\* A new OpsClient, which holds no token yet, replaces the page's.
ClientReplaced(p) ==
    /\ clientToken' = [clientToken EXCEPT ![p] = NoToken]
    /\ probe' = [probe EXCEPT ![p].owned = FALSE]

\* The mutant injects whatever it has loaded.
InjectsAlways(p, call) == TRUE

\* initCompanionClient after its await: a reset meanwhile makes it leave the client alone.
Injects(p, call) == ~call.stale

-----------------------------------------------------------------------------
(* detectCompanionStatus: one probe per page at a time, which callers share. *)

StartsProbe(p) ==
    /\ probe[p].at = "idle"
    /\ cached[p] = NoStatus \/ p = SettingsPage
    /\ probe' = [probe EXCEPT ![p] = At("settings")]
    /\ UNCHANGED <<opsWanted, storedToken, serverToken, issued, challenge, clientToken,
                   cached, job, wiping, wiped, opsSwitches>>

CacheExpires(p) ==
    /\ cached[p] # NoStatus
    /\ cached' = [cached EXCEPT ![p] = NoStatus]
    /\ UNCHANGED <<opsWanted, storedToken, serverToken, issued, challenge, clientToken,
                   probe, job, wiping, wiped, opsSwitches>>

\* The probe ends: its status is cached unless the client state was reset meanwhile.
ProbeEnds(p, status) ==
    /\ probe' = [probe EXCEPT ![p] = ProbeIdle]
    /\ cached' = IF probe[p].stale THEN cached ELSE [cached EXCEPT ![p] = status]

ReadsSettings(p) ==
    /\ probe[p].at = "settings"
    /\ IF opsWanted
         THEN /\ clientToken' = [clientToken EXCEPT ![p] = NoToken]
              /\ probe' = [probe EXCEPT ![p].at = "token"]
              /\ UNCHANGED cached
         ELSE ProbeEnds(p, "unavailable") /\ UNCHANGED clientToken
    /\ UNCHANGED <<opsWanted, storedToken, serverToken, issued, challenge, job,
                   wiping, wiped, opsSwitches>>

\* loadClientToken has read the storage; its answer reaches the page later.
LoadsToken(p) ==
    /\ probe[p].at = "token"
    /\ probe' = [probe EXCEPT ![p].at = "inject", ![p].token = storedToken]
    /\ UNCHANGED <<opsWanted, storedToken, serverToken, issued, challenge, clientToken,
                   cached, job, wiping, wiped, opsSwitches>>

InjectsToken(p) ==
    /\ probe[p].at = "inject"
    /\ IF Injects(p, probe[p])
         THEN /\ clientToken' = [clientToken EXCEPT ![p] = probe[p].token]
              /\ probe' = [probe EXCEPT ![p].at = "handshake", ![p].owned = TRUE]
              /\ UNCHANGED cached
         ELSE ProbeEnds(p, "unavailable") /\ UNCHANGED clientToken
    /\ UNCHANGED <<opsWanted, storedToken, serverToken, issued, challenge, job,
                   wiping, wiped, opsSwitches>>

\* GET /health: unreachable, incompatible or another error, or healthy.
Handshake(p) ==
    /\ probe[p].at = "handshake"
    /\ \/ \E status \in {"unavailable", "error"} : ProbeEnds(p, status)
       \/ probe[p].token = NoToken /\ ProbeEnds(p, "unpaired")
       \/ /\ probe[p].token # NoToken
          /\ probe' = [probe EXCEPT ![p].at = "status"]
          /\ UNCHANGED cached
    /\ UNCHANGED <<opsWanted, storedToken, serverToken, issued, challenge, clientToken,
                   job, wiping, wiped, opsSwitches>>

\* GET /pair/status with the token the client holds now; a token cleared meanwhile is an error.
PairStatus(p) ==
    /\ probe[p].at = "status"
    /\ \/ ProbeEnds(p, "unavailable")
       \/ probe[p].token = NoToken /\ ProbeEnds(p, "error")
       \/ probe[p].token = serverToken /\ serverToken # NoToken /\ ProbeEnds(p, "connected")
       \/ /\ probe[p].token \notin {NoToken, serverToken}
          /\ probe' = [probe EXCEPT ![p].at = "refused"]
          /\ UNCHANGED cached
    /\ UNCHANGED <<opsWanted, storedToken, serverToken, issued, challenge, clientToken,
                   job, wiping, wiped, opsSwitches>>

\* 401: the stored copy is deleted, and cleared in the client that was refused.
DeletesRefused(p) ==
    /\ probe[p].at = "refused"
    /\ IF probe[p].stale \/ (wiping /\ p = SettingsPage)
         THEN ProbeEnds(p, "unavailable") /\ UNCHANGED <<storedToken, clientToken>>
         ELSE /\ storedToken' = NoToken
              /\ clientToken' = IF probe[p].owned THEN [clientToken EXCEPT ![p] = NoToken]
                                                  ELSE clientToken
              /\ probe' = [probe EXCEPT ![p] = ProbeIdle]
              /\ cached' = [Invalidated EXCEPT ![p] = "unpaired"]
    /\ UNCHANGED <<opsWanted, serverToken, issued, challenge, job, wiping, wiped, opsSwitches>>

-----------------------------------------------------------------------------
(* The settings page: one handler at a time.                               *)

\* POST /pair/start or /pair/recover/start: recovery needs an existing pairing.
StartsPairing(mode) ==
    /\ job.at = "idle"
    /\ cached[SettingsPage] \in {"unpaired", "error"}
    /\ \/ /\ mode = "recover" => serverToken # NoToken
          /\ challenge' = TRUE
          /\ job' = At(mode)
          /\ cached' = SettingsCacheDropped
       \/ UNCHANGED <<challenge, job, cached>>
    /\ UNCHANGED <<opsWanted, storedToken, serverToken, issued, clientToken, probe,
                   wiping, wiped, opsSwitches>>

CancelsPairing ==
    /\ job.at \in {"pair", "recover"}
    /\ job' = JobIdle
    /\ UNCHANGED <<opsWanted, storedToken, serverToken, issued, challenge, clientToken,
                   probe, cached, wiping, wiped, opsSwitches>>

\* The companion consumes the challenge and issues a token: pairing refuses to replace
\* one, recovery to create one.  Its answer may be lost.
Grants(mode) ==
    /\ challenge /\ issued < MaxTokens
    /\ (mode = "pair") = (serverToken = NoToken)

ConfirmsPairing ==
    /\ job.at \in {"pair", "recover"}
    /\ \/ /\ Grants(job.at)
          /\ serverToken' = issued + 1 /\ issued' = issued + 1
          /\ challenge' = FALSE
          /\ job' \in {[job EXCEPT !.at = "save", !.token = issued + 1], JobIdle}
       \/ /\ challenge' \in {challenge, FALSE}
          /\ job' = IF job.at = "pair" THEN JobIdle ELSE job
          /\ UNCHANGED <<serverToken, issued>>
    /\ UNCHANGED <<opsWanted, storedToken, clientToken, probe, cached, wiping, wiped,
                   opsSwitches>>

\* The client of a handler that a reset has overtaken is no longer the page's.
SavesToken ==
    /\ job.at = "save"
    /\ IF wiping
         THEN UNCHANGED <<storedToken, clientToken, probe, cached>>
         ELSE /\ storedToken' = job.token
              /\ IF job.stale THEN UNCHANGED <<clientToken, probe>> ELSE ClientSet(job.token)
              /\ cached' = Invalidated
    /\ job' = JobIdle
    /\ UNCHANGED <<opsWanted, serverToken, issued, challenge, wiping, wiped, opsSwitches>>

\* The Ops Mode switch and Disconnect both make a new client and load the token into it.
SwitchesOpsMode ==
    /\ job.at = "idle" /\ opsSwitches < MaxOpsSwitches /\ ~wiping
    /\ opsWanted' = ~opsWanted
    /\ opsSwitches' = opsSwitches + 1
    /\ cached' = Invalidated
    /\ ClientReplaced(SettingsPage)
    /\ job' = At("load")
    /\ UNCHANGED <<storedToken, serverToken, issued, challenge, wiping, wiped>>

Disconnects ==
    /\ job.at = "idle" /\ cached[SettingsPage] = "connected"
    /\ ClientReplaced(SettingsPage)
    /\ job' = At("load_to_revoke")
    /\ UNCHANGED <<opsWanted, storedToken, serverToken, issued, challenge, cached,
                   wiping, wiped, opsSwitches>>

JobLoadsToken ==
    /\ job.at \in {"load", "load_to_revoke"}
    /\ job' = [job EXCEPT !.at = IF @ = "load" THEN "inject" ELSE "inject_to_revoke",
                          !.token = storedToken]
    /\ UNCHANGED <<opsWanted, storedToken, serverToken, issued, challenge, clientToken,
                   probe, cached, wiping, wiped, opsSwitches>>

JobInjectsToken ==
    /\ job.at \in {"inject", "inject_to_revoke"}
    /\ IF Injects(SettingsPage, job)
         THEN ClientSet(job.token)
         ELSE UNCHANGED <<clientToken, probe>>
    /\ job' = IF job.at = "inject" THEN JobIdle ELSE [job EXCEPT !.at = "revoke"]
    /\ UNCHANGED <<opsWanted, storedToken, serverToken, issued, challenge, cached,
                   wiping, wiped, opsSwitches>>

\* POST /pair/revoke, best effort, with whatever token the page's client holds.
Revokes ==
    /\ job.at = "revoke"
    /\ serverToken' \in (IF clientToken[SettingsPage] # serverToken THEN {serverToken}
                                                                 ELSE {serverToken, NoToken})
    /\ job' = [job EXCEPT !.at = "forget"]
    /\ UNCHANGED <<opsWanted, storedToken, issued, challenge, clientToken, probe, cached,
                   wiping, wiped, opsSwitches>>

ForgetsToken ==
    /\ job.at = "forget"
    /\ IF wiping
         THEN UNCHANGED <<storedToken, clientToken, probe, cached>>
         ELSE storedToken' = NoToken /\ ClientSet(NoToken) /\ cached' = Invalidated
    /\ job' = JobIdle
    /\ UNCHANGED <<opsWanted, serverToken, issued, challenge, wiping, wiped, opsSwitches>>

-----------------------------------------------------------------------------
(* deleteAllData, and the companion restarting.                            *)

ClearsToken ==
    /\ ~wiping /\ wiped = {}
    /\ wiping' = TRUE
    /\ wiped' = {storedToken} \ {NoToken}
    /\ storedToken' = NoToken
    /\ cached' = Invalidated
    /\ UNCHANGED <<opsWanted, serverToken, issued, challenge, clientToken, probe, job, opsSwitches>>

\* resetCompanionClientState, then the default settings; local writes met the barrier first.
ResetsClient ==
    /\ wiping /\ job.at \notin {"save", "forget"}
    /\ clientToken' = [clientToken EXCEPT ![SettingsPage] = NoToken]
    /\ probe' = [probe EXCEPT ![SettingsPage].stale = probe[SettingsPage].at # "idle",
                              ![SettingsPage].owned = FALSE]
    /\ cached' = Invalidated
    /\ job' = [job EXCEPT !.stale = job.at # "idle"]
    /\ opsWanted' = FALSE
    /\ wiping' = FALSE
    /\ UNCHANGED <<storedToken, serverToken, issued, challenge, wiped, opsSwitches>>

CompanionRestarts ==
    /\ challenge
    /\ challenge' = FALSE
    /\ UNCHANGED <<opsWanted, storedToken, serverToken, issued, clientToken, probe,
                   cached, job, wiping, wiped, opsSwitches>>

PairingNext ==
    \/ \E p \in PairingPages :
         \/ StartsProbe(p) \/ CacheExpires(p) \/ ReadsSettings(p) \/ LoadsToken(p)
         \/ InjectsToken(p) \/ Handshake(p) \/ PairStatus(p) \/ DeletesRefused(p)
    \/ \E mode \in {"pair", "recover"} : StartsPairing(mode)
    \/ CancelsPairing \/ ConfirmsPairing \/ SavesToken \/ SwitchesOpsMode \/ Disconnects
    \/ JobLoadsToken \/ JobInjectsToken \/ Revokes \/ ForgetsToken
    \/ ClearsToken \/ ResetsClient \/ CompanionRestarts

-----------------------------------------------------------------------------
\* A token that deleting all data has removed never comes back into the client of the page
\* that deleted it, although a probe or a handler had read it before and injects it after.
ForgottenStaysForgotten ==
    ~wiping => clientToken[SettingsPage] \notin wiped
=============================================================================
