-------------------------------- MODULE HHOAuth --------------------------------
(***************************************************************************)
(* The tokens of the HH account (hh/oauth.py): the authorization in the    *)
(* browser, whose callback exchanges its code outside the lock, the        *)
(* refresh of an expired token under the lock, the disconnect, and the     *)
(* bundle in the keyring that a restart reads back.  An access token, its  *)
(* refresh token and their expiry are one number: HH issues them together. *)
(***************************************************************************)
EXTENDS Naturals

CONSTANTS
    Threads,      \* that need an access token
    Flows,        \* authorizations, each with its state and its code
    MaxTokens     \* bound on the tokens HH issues

VARIABLES
    memory,       \* _access_token and _expires_at
    bundle,       \* HH_OAUTH_TOKEN_BUNDLE in the keyring
    pending,      \* _pending
    flow,         \* flow -> the callback that exchanges its code
    thread,       \* thread -> its call of access_token
    lock,         \* the thread that holds _lock across the refresh
    issued,       \* HH: tokens issued so far
    expired,      \* tokens whose expires_at has passed
    spent,        \* HH: refresh tokens it has answered; it answers each once
    replaced      \* history: refresh tokens whose answer is in the keyring

oauthVars == <<memory, bundle, pending, flow, thread, lock, issued, expired, spent, replaced>>

NoToken == 0
Free == "free"

ASSUME OAuthAssumption == MaxTokens \in Nat /\ Free \notin Threads

\* A request at HH: the refresh token it spends, and what HH has granted.
Waits == [at |-> "idle", sent |-> NoToken, granted |-> NoToken]

OAuthInit ==
    /\ memory = NoToken /\ bundle = NoToken
    /\ pending = {}
    /\ flow = [f \in Flows |-> Waits]
    /\ thread = [c \in Threads |-> Waits]
    /\ lock = Free
    /\ issued = 0 /\ expired = {} /\ spent = {} /\ replaced = {}

hhVars == <<issued, expired, spent>>
HasValidToken == memory # NoToken /\ memory \notin expired

-----------------------------------------------------------------------------
(* The authorization.                                                      *)

\* _lock is held across a refresh: everyone else waits for it.
StartOAuth(f) ==
    /\ flow[f].at = "idle" /\ f \notin pending /\ lock = Free
    /\ pending' = pending \cup {f}
    /\ UNCHANGED <<memory, bundle, flow, thread, lock, replaced, hhVars>>

\* Five minutes have passed; the next start or callback purges it.
PendingExpires(f) ==
    /\ f \in pending /\ pending' = pending \ {f}
    /\ UNCHANGED <<memory, bundle, flow, thread, lock, replaced, hhVars>>

Callback(f) ==
    /\ f \in pending /\ lock = Free
    /\ pending' = pending \ {f}
    /\ flow' = [flow EXCEPT ![f].at = "exchanging"]
    /\ UNCHANGED <<memory, bundle, thread, lock, replaced, hhVars>>

ExchangeCode(f) ==
    /\ flow[f].at = "exchanging"
    /\ \/ /\ issued < MaxTokens /\ issued' = issued + 1
          /\ flow' = [flow EXCEPT ![f].at = "storing", ![f].granted = issued']
       \/ /\ flow' = [flow EXCEPT ![f] = Waits]
          /\ UNCHANGED issued
    /\ UNCHANGED <<memory, bundle, pending, thread, lock, expired, spent, replaced>>

\* _adopt_tokens: one write of the keyring, which may fail, then the memory.
StoreTokens(f) ==
    /\ flow[f].at = "storing"
    /\ \/ bundle' = flow[f].granted /\ flow' = [flow EXCEPT ![f].at = "stored"]
       \/ UNCHANGED bundle /\ flow' = [flow EXCEPT ![f] = Waits]
    /\ UNCHANGED <<memory, pending, thread, lock, replaced, hhVars>>

RememberTokens(f) ==
    /\ flow[f].at = "stored"
    /\ memory' = flow[f].granted
    /\ flow' = [flow EXCEPT ![f] = Waits]
    /\ UNCHANGED <<bundle, pending, thread, lock, replaced, hhVars>>

\* The memory is cleared first; the keyring may refuse to delete.
Disconnect ==
    /\ lock = Free
    /\ memory' = NoToken /\ pending' = {}
    /\ bundle' \in {NoToken, bundle}
    /\ UNCHANGED <<flow, thread, lock, replaced, hhVars>>

-----------------------------------------------------------------------------
(* access_token.                                                           *)

NeedToken(c) ==
    /\ thread[c].at = "idle" /\ ~HasValidToken
    /\ thread' = [thread EXCEPT ![c].at = "waiting"]
    /\ UNCHANGED <<memory, bundle, pending, flow, lock, replaced, hhVars>>

\* Another thread may have refreshed the token meanwhile.
TakeLock(c) ==
    /\ thread[c].at = "waiting" /\ lock = Free
    /\ IF HasValidToken
         THEN thread' = [thread EXCEPT ![c] = Waits] /\ UNCHANGED lock
         ELSE thread' = [thread EXCEPT ![c].at = "locked"] /\ lock' = c
    /\ UNCHANGED <<memory, bundle, pending, flow, replaced, hhVars>>

Leaves(c) == thread' = [thread EXCEPT ![c] = Waits] /\ lock' = Free

\* The mutant does not hold the lock while it asks HH.
ReadBundleUnlocked(c) ==
    /\ thread[c].at = "locked"
    /\ lock' = Free
    /\ thread' = [thread EXCEPT ![c] = IF bundle = NoToken THEN Waits
                                       ELSE [Waits EXCEPT !.at = "refreshing", !.sent = bundle]]
    /\ UNCHANGED <<memory, bundle, pending, flow, replaced, hhVars>>
ReadBundle(c) ==
    /\ thread[c].at = "locked"
    /\ IF bundle = NoToken
         THEN Leaves(c)
         ELSE thread' = [thread EXCEPT ![c].at = "refreshing", ![c].sent = bundle] /\ UNCHANGED lock
    /\ UNCHANGED <<memory, bundle, pending, flow, replaced, hhVars>>

\* HH answers a refresh token once, after its access token has expired; the
\* answer may be lost.
RefreshToken(c) ==
    /\ thread[c].at = "refreshing"
    /\ \/ /\ thread[c].sent \in expired \ spent /\ issued < MaxTokens
          /\ issued' = issued + 1
          /\ spent' = spent \cup {thread[c].sent}
          /\ \/ /\ thread' = [thread EXCEPT ![c].at = "storing", ![c].granted = issued']
                /\ UNCHANGED lock
             \/ Leaves(c)
       \/ Leaves(c) /\ UNCHANGED <<issued, spent>>
    /\ UNCHANGED <<memory, bundle, pending, flow, expired, replaced>>

StoreRefreshed(c) ==
    /\ thread[c].at = "storing"
    /\ \/ /\ bundle' = thread[c].granted
          /\ replaced' = replaced \cup {thread[c].sent}
          /\ thread' = [thread EXCEPT ![c].at = "stored"]
          /\ UNCHANGED lock
       \/ Leaves(c) /\ UNCHANGED <<bundle, replaced>>
    /\ UNCHANGED <<memory, pending, flow, hhVars>>

RememberRefreshed(c) ==
    /\ thread[c].at = "stored"
    /\ memory' = thread[c].granted
    /\ Leaves(c)
    /\ UNCHANGED <<bundle, pending, flow, replaced, hhVars>>

-----------------------------------------------------------------------------
Expires(t) ==
    /\ t \in 1..issued \ expired /\ expired' = expired \cup {t}
    /\ UNCHANGED <<memory, bundle, pending, flow, thread, lock, issued, spent, replaced>>

\* The companion stops at any step; the next one restores what the keyring holds.
RestartCompanion ==
    /\ memory' = bundle /\ pending' = {}
    /\ flow' = [f \in Flows |-> Waits] /\ thread' = [c \in Threads |-> Waits] /\ lock' = Free
    /\ UNCHANGED <<bundle, replaced, hhVars>>

OAuthNext ==
    \/ \E f \in Flows :
         \/ StartOAuth(f) \/ PendingExpires(f) \/ Callback(f)
         \/ ExchangeCode(f) \/ StoreTokens(f) \/ RememberTokens(f)
    \/ \E c \in Threads :
         \/ NeedToken(c) \/ TakeLock(c) \/ ReadBundle(c)
         \/ RefreshToken(c) \/ StoreRefreshed(c) \/ RememberRefreshed(c)
    \/ Disconnect \/ RestartCompanion
    \/ \E t \in 1..MaxTokens : Expires(t)

-----------------------------------------------------------------------------
\* A refresh token is single-use: once the answer to it is in the keyring it is not sent again,
\* whatever callbacks, disconnects and restarts put beside the refresh.
RefreshTokenSpentOnce ==
    \A c \in Threads : thread[c].at = "refreshing" => thread[c].sent \notin replaced
=============================================================================
