---------------------------- MODULE AccessToken ----------------------------
(***************************************************************************)
(* The access token of one server profile, shared by the threads that talk *)
(* to the server (src/fulgur/sync/access_token.rs): a cached token under a *)
(* mutex, one refresh at a time, and a condition variable for the others.  *)
(*                                                                         *)
(* Each action is one critical section of the mutex, or what a thread does *)
(* while it does not hold it.  A device key is the number of the write     *)
(* that put it into the keychain; a token is the key it was obtained with  *)
(* and whether more than the five minutes of is_token_valid are left.      *)
(* The definitions that SyncSession has too carry "Token" in their name:   *)
(* SyncProofs extends both modules.                                        *)
(***************************************************************************)
EXTENDS Naturals

CONSTANTS
    Threads,   \* the threads that ask for a token
    MaxCalls,  \* bound: calls of get_valid_token in a behaviour
    MaxKeys    \* bound: device keys in a behaviour

ASSUME AccessTokenAssumption == MaxCalls \in Nat /\ MaxKeys \in Nat

NoKey == 0
NoToken == [key |-> NoKey, valid |-> FALSE]

VARIABLES
    token,       \* access_token and token_expires_at
    refreshing,  \* is_refreshing_token
    pc,          \* per thread: where it is in get_valid_token
    sent,        \* per thread: the key its token request was made with
    key,         \* the device key in the keychain
    clearing,    \* a key was stored and clear_token is still to come
    rollback,    \* device_key_rollback of the profile sheet was written
    calls,       \* the number of calls so far
    cleared,     \* history: the key in the keychain at the last clear_token
    asked,       \* history: per thread, cleared when its call began
    overlapped   \* history: a token was cleared while one was being requested

tokenVars == <<token, refreshing, pc, sent, key, clearing, rollback, calls, cleared,
          asked, overlapped>>
userVars == <<key, clearing, rollback, cleared, overlapped>>

(* "asleep" is the wait on refresh_notify; a thread leaves it woken by a   *)
(* notification or by the timeout and then needs the mutex.                *)
TokenPlaces ==
    {"idle", "slow", "asleep", "woken", "timedOut", "loading", "requested"}

TokenInit ==
    /\ token = NoToken
    /\ refreshing = FALSE
    /\ pc = [t \in Threads |-> "idle"]
    /\ sent = [t \in Threads |-> NoKey]
    /\ key = 1
    /\ clearing = FALSE
    /\ rollback = FALSE
    /\ calls = 0
    /\ cleared = NoKey
    /\ asked = [t \in Threads |-> NoKey]
    /\ overlapped = FALSE

Goto(t, place) == pc' = [pc EXCEPT ![t] = place]

(* notify_all, together with the step of t that calls it.                  *)
NotifyAll(t) ==
    pc' = [u \in Threads |-> IF u = t THEN "idle"
                             ELSE IF pc[u] = "asleep" THEN "woken" ELSE pc[u]]

-----------------------------------------------------------------------------
(* get_valid_token is called; the fast path looks at the token once.       *)
FastPath(t) ==
    /\ pc[t] = "idle"
    /\ calls < MaxCalls
    /\ calls' = calls + 1
    /\ asked' = [asked EXCEPT ![t] = cleared]
    /\ Goto(t, IF token.valid THEN "idle" ELSE "slow")
    /\ UNCHANGED <<token, refreshing, sent, userVars>>

(* The slow path, and each return from the wait: a token that is valid by  *)
(* now is returned.                                                        *)
Returns(t) ==
    /\ pc[t] \in {"slow", "woken", "timedOut"}
    /\ token.valid
    /\ Goto(t, "idle")
    /\ UNCHANGED <<token, refreshing, sent, calls, asked, userVars>>

(* Another thread refreshes the token: wait for it, or wait again.         *)
Waits(t) ==
    /\ pc[t] \in {"slow", "woken"}
    /\ ~token.valid
    /\ refreshing
    /\ Goto(t, "asleep")
    /\ UNCHANGED <<token, refreshing, sent, calls, asked, userVars>>

(* The wait timed out and the other thread is still at it: an error.       *)
GivesUp(t) ==
    /\ pc[t] = "timedOut"
    /\ ~token.valid
    /\ refreshing
    /\ Goto(t, "idle")
    /\ UNCHANGED <<token, refreshing, sent, calls, asked, userVars>>

(* Mutant: a thread that was woken does not look at the flag again.        *)
TakesOverBlindly(t) ==
    /\ pc[t] \in {"slow", "woken", "timedOut"}
    /\ ~token.valid
    /\ refreshing => pc[t] = "woken"
    /\ refreshing' = TRUE
    /\ Goto(t, "loading")
    /\ UNCHANGED <<token, sent, calls, asked, userVars>>

(* Nobody refreshes it: this thread does, after releasing the mutex.       *)
TakesOver(t) ==
    /\ pc[t] \in {"slow", "woken", "timedOut"}
    /\ ~token.valid
    /\ ~refreshing
    /\ refreshing' = TRUE
    /\ Goto(t, "loading")
    /\ UNCHANGED <<token, sent, calls, asked, userVars>>

(* wait_for reaches REFRESH_WAIT_TIMEOUT.                                  *)
WaitTimesOut(t) ==
    /\ pc[t] = "asleep"
    /\ Goto(t, "timedOut")
    /\ UNCHANGED <<token, refreshing, sent, calls, asked, userVars>>

(* request_access_token reads the device key and sends the request.        *)
Requests(t) ==
    /\ pc[t] = "loading"
    /\ sent' = [sent EXCEPT ![t] = key]
    /\ Goto(t, "requested")
    /\ UNCHANGED <<token, refreshing, calls, asked, userVars>>

(* The answer is stored, whatever happened to the cached token meanwhile,  *)
(* and returned; the server chose how long it is good for.                 *)
Stores(t) ==
    /\ pc[t] = "requested"
    /\ \E valid \in BOOLEAN : token' = [key |-> sent[t], valid |-> valid]
    /\ refreshing' = FALSE
    /\ NotifyAll(t)
    /\ UNCHANGED <<sent, calls, asked, userVars>>

(* Mutant: the error path clears the flag and wakes nobody.                *)
FailsSilently(t) ==
    /\ pc[t] \in {"loading", "requested"}
    /\ refreshing' = FALSE
    /\ Goto(t, "idle")
    /\ UNCHANGED <<token, sent, calls, asked, userVars>>

(* Mutant: the error path wakes the others and leaves the flag set.        *)
FailsRefreshing(t) ==
    /\ pc[t] \in {"loading", "requested"}
    /\ NotifyAll(t)
    /\ UNCHANGED <<token, refreshing, sent, calls, asked, userVars>>

(* No key, no answer, or one that cannot be parsed.                        *)
Fails(t) ==
    /\ pc[t] \in {"loading", "requested"}
    /\ refreshing' = FALSE
    /\ NotifyAll(t)
    /\ UNCHANGED <<token, sent, calls, asked, userVars>>

-----------------------------------------------------------------------------
(* The profile sheet: Test connection (handle_test_connection) and Save    *)
(* (handle_save_internal) store the key first; Test has taken a snapshot   *)
(* of the old one.  The token is cleared later, if Save's update of the    *)
(* profile does not fail in between.                                       *)
StoreKey ==
    /\ key < MaxKeys
    /\ key' = key + 1
    /\ clearing' = TRUE
    /\ rollback' \in {rollback, TRUE}
    /\ UNCHANGED <<token, refreshing, pc, sent, calls, cleared, asked,
                   overlapped>>

(* Mutant: the token is forgotten but not its expiry date.                 *)
ClearTokenHalf ==
    /\ clearing
    /\ clearing' = FALSE
    /\ rollback' \in {rollback, FALSE}
    /\ token' = [token EXCEPT !.key = NoKey]
    /\ cleared' = key
    /\ overlapped' = (overlapped \/ refreshing)
    /\ UNCHANGED <<refreshing, pc, sent, key, calls, asked>>

(* clear_token; after Save the sheet closes, and with it the snapshot goes. *)
ClearToken ==
    /\ clearing
    /\ clearing' = FALSE
    /\ rollback' \in {rollback, FALSE}
    /\ token' = NoToken
    /\ cleared' = key
    /\ overlapped' = (overlapped \/ refreshing)
    /\ UNCHANGED <<refreshing, pc, sent, key, calls, asked>>

(* handle_cancel puts the old key back and closes the sheet: another write *)
(* to the keychain, which leaves the cached token alone.                   *)
CancelEdit ==
    /\ rollback
    /\ rollback' = FALSE
    /\ clearing' = FALSE
    /\ key < MaxKeys
    /\ key' = key + 1
    /\ UNCHANGED <<token, refreshing, pc, sent, calls, cleared, asked,
                   overlapped>>

(* The last five minutes of the token begin.                               *)
Expire ==
    /\ token.valid
    /\ token' = [token EXCEPT !.valid = FALSE]
    /\ UNCHANGED <<refreshing, pc, sent, calls, asked, userVars>>

Step(t) ==
    \/ Returns(t) \/ Waits(t) \/ GivesUp(t) \/ TakesOver(t)
    \/ Requests(t) \/ Stores(t) \/ Fails(t)

TokenNext ==
    \/ \E t \in Threads : FastPath(t) \/ Step(t) \/ WaitTimesOut(t)
    \/ StoreKey \/ ClearToken \/ CancelEdit \/ Expire

TokenSpec == TokenInit /\ [][TokenNext]_tokenVars

(* Threads run and requests end (the HTTP agent has timeouts).  The        *)
(* timeout of the wait is not relied upon.                                 *)
TokenFairness == \A t \in Threads : WF_tokenVars(Step(t))

TokenFairSpec == TokenSpec /\ TokenFairness

-----------------------------------------------------------------------------
TokenTypeOK ==
    /\ token \in [key : Nat \ {NoKey}, valid : BOOLEAN] \cup {NoToken}
    /\ refreshing \in BOOLEAN
    /\ pc \in [Threads -> TokenPlaces]
    /\ sent \in [Threads -> Nat]
    /\ key \in Nat \ {NoKey}
    /\ clearing \in BOOLEAN
    /\ rollback \in BOOLEAN
    /\ calls \in 0..MaxCalls
    /\ cleared \in Nat
    /\ asked \in [Threads -> Nat]
    /\ overlapped \in BOOLEAN

Refreshers == {t \in Threads : pc[t] \in {"loading", "requested"}}

(* "only one performs the refresh": whatever fails, times out or is woken, *)
(* two token requests are never under way, and the flag is set exactly     *)
(* while one is, so it never locks the later calls out.                    *)
SingleFlight ==
    /\ \A t, u \in Refreshers : t = u
    /\ refreshing <=> Refreshers # {}

(* No wakeup is lost: a thread sleeps only while another one is going to   *)
(* wake it, also when the refresh fails.                                   *)
SleepersAreWoken ==
    \A t \in Threads : pc[t] = "asleep" => \E u \in Refreshers : u # t

(* The token a step of t returns, if it returns one.                       *)
ReturnedKey(t, k) ==
    \/ (FastPath(t) \/ Returns(t)) /\ token.valid /\ k = token.key
    \/ Stores(t) /\ k = sent[t]

(* A call that began after the token was cleared for a new key does not    *)
(* return a token obtained with an older one, provided no token was        *)
(* requested while it was cleared.                                         *)
ClearedTokenIsGone ==
    [][\A t \in Threads, k \in 0..key :
         ReturnedKey(t, k) /\ ~overlapped => asked'[t] <= k]_tokenVars

(* "Clear the cached JWT so the next call uses the latest key/email"       *)
(* (handlers.rs), "forcing a refresh on next access" (access_token.rs):    *)
(* the same without the proviso.                                           *)
NextCallUsesLatestKey ==
    [][\A t \in Threads, k \in 0..key :
         ReturnedKey(t, k) => asked'[t] <= k]_tokenVars

(* Every call returns, with a token or an error.                           *)
CallsReturn == \A t \in Threads : pc[t] # "idle" ~> pc[t] = "idle"
=============================================================================
