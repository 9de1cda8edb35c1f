------------------------------ MODULE CloudAuth ------------------------------
(***************************************************************************)
(* The account of the cloud mirror: the one configuration row (store/      *)
(* cloudconfig.go), the sign-in with its link, code and PKCE verifier      *)
(* (cloud/oauth.go, api/oauth_callback.go, api/routes_cloud.go, cliapp/    *)
(* commands_cloud.go), and the refresh of a token that has expired, which  *)
(* reads the whole row, asks the provider and writes the whole row back.   *)
(*                                                                         *)
(* A sign-in is a number: its link, its verifier and challenge, its code   *)
(* and the tokens it ends in.  The provider (external) hands a code to the *)
(* browser once its link is approved, exchanges it once and only with its  *)
(* own verifier, and refreshes the tokens until they are revoked.  A read  *)
(* and a write of the row with no call between them are one step.          *)
(***************************************************************************)
EXTENDS Naturals, Sequences, FiniteSets, SequencesExt

CONSTANTS
    Providers,      \* the destinations a user may choose
    SignIn,         \* those with an account: google_drive, dropbox, onedrive
    Callers,        \* goroutines that call a provider
    MaxFlows,       \* bound: sign-ins, the one before we look included
    MaxOps,         \* bound: things the user does
    MaxFaults       \* bound: failed calls, revoked grants and exits

ASSUME AccountAssumption ==
    /\ SignIn \subseteq Providers
    /\ MaxFlows \in Nat \ {0} /\ MaxOps \in Nat /\ MaxFaults \in Nat

VARIABLES
    config,         \* the row: enabled, provider, whose tokens, access token unexpired
    flow,           \* per sign-in: its provider and how far the user got
    pending,        \* pendingPKCE: the sign-in whose verifier the daemon holds, or 0
    listening,      \* the loopback listener waits for the redirect
    posting,        \* the code that `cloud connect --code` has yet to post, or 0
    exchange,       \* per code: the verifier it is being exchanged with, or 0
    granted,        \* sign-ins whose tokens are not stored yet
    live,           \* sign-ins the provider still honours
    refresh,        \* per caller: the row a refresh began from
    ops, faults

signing == <<flow, pending, listening, posting, exchange, granted, live>>
account == <<config, refresh, signing>>

-----------------------------------------------------------------------------
(* State                                                                   *)

Flows == 1..MaxFlows

Row == [enabled : BOOLEAN, provider : Providers, session : 0..MaxFlows, fresh : BOOLEAN]
NoRow == [enabled |-> FALSE, provider |-> "", session |-> 0, fresh |-> FALSE]

NoFlow == [provider |-> "", state |-> "none"]

AccountTypeOK ==
    /\ config \in Row
    /\ flow \in [Flows -> [provider : SignIn \cup {""},
                           state : {"none", "shown", "hidden", "approved", "spent"}]]
    /\ pending \in 0..MaxFlows /\ posting \in 0..MaxFlows
    /\ listening \in BOOLEAN
    /\ exchange \in [Flows -> 0..MaxFlows]
    /\ granted \subseteq Flows /\ live \subseteq Flows
    /\ refresh \in [Callers -> Row \cup {NoRow}]
    /\ ops \in 0..MaxOps /\ faults \in 0..MaxFaults

\* Cloud backup is off, or on with a destination, signed in where that takes it.
AccountInit ==
    /\ \E p \in Providers, on \in BOOLEAN :
          /\ config = [enabled |-> on, provider |-> p, fresh |-> FALSE,
                       session |-> IF p \in SignIn THEN 1 ELSE 0]
          /\ flow = [n \in Flows |-> IF n = 1 /\ p \in SignIn
                                     THEN [provider |-> p, state |-> "spent"] ELSE NoFlow]
          /\ live = IF p \in SignIn THEN {1} ELSE {}
    /\ pending = 0 /\ listening = FALSE /\ posting = 0
    /\ exchange = [n \in Flows |-> 0]
    /\ granted = {}
    /\ refresh = [c \in Callers |-> NoRow]
    /\ ops = 0 /\ faults = 0

Op == ops < MaxOps /\ ops' = ops + 1 /\ UNCHANGED faults
Fault == faults < MaxFaults /\ faults' = faults + 1 /\ UNCHANGED ops
Free == UNCHANGED <<ops, faults>>

-----------------------------------------------------------------------------
(* Signing in                                                              *)

\* A fresh verifier replaces the pending one, and a fresh listener the old one if
\* the port can be bound.  Only a link that is printed can be opened.
BeginFlow(n, p, printed) ==
    /\ flow[n] = NoFlow
    /\ \A m \in 1..(n - 1) : flow[m] # NoFlow
    /\ flow' = [flow EXCEPT ![n] = [provider |-> p, state |-> printed]]
    /\ pending' = n
    /\ listening' \in BOOLEAN

AuthStart(n, p) ==
    /\ Op
    /\ BeginFlow(n, p, "shown")
    /\ UNCHANGED <<config, posting, exchange, granted, live, refresh>>

\* `cloud connect <provider> --code <code>` begins a sign-in of its own and then
\* posts the code.
CliConnect(n, p, code) ==
    /\ Op
    /\ posting = 0
    /\ flow[code].state = "approved"
    /\ BeginFlow(n, p, "hidden")
    /\ posting' = code
    /\ UNCHANGED <<config, exchange, granted, live, refresh>>

\* The provider redirects the browser of a user who approves.  (External.)
Approve(n) ==
    /\ flow[n].state = "shown"
    /\ flow' = [flow EXCEPT ![n].state = "approved"]
    /\ Free
    /\ UNCHANGED <<config, pending, listening, posting, exchange, granted, live, refresh>>

\* Whoever brings a code takes the pending verifier with it; without one the answer
\* is an error.
TakePending(n) ==
    /\ exchange' = IF pending = 0 THEN exchange ELSE [exchange EXCEPT ![n] = pending]
    /\ pending' = 0

\* handleBrowserCallback.
Redirect(n) ==
    /\ listening
    /\ flow[n].state = "approved" /\ exchange[n] = 0
    /\ TakePending(n)
    /\ Free
    /\ UNCHANGED <<config, flow, listening, posting, granted, live, refresh>>

\* The user denied, or the provider sent no code: the verifier is gone.
Denied(n) ==
    /\ listening
    /\ flow[n].state = "shown"
    /\ pending' = 0
    /\ flow' = [flow EXCEPT ![n].state = "spent"]
    /\ Free
    /\ UNCHANGED <<config, listening, posting, exchange, granted, live, refresh>>

\* handleAuthCallback: the code is pasted into the app ...
PasteCode(n) ==
    /\ flow[n].state = "approved" /\ exchange[n] = 0
    /\ TakePending(n)
    /\ Free
    /\ UNCHANGED <<config, flow, listening, posting, granted, live, refresh>>

\* ... or posted by the command line.
PostCode ==
    /\ posting # 0 /\ exchange[posting] = 0
    /\ TakePending(posting)
    /\ posting' = 0
    /\ Free
    /\ UNCHANGED <<config, flow, listening, granted, live, refresh>>

\* activeAuthListener.stop, on a goroutine of its own: the page of a redirect has been
\* served, or the five minutes of some sign-in are over, this one or an earlier one.
ListenerCloses ==
    /\ listening
    /\ listening' = FALSE
    /\ Free
    /\ UNCHANGED <<config, flow, pending, posting, exchange, granted, live, refresh>>

\* ExchangeAuthCode.  The provider takes a code once and with its own verifier, ...
Exchanged(n) ==
    /\ exchange[n] = n /\ flow[n].state = "approved"
    /\ granted' = granted \cup {n}
    /\ live' = live \cup {n}

\* ... or not at all; or the user ticked no box for the Drive.
NotExchanged(n) ==
    /\ exchange[n] # 0
    /\ UNCHANGED <<granted, live>>

Exchange(n) ==
    /\ Exchanged(n) \/ NotExchanged(n)
    /\ exchange' = [exchange EXCEPT ![n] = 0]
    /\ flow' = [flow EXCEPT ![n].state = "spent"]
    /\ Free
    /\ UNCHANGED <<config, pending, listening, posting, refresh>>

\* "Signing in IS choosing this provider."
SaveSignIn(n) ==
    /\ n \in granted
    /\ granted' = granted \ {n}
    /\ config' = [config EXCEPT !.provider = flow[n].provider, !.session = n, !.fresh = TRUE]
    /\ Free
    /\ UNCHANGED <<flow, pending, listening, posting, exchange, live, refresh>>

-----------------------------------------------------------------------------
(* The row                                                                 *)

Disconnect ==
    /\ Op
    /\ config.session # 0
    /\ config' = [config EXCEPT !.session = 0, !.fresh = FALSE]
    /\ UNCHANGED <<refresh, signing>>

\* applyCloudPatch, of the settings page and of `cloud setup`: the tokens stay.
PatchCloud(p, on) ==
    /\ Op
    /\ config' = [config EXCEPT !.provider = p, !.enabled = on]
    /\ config' # config
    /\ UNCHANGED <<refresh, signing>>

\* The access token's hour is over.
Expire ==
    /\ config.fresh
    /\ config' = [config EXCEPT !.fresh = FALSE]
    /\ Free
    /\ UNCHANGED <<refresh, signing>>

\* The user takes the grant back at the provider, or changes the password.  (External.)
Revoke(n) ==
    /\ Fault
    /\ n \in live
    /\ live' = live \ {n}
    /\ UNCHANGED <<config, flow, pending, listening, posting, exchange, granted, refresh>>

-----------------------------------------------------------------------------
(* A token for a call                                                      *)

\* getOrRefreshAccessToken: what is stored and unexpired, or a refresh.
HasToken == config.session # 0 /\ config.fresh
StaleToken == config.session # 0 /\ ~config.fresh

BeginRefresh(c) ==
    /\ StaleToken
    /\ refresh' = [refresh EXCEPT ![c] = config]
    /\ UNCHANGED config

Refreshing(c) == refresh[c] # NoRow

\* The row as it was before the call is written with the new token,
Refreshed(c) ==
    /\ refresh[c].session \in live
    /\ config' = [refresh[c] EXCEPT !.fresh = TRUE]
    /\ refresh' = [refresh EXCEPT ![c] = NoRow]

\* or without any when the provider says invalid_grant.  (Mutant: it is one error
\* like the others.)
MutantForget(row) == row
Forget(row) == [row EXCEPT !.session = 0]

Expired(c) ==
    /\ Refreshing(c)
    /\ refresh[c].session \notin live
    /\ config' = Forget(refresh[c])
    /\ refresh' = [refresh EXCEPT ![c] = NoRow]

\* Any other failure leaves the row alone.
RefreshFails(c) ==
    /\ Refreshing(c)
    /\ refresh' = [refresh EXCEPT ![c] = NoRow]
    /\ UNCHANGED config

-----------------------------------------------------------------------------

SigningIn ==
    \/ \E n \in Flows, p \in SignIn :
          AuthStart(n, p) \/ \E code \in Flows : CliConnect(n, p, code)
    \/ \E n \in Flows : Approve(n) \/ Redirect(n) \/ Denied(n) \/ PasteCode(n)
    \/ PostCode \/ ListenerCloses
    \/ \E n \in Flows : Exchange(n) \/ SaveSignIn(n)

ChangingRow ==
    \/ Disconnect \/ Expire
    \/ \E p \in Providers, on \in BOOLEAN : PatchCloud(p, on)
    \/ \E n \in Flows : Revoke(n)

=============================================================================
