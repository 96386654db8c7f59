----------------------------- MODULE Conductor -----------------------------
(* The link to the conductor: connection_loop, serve, handle_message,      *)
(* close_gracefully and Conductor::shutdown, against a server that sends   *)
(* requests and a network that may refuse, close or silently lose the      *)
(* connection.                                                             *)
(*                                                                         *)
(* Time passes in units of ten seconds, and a timer that is due may fire   *)
(* late.  What a request does is the engine's call of the same name, in    *)
(* the modules of those calls; here a handler answers, or fails to parse   *)
(* or to write, which is only logged.                                      *)
EXTENDS Integers, FiniteSets

CONSTANTS
    Request,      \* requests the server may send
    PingInterval, \* 20 s
    PingTimeout,  \* 30 s
    MaxWaits,     \* doublings of the wait between attempts, until its maximum
    MaxDrops,     \* bound on connections lost
    NoRequest

VARIABLES
    cpc,          \* connection_loop and serve: connect, dial, backoff, serve,
                  \* handle, close, stopped
    link,         \* none, up, silent (no frame passes), closed (by the peer)
    sincePing,    \* since the last tick of the ping interval
    sinceRead,    \* since this turn's read began to wait
    quiet,        \* since the last frame arrived, up to PingTimeout + 1
    wait,         \* doublings of the back-off so far
    token,        \* the shutdown was asked for
    aborted,      \* and its grace period lapsed
    wire,         \* requests sent on this connection and not read
    current,      \* the request being handled
    begun,        \* requests whose handling began
    answers,      \* [Request -> responses written]
    failed,       \* requests whose handling ended without a response
    drops
condVars == <<cpc, link, sincePing, sinceRead, quiet, wait, token, aborted, wire, current, begun,
              answers, failed, drops>>
reqVars == <<current, begun, answers, failed>>

ConductorInit ==
    /\ cpc = "connect" /\ link = "none" /\ sincePing = 0 /\ sinceRead = 0 /\ quiet = 0 /\ wait = 0
    /\ token = FALSE /\ aborted = FALSE /\ wire = {} /\ current = NoRequest /\ begun = {}
    /\ answers = [r \in Request |-> 0] /\ failed = {} /\ drops = 0

(* ------------------------------------------------------ connection_loop *)

(* The token is looked at before an attempt, not during it.                *)
Dial ==
    /\ cpc = "connect" /\ cpc' = IF token THEN "stopped" ELSE "dial"
    /\ UNCHANGED <<link, sincePing, sinceRead, quiet, wait, token, aborted, wire, reqVars, drops>>
ConnectOk ==
    /\ cpc = "dial"
    /\ cpc' = "serve" /\ link' = "up" /\ wait' = 0
    /\ sincePing' = 0 /\ sinceRead' = 0 /\ quiet' = 0 /\ wire' = {}
    /\ UNCHANGED <<token, aborted, reqVars, drops>>
ConnectFails ==
    /\ cpc = "dial" /\ drops < MaxDrops
    /\ cpc' = "backoff" /\ drops' = drops + 1
    /\ UNCHANGED <<link, sincePing, sinceRead, quiet, wait, token, aborted, wire, reqVars>>
(* The sleep is over, and the next one is longer; or it is interrupted.    *)
BackoffOver ==
    /\ cpc = "backoff"
    /\ cpc' = IF token THEN "stopped" ELSE "connect"
    /\ wait' = IF token \/ wait = MaxWaits THEN wait ELSE wait + 1
    /\ UNCHANGED <<link, sincePing, sinceRead, quiet, token, aborted, wire, reqVars, drops>>

(* ---------------------------------------------------------------- serve *)

(* serve returns false: the loop connects again at once.                   *)
Drop == cpc' = "connect" /\ link' = "none"
(* Every turn of the select waits with a new read deadline.                *)
NextTurn == sinceRead' = 0
PingTick ==
    /\ cpc = "serve" /\ sincePing >= PingInterval
    /\ sincePing' = 0
    /\ IF link = "closed" THEN Drop /\ UNCHANGED sinceRead
       ELSE NextTurn /\ UNCHANGED <<cpc, link>>
    /\ UNCHANGED <<quiet, wait, token, aborted, wire, reqVars, drops>>
ReadDeadline ==
    /\ cpc = "serve" /\ sinceRead >= PingTimeout
    /\ Drop
    /\ UNCHANGED <<sincePing, sinceRead, quiet, wait, token, aborted, wire, reqVars, drops>>
ReadEnd ==
    /\ cpc = "serve" /\ link = "closed"
    /\ Drop
    /\ UNCHANGED <<sincePing, sinceRead, quiet, wait, token, aborted, wire, reqVars, drops>>
(* A pong or the server's ping: activity, no more.                         *)
ReadControl ==
    /\ cpc = "serve" /\ link = "up" /\ sinceRead > 0
    /\ NextTurn /\ quiet' = 0
    /\ UNCHANGED <<cpc, link, sincePing, wait, token, aborted, wire, reqVars, drops>>
(* A request is handled in the body of its branch, which runs to its end.  *)
ReadRequest(r) ==
    /\ cpc = "serve" /\ link = "up" /\ r \in wire
    /\ cpc' = "handle" /\ current' = r /\ wire' = wire \ {r} /\ begun' = begun \cup {r}
    /\ UNCHANGED <<link, sincePing, sinceRead, quiet, wait, token, aborted, answers, failed, drops>>
HandleMessage ==
    /\ cpc = "handle"
    /\ \/ /\ link # "closed"
          /\ answers' = [answers EXCEPT ![current] = @ + 1] /\ UNCHANGED failed
       \/ failed' = failed \cup {current} /\ UNCHANGED answers
    /\ cpc' = "serve" /\ current' = NoRequest /\ NextTurn /\ quiet' = 0
    /\ UNCHANGED <<link, sincePing, wait, token, aborted, wire, begun, drops>>
(* Faulty form, for the mutants: cancellation is seen inside the handler.  *)
TokenSeenAnywhere ==
    /\ cpc \in {"serve", "handle"} /\ token /\ cpc' = "close"
    /\ UNCHANGED <<link, sincePing, sinceRead, quiet, wait, token, aborted, wire, reqVars, drops>>
TokenSeen ==
    /\ cpc = "serve" /\ token /\ cpc' = "close"
    /\ UNCHANGED <<link, sincePing, sinceRead, quiet, wait, token, aborted, wire, reqVars, drops>>
(* The Close frame, and the peer's echo or the drain's timeout.            *)
CloseGracefully ==
    /\ cpc = "close" /\ cpc' = "stopped" /\ link' = "none"
    /\ UNCHANGED <<sincePing, sinceRead, quiet, wait, token, aborted, wire, reqVars, drops>>

(* ---------------------------------------------------------- environment *)

Shutdown ==
    /\ ~token /\ token' = TRUE
    /\ UNCHANGED <<cpc, link, sincePing, sinceRead, quiet, wait, aborted, wire, reqVars, drops>>
(* The grace period lapses: the task is aborted.                           *)
AbortTask ==
    /\ token /\ cpc # "stopped"
    /\ cpc' = "stopped" /\ link' = "none" /\ aborted' = TRUE
    /\ UNCHANGED <<sincePing, sinceRead, quiet, wait, token, wire, reqVars, drops>>
(* The server sends each request once per connection until it is answered. *)
ServerSends(r) ==
    /\ link = "up" /\ r \notin wire /\ r \notin begun
    /\ wire' = wire \cup {r}
    /\ UNCHANGED <<cpc, link, sincePing, sinceRead, quiet, wait, token, aborted, reqVars, drops>>
(* The connection is closed, or goes silent, and perhaps TCP gives it up.  *)
LoseLink(how) ==
    /\ link = "up" \/ (link = "silent" /\ how = "closed")
    /\ drops < MaxDrops
    /\ link' = how /\ drops' = drops + 1
    /\ UNCHANGED <<cpc, sincePing, sinceRead, quiet, wait, token, aborted, wire, reqVars>>
TenSeconds ==
    /\ cpc = "serve" /\ sinceRead < PingTimeout /\ sincePing < PingTimeout
    /\ sincePing' = sincePing + 1 /\ sinceRead' = sinceRead + 1
    /\ quiet' = IF quiet > PingTimeout THEN quiet ELSE quiet + 1
    /\ UNCHANGED <<cpc, link, wait, token, aborted, wire, reqVars, drops>>

LinkStep ==
    \/ Dial \/ ConnectOk \/ ConnectFails \/ BackoffOver
    \/ PingTick \/ ReadDeadline \/ ReadEnd \/ ReadControl \/ TokenSeen \/ CloseGracefully
    \/ HandleMessage \/ \E r \in Request : ReadRequest(r)
ConductorNext ==
    \/ LinkStep \/ Shutdown \/ AbortTask \/ TenSeconds
    \/ \E r \in Request : ServerSends(r)
    \/ \E how \in {"silent", "closed"} : LoseLink(how)

ConductorSpec == ConductorInit /\ [][ConductorNext]_condVars

(* A request is never torn: once its handling has begun it is answered or  *)
(* fails before the loop stops, unless the shutdown's grace period lapsed. *)
NeverTorn ==
    cpc = "stopped" /\ ~aborted => \A r \in begun : answers[r] = 1 \/ r \in failed

(* A link on which no frame arrives for PING_TIMEOUT is given up: "a lapse *)
(* means the link is dead".                                                *)
DeadLinkLeft == cpc = "serve" /\ link = "silent" => quiet <= PingTimeout
=============================================================================
