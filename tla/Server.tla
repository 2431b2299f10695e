-------------------------------- MODULE Server --------------------------------
(****************************************************************************)
(* Serve, track, untrack and drain of internal/proxy/server.go: the accept  *)
(* loop, one goroutine per connection, and the goroutine that shuts the     *)
(* server down.  They share the set of tracked connections (under a mutex)  *)
(* and a WaitGroup.                                                         *)
(*                                                                          *)
(* A handler is reduced to what it waits for:                               *)
(*   read      the client's next request, under a deadline                  *)
(*   work      lookups, dials and inspected requests, all of them bounded   *)
(*             by a timeout or by the server's context                      *)
(*   splice    tunnel.go's splice, which ends when the client's connection  *)
(*             is closed (Splice, ClosedSideEnds)                           *)
(*   await     the corporate proxy taking and answering a plain request: no *)
(*             deadline, and the client's connection is not looked at       *)
(*   switching spliceUpgrade's resp.Write, which copies the upgraded stream *)
(*             to its end: the origin's, and nobody looks at the client     *)
(*   halfUp    its copy to the origin, waiting for the client; toOrigin:    *)
(*             for the origin to take what the client sent                  *)
(*   untrack, done   the deferred calls                                     *)
(****************************************************************************)
EXTENDS Naturals, FiniteSets

CONSTANTS
    Conns,     \* connections, reused one after the other
    NoConn     \* none of them

ASSUME ConnsAssumption == IsFiniteSet(Conns) /\ NoConn \notin Conns

\* Those who call wg.Wait: Serve's deferred call and drain's goroutine.
Waiters == {"serve", "drain"}

VARIABLES
    grace,      \* whether a shutdown grace is configured
    ctxDone,    \* the server's context is done
    listening,  \* the listener is open
    loop,       \* the accept loop: "accept", "track", "add", "wait" or "returned"
    hand,       \* the connection the loop has accepted and not yet counted
    phase,      \* per connection: what its handler waits for
    open,       \* per connection: the relay's end is open
    tracked,    \* s.conns
    count,      \* the WaitGroup's counter
    wait,       \* per waiter: "out", "call", "blocked", "woken" or "through"
    drainer,    \* the shutdown goroutine: "ctx", "grace", "close" or "returned"
    late,       \* the connection the loop had in hand when the listener closed
    crashed     \* the WaitGroup panicked

vars == <<grace, ctxDone, listening, loop, hand, phase, open, tracked, count, wait,
          drainer, late, crashed>>
serverVars == <<grace, ctxDone, listening, drainer, late>>

Init ==
    /\ grace \in BOOLEAN
    /\ ctxDone = FALSE /\ listening = TRUE
    /\ loop = "accept" /\ hand = NoConn
    /\ phase = [c \in Conns |-> "none"]
    /\ open = [c \in Conns |-> FALSE]
    /\ tracked = {} /\ count = 0
    /\ wait = [w \in Waiters |-> "out"]
    /\ drainer = "ctx" /\ late = NoConn
    /\ crashed = FALSE

-----------------------------------------------------------------------------
(* Serve. *)

\* Accept returns a connection: clients connect while the listener is open.
Accept(c) ==
    /\ loop = "accept" /\ listening
    /\ phase[c] = "none" /\ ~open[c]
    /\ loop' = "track"
    /\ hand' = c
    /\ open' = [open EXCEPT ![c] = TRUE]
    /\ UNCHANGED <<serverVars, phase, tracked, count, wait, crashed>>

\* Mutant of AcceptFails: Serve returns without the deferred wait.
AcceptFailsAtOnce ==
    /\ loop = "accept"
    /\ loop' = "wait"
    /\ wait' = [wait EXCEPT !["serve"] = "through"]
    /\ UNCHANGED <<serverVars, hand, phase, open, tracked, count, crashed>>

\* Accept fails: the listener is closed, or out of descriptors, say.  Serve
\* returns either way, through its deferred wg.Wait.
AcceptFails ==
    /\ loop = "accept"
    /\ loop' = "wait"
    /\ wait' = [wait EXCEPT !["serve"] = "call"]
    /\ UNCHANGED <<serverVars, hand, phase, open, tracked, count, crashed>>

track ==
    /\ loop = "track"
    /\ tracked' = tracked \cup {hand}
    /\ loop' = "add"
    /\ UNCHANGED <<serverVars, hand, phase, open, count, wait, crashed>>

\* wg.Add and the go statement.
AddAndGo ==
    /\ loop = "add"
    /\ count' = count + 1
    /\ phase' = [phase EXCEPT ![hand] = "read"]
    /\ loop' = "accept"
    /\ hand' = NoConn
    /\ UNCHANGED <<serverVars, open, tracked, wait, crashed>>

Returned ==
    /\ loop = "wait" /\ wait["serve"] = "through"
    /\ loop' = "returned"
    /\ UNCHANGED <<serverVars, hand, phase, open, tracked, count, wait, crashed>>

-----------------------------------------------------------------------------
(* wg.Wait. *)

\* Wait goes through when the counter is zero and blocks otherwise.
Wait(w) ==
    /\ wait[w] = "call"
    /\ wait' = [wait EXCEPT ![w] = IF count = 0 THEN "through" ELSE "blocked"]
    /\ UNCHANGED <<serverVars, loop, hand, phase, open, tracked, count, crashed>>

\* A waiter that the last Done has woken runs again.  The WaitGroup panics when
\* it has been counted up in the meantime.
Wake(w) ==
    /\ wait[w] = "woken"
    /\ wait' = [wait EXCEPT ![w] = "through"]
    /\ crashed' = (count # 0)
    /\ UNCHANGED <<serverVars, loop, hand, phase, open, tracked, count>>

-----------------------------------------------------------------------------
(* A connection's handler. *)

To(c, p) ==
    /\ phase' = [phase EXCEPT ![c] = p]
    /\ UNCHANGED <<serverVars, loop, hand, open, tracked, count, wait, crashed>>

\* A request arrives and is dispatched: a plain one that is allowed goes
\* straight to the corporate proxy once it is dialed.
Request(c) ==
    /\ phase[c] = "read" /\ open[c]
    /\ To(c, "work")

\* No request: not ready, the deadline, or the connection is gone.
NoRequest(c) ==
    /\ phase[c] = "read"
    /\ To(c, "untrack")

\* Denied with the connection kept, failed, or under way to a tunnel, a plain
\* request's answer or an upgrade.
Worked(c) ==
    /\ phase[c] = "work"
    /\ \E p \in {"read", "untrack", "splice", "await", "switching"} : To(c, p)

\* The tunnel's peers stop talking, or the client's connection has been closed.
SpliceEnds(c) ==
    /\ phase[c] = "splice"
    /\ To(c, "untrack")

\* The corporate proxy answers a plain request to the end, with a 101 or not, or
\* hangs up.
Answered(c) ==
    /\ phase[c] = "await"
    /\ \E p \in {"read", "untrack", "splice"} : To(c, p)

\* The origin ends the upgraded stream, or sends to a client that is gone.
Switched(c) ==
    /\ phase[c] = "switching"
    /\ \E p \in {"halfUp", "untrack"} : To(c, p)

\* The copy towards the origin reads from the client, or ends with it ...
Upload(c) ==
    /\ phase[c] = "halfUp" /\ open[c]
    /\ To(c, "toOrigin")

UpEnds(c) ==
    /\ phase[c] = "halfUp"
    /\ To(c, "untrack")

\* ... and the origin takes it, or is gone.
Uploaded(c) ==
    /\ phase[c] = "toOrigin"
    /\ \E p \in {"halfUp", "untrack"} : To(c, p)

\* The deferred Close and untrack.
untrack(c) ==
    /\ phase[c] = "untrack"
    /\ phase' = [phase EXCEPT ![c] = "done"]
    /\ open' = [open EXCEPT ![c] = FALSE]
    /\ tracked' = tracked \ {c}
    /\ UNCHANGED <<serverVars, loop, hand, count, wait, crashed>>

\* wg.Done; the last one wakes whoever is blocked.
Done(c) ==
    /\ phase[c] = "done"
    /\ phase' = [phase EXCEPT ![c] = "none"]
    /\ count' = count - 1
    /\ wait' = [w \in Waiters |-> IF wait[w] = "blocked" /\ count = 1 THEN "woken" ELSE wait[w]]
    /\ UNCHANGED <<serverVars, loop, hand, open, tracked, crashed>>

-----------------------------------------------------------------------------
(* Shutting down. *)

Cancel ==
    /\ ~ctxDone
    /\ ctxDone' = TRUE
    /\ UNCHANGED <<grace, listening, loop, hand, phase, open, tracked, count, wait,
                   drainer, late, crashed>>

\* Mutant of CloseListener: connections are accepted while the others drain.
CloseListenerLater ==
    /\ drainer = "ctx" /\ ctxDone
    /\ IF grace
       THEN drainer' = "grace" /\ wait' = [wait EXCEPT !["drain"] = "call"]
       ELSE drainer' = "close" /\ UNCHANGED wait
    /\ UNCHANGED <<grace, ctxDone, listening, loop, hand, phase, open, tracked, count,
                   late, crashed>>

\* The listener is closed; with a grace, a goroutine waits for the handlers.
CloseListener ==
    /\ drainer = "ctx" /\ ctxDone
    /\ listening' = FALSE
    /\ late' = hand
    /\ IF grace
       THEN drainer' = "grace" /\ wait' = [wait EXCEPT !["drain"] = "call"]
       ELSE drainer' = "close" /\ UNCHANGED wait
    /\ UNCHANGED <<grace, ctxDone, loop, hand, phase, open, tracked, count, crashed>>

\* done is closed first: nothing is left to close.
AllDone ==
    /\ drainer = "grace" /\ wait["drain"] = "through"
    /\ drainer' = "returned"
    /\ UNCHANGED <<grace, ctxDone, listening, loop, hand, phase, open, tracked, count, wait,
                   late, crashed>>

\* Mutant of GraceExpires: drain waits for the handlers, however long they take.
GraceExpiresNever ==
    /\ drainer = "grace" /\ count = 0
    /\ drainer' = "close"
    /\ UNCHANGED <<grace, ctxDone, listening, loop, hand, phase, open, tracked, count, wait,
                   late, crashed>>

GraceExpires ==
    /\ drainer = "grace"
    /\ drainer' = "close"
    /\ UNCHANGED <<grace, ctxDone, listening, loop, hand, phase, open, tracked, count, wait,
                   late, crashed>>

\* Mutant of CloseTracked: only connections that are between requests are closed.
CloseTrackedIdle ==
    /\ drainer = "close"
    /\ open' = [c \in Conns |-> open[c] /\ ~(c \in tracked /\ phase[c] = "read")]
    /\ drainer' = "returned"
    /\ UNCHANGED <<grace, ctxDone, listening, loop, hand, phase, tracked, count, wait,
                   late, crashed>>

\* Every tracked connection is closed under the mutex.
CloseTracked ==
    /\ drainer = "close"
    /\ open' = [c \in Conns |-> open[c] /\ c \notin tracked]
    /\ drainer' = "returned"
    /\ UNCHANGED <<grace, ctxDone, listening, loop, hand, phase, tracked, count, wait,
                   late, crashed>>

-----------------------------------------------------------------------------
\* What a handler does whatever its peers do.
Bounded(c) ==
    \/ NoRequest(c) \/ Worked(c) \/ untrack(c) \/ Done(c)
    \/ ~open[c] /\ (SpliceEnds(c) \/ UpEnds(c))

\* What only a peer brings about.
Peers(c) ==
    \/ Request(c) \/ Answered(c) \/ SpliceEnds(c)
    \/ Switched(c) \/ Upload(c) \/ Uploaded(c) \/ UpEnds(c)

ServeLoop == track \/ AddAndGo \/ (AcceptFails /\ ~listening) \/ Returned
Drain == CloseListener \/ AllDone \/ GraceExpires \/ CloseTracked

Next ==
    /\ ~crashed
    /\ \/ \E c \in Conns : Accept(c) \/ Bounded(c) \/ Peers(c)
       \/ ServeLoop \/ AcceptFails
       \/ \E w \in Waiters : Wait(w) \/ Wake(w)
       \/ Cancel \/ Drain

\* Goroutines run, timers fire, and reads and writes of a closed connection
\* return.  Neither clients nor upstreams owe anything.
Fairness ==
    /\ \A c \in Conns : WF_vars(~crashed /\ Bounded(c))
    /\ WF_vars(~crashed /\ ServeLoop)
    /\ WF_vars(~crashed /\ Drain)
    /\ \A w \in Waiters : WF_vars(~crashed /\ (Wait(w) \/ Wake(w)))

Spec == Init /\ [][Next]_vars /\ Fairness

-----------------------------------------------------------------------------
(* Properties. *)

Handled == {c \in Conns : phase[c] \notin {"none", "done"}}

\* Serve's deferred wait: the WaitGroup counts exactly the handlers that have been
\* started and are not done, and a server that returned has none left, so nothing
\* is relayed, recorded or held open after it.
ReturnsEmpty ==
    /\ count = Cardinality({c \in Conns : phase[c] # "none"})
    /\ loop = "returned" => Handled = {}

\* server.go: drain gives connections a chance to finish, "then closes them".
\* When drain has returned, at most one connection is still open: the one that
\* the accept loop had in hand when the listener was closed.
DrainClosesAll == drainer = "returned" => {c \in Conns : open[c]} \subseteq {late}

\* Only such a connection can bring the WaitGroup down, by being counted between
\* the last Done and the moment its waiter runs.
CrashesOnlyOnLate == crashed => late # NoConn

\* No plain request and no upgraded connection waits for its upstream for ever.
UpstreamsAnswer == \A c \in Conns : []<>(phase[c] \notin {"await", "switching", "toOrigin"})

Ended == loop = "returned" \/ crashed

\* docs/operations.md: on SIGTERM "the wait is bounded - a relay that waited for
\* them unconditionally would never terminate".  With a grace configured, and no
\* connection in the loop's hand when the listener closed, the server ends.
ShutdownBounded == (grace /\ ctxDone) ~> (Ended \/ late # NoConn)

\* What the code does keep of it: the server ends after its context, however
\* long clients talk, provided that upstreams answer plain requests and end
\* upgraded connections, and that no connection was in hand at the close.
ShutdownEnds == UpstreamsAnswer => (ctxDone ~> Ended \/ late # NoConn)
=============================================================================
