-------------------------------- MODULE Splice --------------------------------
(****************************************************************************)
(* splice of internal/proxy/tunnel.go: two goroutines copy bytes between    *)
(* the client and the server, a third closes the tunnel when it has been    *)
(* idle, and the caller waits for the two.                                  *)
(*                                                                          *)
(* Bytes are told apart only by whether there are any to read; how many     *)
(* were copied is left out.  A tunnel lives as long as its peers like.      *)
(* Time passes in ticks, and no goroutine is promised to run within one.    *)
(****************************************************************************)
EXTENDS Naturals

CONSTANT Idle    \* the idle timeout, in ticks; New never leaves it 0

ASSUME IdleAssumption == Idle \in Nat \ {0}

Ends == {"client", "server"}
Directions == {"up", "down"}
Source(d) == IF d = "up" THEN "client" ELSE "server"
Sink(d) == IF d = "up" THEN "server" ELSE "client"

VARIABLES
    peer,       \* what is left of the other side: "open", "half" (sends no more) or "gone"
    inbox,      \* whether a peer has sent bytes that no Read has returned
    ends,       \* whether the relay's own end of a connection is open
    copy,       \* per direction: the goroutine's control point
    activity,   \* tokens in the activity channel
    monitor,    \* the idle goroutine: "select" or "exit"
    timer,      \* ticks before the timer fires; 0: it has
    closed,     \* closeBoth has run
    main,       \* splice itself: "wait" or "returned"
    quiet       \* ticks since the last touch, up to Idle

spliceVars == <<peer, inbox, ends, copy, activity, monitor, timer, closed, main, quiet>>

SpliceInit ==
    /\ peer = [e \in Ends |-> "open"]
    /\ inbox = [e \in Ends |-> FALSE]
    /\ ends = [e \in Ends |-> TRUE]
    /\ copy = [d \in Directions |-> "read"]
    /\ activity = 0
    /\ monitor = "select"
    /\ timer = Idle
    /\ closed = FALSE
    /\ main = "wait"
    /\ quiet = 0

-----------------------------------------------------------------------------
(* The peers and the clock. *)

Send(e) ==
    /\ peer[e] = "open"
    /\ inbox' = [inbox EXCEPT ![e] = TRUE]
    /\ UNCHANGED <<peer, ends, copy, activity, monitor, timer, closed, main, quiet>>

\* A peer stops sending, or goes away altogether.
Shut(e) ==
    /\ \/ peer[e] = "open" /\ peer' = [peer EXCEPT ![e] = "half"]
       \/ peer[e] # "gone" /\ peer' = [peer EXCEPT ![e] = "gone"]
    /\ UNCHANGED <<inbox, ends, copy, activity, monitor, timer, closed, main, quiet>>

Tick ==
    /\ timer' = IF timer = 0 THEN 0 ELSE timer - 1
    /\ quiet' = IF quiet = Idle THEN Idle ELSE quiet + 1
    /\ UNCHANGED <<peer, inbox, ends, copy, activity, monitor, closed, main>>

\* Server.drain closes the client's connection under the tunnel.
Drained ==
    /\ ends["client"]
    /\ ends' = [ends EXCEPT !["client"] = FALSE]
    /\ UNCHANGED <<peer, inbox, copy, activity, monitor, timer, closed, main, quiet>>

-----------------------------------------------------------------------------
(* closeBoth: the first caller closes, the others find it done. *)

closeBoth ==
    /\ closed' = TRUE
    /\ ends' = [e \in Ends |-> FALSE]

-----------------------------------------------------------------------------
(* copyWithActivity. *)

Step(d, from, to) ==
    /\ copy[d] = from
    /\ copy' = [copy EXCEPT ![d] = to]

\* Read returns what is there; a peer that is still open may send more.
Read(d) ==
    /\ ends[Source(d)] /\ inbox[Source(d)]
    /\ Step(d, "read", "touch")
    /\ inbox' = [inbox EXCEPT ![Source(d)] = FALSE]
    /\ UNCHANGED <<peer, ends, activity, monitor, timer, closed, main, quiet>>

\* Read returns io.EOF or an error.
ReadEnds(d) ==
    /\ \/ ~ends[Source(d)]
       \/ peer[Source(d)] # "open" /\ ~inbox[Source(d)]
    /\ Step(d, "read", "ended")
    /\ UNCHANGED <<peer, inbox, ends, activity, monitor, timer, closed, main, quiet>>

\* Mutant of touch: the channel has no buffer, so that a busy monitor misses it.
touchUnbuffered(d) ==
    /\ Step(d, "touch", "write")
    /\ \/ monitor = "select" /\ timer' = Idle
       \/ UNCHANGED timer
    /\ quiet' = 0
    /\ UNCHANGED <<peer, inbox, ends, activity, monitor, closed, main>>

\* A token is left for the monitor unless two are waiting for it already.
touch(d) ==
    /\ Step(d, "touch", "write")
    /\ activity' = IF activity < 2 THEN activity + 1 ELSE activity
    /\ quiet' = 0
    /\ UNCHANGED <<peer, inbox, ends, monitor, timer, closed, main>>

\* The sink takes all of the buffer; it may also let the goroutine wait.
Write(d) ==
    /\ ends[Sink(d)] /\ peer[Sink(d)] # "gone"
    /\ Step(d, "write", "read")
    /\ UNCHANGED <<peer, inbox, ends, activity, monitor, timer, closed, main, quiet>>

\* The connection is closed or reset; part of the buffer may have been written.
WriteFails(d) ==
    /\ ~ends[Sink(d)] \/ peer[Sink(d)] = "gone"
    /\ Step(d, "write", "ended")
    /\ UNCHANGED <<peer, inbox, ends, activity, monitor, timer, closed, main, quiet>>

\* Mutant of Finish: the connections are left for splice to close at its end.
FinishSignals(d) ==
    /\ Step(d, "ended", "done")
    /\ closed' = TRUE
    /\ UNCHANGED <<peer, inbox, ends, activity, monitor, timer, main, quiet>>

\* The goroutine that ends first closes both connections.
Finish(d) ==
    /\ Step(d, "ended", "done")
    /\ closeBoth
    /\ UNCHANGED <<peer, inbox, activity, monitor, timer, main, quiet>>

-----------------------------------------------------------------------------
(* The idle goroutine: one select, whose ready cases are chosen at random. *)

MonitorDone ==
    /\ monitor = "select" /\ closed
    /\ monitor' = "exit"
    /\ UNCHANGED <<peer, inbox, ends, copy, activity, timer, closed, main, quiet>>

\* Stop, drain and Reset: a timer that fired meanwhile is forgotten.
MonitorTouched ==
    /\ monitor = "select" /\ activity > 0
    /\ activity' = activity - 1
    /\ timer' = Idle
    /\ UNCHANGED <<peer, inbox, ends, copy, monitor, closed, main, quiet>>

\* Mutant of MonitorExpired: the monitor leaves the closing to the copies.
MonitorExpiredLeaves ==
    /\ monitor = "select" /\ timer = 0
    /\ monitor' = "exit"
    /\ UNCHANGED <<peer, inbox, ends, copy, activity, timer, closed, main, quiet>>

MonitorExpired ==
    /\ monitor = "select" /\ timer = 0
    /\ closeBoth
    /\ monitor' = "exit"
    /\ UNCHANGED <<peer, inbox, copy, activity, timer, main, quiet>>

Monitor == MonitorDone \/ MonitorTouched \/ MonitorExpired

\* wg.Wait, the last closeBoth and the return.
Return ==
    /\ main = "wait"
    /\ \A d \in Directions : copy[d] = "done"
    /\ closeBoth
    /\ main' = "returned"
    /\ UNCHANGED <<peer, inbox, copy, activity, monitor, timer, quiet>>

-----------------------------------------------------------------------------
Copy(d) == Read(d) \/ ReadEnds(d) \/ touch(d) \/ WriteFails(d) \/ Finish(d)

SpliceNext ==
    \/ \E e \in Ends : Send(e) \/ Shut(e)
    \/ Tick \/ Drained
    \/ \E d \in Directions : Copy(d) \/ Write(d)
    \/ Monitor
    \/ Return

\* Goroutines run, system calls on a connection that is closed or reset return,
\* and time passes.  Nothing makes a peer send, close or take what is written.
SpliceFairness ==
    /\ \A d \in Directions : WF_spliceVars(Copy(d))
    /\ WF_spliceVars(Monitor)
    /\ WF_spliceVars(Return)
    /\ WF_spliceVars(Tick)

SpliceSpec == SpliceInit /\ [][SpliceNext]_spliceVars /\ SpliceFairness

-----------------------------------------------------------------------------
(* Properties. *)

\* tunnel.go: the tunnel is copied "until either side closes or both go idle".
\* The monitor closes a tunnel only after Idle ticks without a touch, except
\* that a touch it has not received yet may lose against an expired timer.
ReapsOnlyTheIdle ==
    [][(~closed /\ closed' /\ monitor' # monitor) => quiet = Idle \/ activity > 0]_spliceVars

Released == main = "returned" /\ monitor = "exit" /\ \A e \in Ends : ~ends[e]

\* tunnel.go: silent tunnels are reaped.  When no byte arrives any more, splice
\* returns with both connections closed and no goroutine left, even if a copy
\* is stuck in a Write that its peer never takes.
SilentTunnelEnds == (<>[](\A e \in Ends : ~inbox[e])) => <>Released

\* "until either side closes": a peer that goes away, or a shutdown that closes
\* the client's connection under it, takes the tunnel with it, even while the
\* other side goes on sending.
ClosedSideEnds ==
    /\ (\E e \in Ends : peer[e] = "gone") ~> Released
    /\ ~ends["client"] ~> Released
=============================================================================
