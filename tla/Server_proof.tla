----------------------------- MODULE Server_proof -----------------------------
(****************************************************************************)
(* The safety of the accept loop and of the shutdown, for any number of     *)
(* connections.  The invariant says who may be through wg.Wait when, and    *)
(* where an open connection can be: with a handler, or in the loop's hand.  *)
(* At the end, the tunnels that handlers wait for: whom the idle goroutine  *)
(* of splice may close.                                                     *)
(****************************************************************************)
EXTENDS Server, Splice, FiniteSetTheorems, TLAPS

Phases == {"none", "read", "work", "splice", "await", "switching", "halfUp", "toOrigin",
           "untrack", "done"}

TypeOK ==
    /\ grace \in BOOLEAN /\ ctxDone \in BOOLEAN /\ listening \in BOOLEAN /\ crashed \in BOOLEAN
    /\ loop \in {"accept", "track", "add", "wait", "returned"}
    /\ hand \in Conns \cup {NoConn} /\ late \in Conns \cup {NoConn}
    /\ phase \in [Conns -> Phases]
    /\ open \in [Conns -> BOOLEAN]
    /\ tracked \in SUBSET Conns
    /\ count \in Nat
    /\ wait \in [Waiters -> {"out", "call", "blocked", "woken", "through"}]
    /\ drainer \in {"ctx", "grace", "close", "returned"}

Live == {c \in Conns : phase[c] # "none"}

Counted == count = Cardinality(Live)

\* The loop holds a connection between Accept and the go statement; it has no
\* handler yet.
Held ==
    /\ loop \in {"track", "add"} <=> hand # NoConn
    /\ hand # NoConn => phase[hand] = "none"

\* An open connection is with its handler and tracked, or in hand.
OpenHeld ==
    \A c \in Conns : open[c] =>
        /\ c = hand \/ phase[c] \notin {"none", "done"}
        /\ c \in tracked \/ (c = hand /\ loop = "track")

\* Serve waits only after its loop, so nobody counts up under its wait.
ServeWaits ==
    /\ wait["serve"] # "out" => loop \in {"wait", "returned"}
    /\ wait["serve"] \in {"woken", "through"} => Live = {}
    /\ loop = "returned" => wait["serve"] = "through"

\* drain's goroutine waits after the listener's end; when it has gone through,
\* only the connection in hand at that moment can still get a handler.
DrainWaits ==
    /\ drainer = "ctx" <=> listening
    /\ listening => wait["drain"] = "out" /\ late = NoConn
    /\ ~listening => hand \in {late, NoConn}
    /\ wait["drain"] \in {"woken", "through"} => Live \subseteq {late}

IInv ==
    /\ TypeOK /\ Counted /\ Held /\ OpenHeld /\ ServeWaits /\ DrainWaits
    /\ DrainClosesAll /\ CrashesOnlyOnLate
-----------------------------------------------------------------------------
\* There are finitely many connections, so those with a handler can be counted.
LEMMA LiveFinite ==
    ASSUME TypeOK
    PROVE  /\ IsFiniteSet(Live)
           /\ Cardinality(Live) \in Nat
           /\ Cardinality(Live) = 0 <=> Live = {}
<1>1. Live \in SUBSET Conns
    BY DEF Live
<1>2. IsFiniteSet(Live)
    BY <1>1, ConnsAssumption, FS_Subset
<1> QED
    BY <1>2, FS_CardinalityType, FS_EmptySet

\* A handler that goes from one wait to another disturbs nothing.
LEMMA HandlerStep ==
    ASSUME IInv, NEW c \in Conns, NEW p \in Phases \ {"none", "done"},
           phase[c] \notin {"none", "done"}, To(c, p)
    PROVE  IInv'
<1> USE DEF IInv
<1>1. TypeOK'
    BY DEF TypeOK, To, serverVars, Phases
<1>2. Live' = Live
    BY DEF Live, To, TypeOK, Phases
<1>3. Counted' /\ ServeWaits' /\ DrainWaits'
    BY <1>2 DEF Counted, ServeWaits, DrainWaits, To, serverVars
<1>4. Held' /\ OpenHeld'
    BY DEF Held, OpenHeld, To, TypeOK, serverVars
<1>5. DrainClosesAll' /\ CrashesOnlyOnLate'
    BY DEF DrainClosesAll, CrashesOnlyOnLate, To, serverVars
<1> QED
    BY <1>1, <1>3, <1>4, <1>5

\* The handlers' waits.
LEMMA WaitsKeep ==
    ASSUME IInv, NEW c \in Conns,
           \/ Request(c) \/ NoRequest(c) \/ Worked(c) \/ SpliceEnds(c)
           \/ Answered(c) \/ Switched(c) \/ Upload(c) \/ UpEnds(c) \/ Uploaded(c)
    PROVE  IInv'
<1>1. PICK p \in Phases \ {"none", "done"} : phase[c] \notin {"none", "done"} /\ To(c, p)
    BY DEF Request, NoRequest, Worked, SpliceEnds, Answered, Switched, Upload, UpEnds, Uploaded, Phases
<1> QED
    BY <1>1, HandlerStep

-----------------------------------------------------------------------------
LEMMA Initially == Init => IInv
<1> SUFFICES ASSUME Init PROVE IInv
    OBVIOUS
<1>1. TypeOK
    BY DEF Init, TypeOK, Phases, Waiters
<1>2. Live = {}
    BY DEF Init, Live
<1>3. Counted
    BY <1>2, FS_EmptySet DEF Counted, Init
<1> QED
    BY <1>1, <1>2, <1>3, ConnsAssumption
    DEF Init, IInv, Held, OpenHeld, ServeWaits, DrainWaits, DrainClosesAll,
        CrashesOnlyOnLate, Waiters

\* Every step keeps the invariant.
LEMMA Inductive == IInv /\ [Next]_vars => IInv'
<1> SUFFICES ASSUME IInv, [Next]_vars
             PROVE  IInv'
    OBVIOUS
<1> USE DEF IInv
<1>1. ASSUME NEW c \in Conns, Accept(c)
      PROVE  IInv'
    <2>1. TypeOK'
        BY <1>1 DEF Accept, TypeOK, serverVars
    <2>2. Live' = Live
        BY <1>1 DEF Live, Accept
    <2>3. Counted' /\ ServeWaits' /\ DrainWaits'
        BY <1>1, <2>2, ConnsAssumption
        DEF Counted, ServeWaits, DrainWaits, Accept, serverVars, TypeOK
    <2>4. hand = NoConn
        BY <1>1 DEF Accept, Held
    <2>5. Held' /\ OpenHeld'
        BY <1>1, <2>4, ConnsAssumption DEF Held, OpenHeld, Accept, TypeOK
    <2>6. DrainClosesAll' /\ CrashesOnlyOnLate'
        BY <1>1 DEF DrainClosesAll, CrashesOnlyOnLate, DrainWaits, Accept, serverVars, TypeOK
    <2> QED
        BY <2>1, <2>3, <2>5, <2>6
<1>2. CASE AcceptFails
    <2>1. TypeOK'
        BY <1>2 DEF AcceptFails, TypeOK, serverVars, Waiters
    <2>2. Live' = Live
        BY <1>2 DEF Live, AcceptFails
    <2>3. Counted' /\ ServeWaits' /\ DrainWaits'
        BY <1>2, <2>2 DEF Counted, ServeWaits, DrainWaits, AcceptFails, serverVars, TypeOK, Waiters
    <2>4. Held' /\ OpenHeld'
        BY <1>2 DEF Held, OpenHeld, AcceptFails
    <2>5. DrainClosesAll' /\ CrashesOnlyOnLate'
        BY <1>2 DEF DrainClosesAll, CrashesOnlyOnLate, AcceptFails, serverVars
    <2> QED
        BY <2>1, <2>3, <2>4, <2>5
<1>3. CASE track
    <2>1. hand \in Conns
        BY <1>3 DEF track, Held, TypeOK
    <2>2. TypeOK'
        BY <1>3, <2>1 DEF track, TypeOK, serverVars
    <2>3. Live' = Live
        BY <1>3 DEF Live, track
    <2>4. Counted' /\ ServeWaits' /\ DrainWaits'
        BY <1>3, <2>3 DEF Counted, ServeWaits, DrainWaits, track, serverVars, TypeOK
    <2>5. Held' /\ OpenHeld'
        BY <1>3 DEF Held, OpenHeld, track
    <2>6. DrainClosesAll' /\ CrashesOnlyOnLate'
        BY <1>3 DEF DrainClosesAll, CrashesOnlyOnLate, track, serverVars
    <2> QED
        BY <2>2, <2>4, <2>5, <2>6
<1>4. CASE AddAndGo
    <2>1. hand \in Conns /\ phase[hand] = "none"
        BY <1>4 DEF AddAndGo, Held, TypeOK
    <2>2. TypeOK'
        BY <1>4, <2>1 DEF AddAndGo, TypeOK, serverVars, Phases
    <2>3. Live' = Live \cup {hand} /\ hand \notin Live
        BY <1>4, <2>1 DEF Live, AddAndGo, TypeOK
    <2>4. Counted'
        BY <1>4, <2>3, LiveFinite, FS_AddElement DEF Counted, AddAndGo
    <2>5. ServeWaits'
        BY <1>4 DEF ServeWaits, AddAndGo
    <2>6. DrainWaits'
        BY <1>4, <2>1, <2>3, ConnsAssumption DEF DrainWaits, AddAndGo, serverVars, TypeOK
    <2>7. Held' /\ OpenHeld'
        BY <1>4, <2>1 DEF Held, OpenHeld, AddAndGo, TypeOK
    <2>8. DrainClosesAll' /\ CrashesOnlyOnLate'
        BY <1>4 DEF DrainClosesAll, CrashesOnlyOnLate, AddAndGo, serverVars
    <2> QED
        BY <2>2, <2>4, <2>5, <2>6, <2>7, <2>8
<1>5. CASE Returned
    <2>1. Live' = Live
        BY <1>5 DEF Live, Returned
    <2> QED
        BY <1>5, <2>1
        DEF Returned, TypeOK, Counted, Held, OpenHeld, ServeWaits, DrainWaits, DrainClosesAll,
            CrashesOnlyOnLate, serverVars
<1>6. ASSUME NEW w \in Waiters, Wait(w)
      PROVE  IInv'
    <2>1. Live' = Live /\ (count = 0 <=> Live = {})
        BY <1>6, LiveFinite DEF Live, Wait, Counted
    <2>2. TypeOK'
        BY <1>6 DEF Wait, TypeOK, serverVars
    <2>3. Counted' /\ Held' /\ OpenHeld' /\ DrainClosesAll' /\ CrashesOnlyOnLate'
        BY <1>6, <2>1
        DEF Counted, Held, OpenHeld, DrainClosesAll, CrashesOnlyOnLate, Wait, serverVars
    <2>4. ServeWaits'
        BY <1>6, <2>1 DEF ServeWaits, Wait, TypeOK, Waiters
    <2>5. DrainWaits'
        BY <1>6, <2>1 DEF DrainWaits, Wait, TypeOK, Waiters, serverVars
    <2> QED
        BY <2>2, <2>3, <2>4, <2>5
<1>7. ASSUME NEW w \in Waiters, Wake(w)
      PROVE  IInv'
    <2>1. Live' = Live /\ (count = 0 <=> Live = {})
        BY <1>7, LiveFinite DEF Live, Wake, Counted
    <2>2. TypeOK'
        BY <1>7 DEF Wake, TypeOK, serverVars
    <2>3. Counted' /\ Held' /\ OpenHeld' /\ DrainClosesAll'
        BY <1>7, <2>1 DEF Counted, Held, OpenHeld, DrainClosesAll, Wake, serverVars
    <2>4. ServeWaits'
        BY <1>7, <2>1 DEF ServeWaits, Wake, TypeOK, Waiters
    <2>5. DrainWaits'
        BY <1>7, <2>1 DEF DrainWaits, Wake, TypeOK, Waiters, serverVars
    <2>6. CrashesOnlyOnLate'
        BY <1>7, <2>1, ConnsAssumption
        DEF CrashesOnlyOnLate, ServeWaits, DrainWaits, Wake, Waiters, Live, serverVars
    <2> QED
        BY <2>2, <2>3, <2>4, <2>5, <2>6
<1>8. ASSUME NEW c \in Conns, untrack(c)
      PROVE  IInv'
    <2>1. Live' = Live
        BY <1>8 DEF Live, untrack, TypeOK
    <2>2. TypeOK'
        BY <1>8 DEF untrack, TypeOK, serverVars, Phases
    <2>3. Counted' /\ ServeWaits' /\ DrainWaits' /\ CrashesOnlyOnLate'
        BY <1>8, <2>1 DEF Counted, ServeWaits, DrainWaits, CrashesOnlyOnLate, untrack, serverVars
    <2>4. Held' /\ OpenHeld' /\ DrainClosesAll'
        BY <1>8 DEF Held, OpenHeld, DrainClosesAll, untrack, TypeOK, serverVars
    <2> QED
        BY <2>2, <2>3, <2>4
<1>9. ASSUME NEW c \in Conns, Done(c)
      PROVE  IInv'
    <2>1. Live' = Live \ {c} /\ c \in Live
        BY <1>9 DEF Live, Done, TypeOK
    <2>2. Counted' /\ count \in Nat \ {0}
        BY <1>9, <2>1, LiveFinite, FS_RemoveElement DEF Counted, Done
    <2>3. TypeOK'
        BY <1>9, <2>2 DEF Done, TypeOK, serverVars, Phases
    <2>4. count = 1 => Live' = {}
        <3>1. IsFiniteSet(Live') /\ (Cardinality(Live') = 0 <=> Live' = {})
            BY <2>1, LiveFinite, FS_RemoveElement, FS_EmptySet
        <3> QED
            BY <1>9, <2>2, <3>1 DEF Counted, Done
    <2>5. ServeWaits'
        BY <1>9, <2>1, <2>4 DEF ServeWaits, Done, Waiters
    <2>6. DrainWaits'
        BY <1>9, <2>1, <2>4 DEF DrainWaits, Done, Waiters, serverVars
    <2>7. Held' /\ OpenHeld' /\ DrainClosesAll' /\ CrashesOnlyOnLate'
        BY <1>9 DEF Held, OpenHeld, DrainClosesAll, CrashesOnlyOnLate, Done, TypeOK, serverVars
    <2> QED
        BY <2>2, <2>3, <2>5, <2>6, <2>7
<1>10. CASE Cancel
    <2>1. Live' = Live
        BY <1>10 DEF Live, Cancel
    <2> QED
        BY <1>10, <2>1
        DEF Cancel, TypeOK, Counted, Held, OpenHeld, ServeWaits, DrainWaits, DrainClosesAll,
            CrashesOnlyOnLate
<1>11. CASE CloseListener
    <2>1. Live' = Live
        BY <1>11 DEF Live, CloseListener
    <2>2. TypeOK'
        BY <1>11 DEF CloseListener, TypeOK, Waiters
    <2>3. Counted' /\ Held' /\ OpenHeld' /\ DrainClosesAll'
        BY <1>11, <2>1 DEF Counted, Held, OpenHeld, DrainClosesAll, CloseListener
    <2>4. ServeWaits' /\ DrainWaits'
        BY <1>11, <2>1 DEF ServeWaits, DrainWaits, CloseListener, TypeOK, Waiters
    <2>5. CrashesOnlyOnLate'
        BY <1>11 DEF CrashesOnlyOnLate, DrainWaits, CloseListener
    <2> QED
        BY <2>2, <2>3, <2>4, <2>5
<1>12. CASE AllDone
    <2>1. Live' = Live
        BY <1>12 DEF Live, AllDone
    <2>2. TypeOK' /\ Counted' /\ Held' /\ OpenHeld' /\ ServeWaits' /\ DrainWaits'
        BY <1>12, <2>1
        DEF TypeOK, Counted, Held, OpenHeld, ServeWaits, DrainWaits, AllDone
    <2>3. \A c \in Conns : open[c] => c = late
        BY <1>12, ConnsAssumption DEF OpenHeld, DrainWaits, Live, AllDone
    <2>4. DrainClosesAll' /\ CrashesOnlyOnLate'
        BY <1>12, <2>3 DEF DrainClosesAll, CrashesOnlyOnLate, AllDone
    <2> QED
        BY <2>2, <2>4
<1>13. CASE GraceExpires
    <2>1. Live' = Live
        BY <1>13 DEF Live, GraceExpires
    <2> QED
        BY <1>13, <2>1
        DEF GraceExpires, TypeOK, Counted, Held, OpenHeld, ServeWaits, DrainWaits,
            DrainClosesAll, CrashesOnlyOnLate
<1>14. CASE CloseTracked
    <2>1. Live' = Live
        BY <1>14 DEF Live, CloseTracked
    <2>2. TypeOK' /\ Counted' /\ Held' /\ ServeWaits' /\ DrainWaits'
        BY <1>14, <2>1 DEF TypeOK, Counted, Held, ServeWaits, DrainWaits, CloseTracked
    <2>3. OpenHeld'
        BY <1>14 DEF OpenHeld, CloseTracked
    <2>4. \A c \in Conns : open'[c] => c = late
        BY <1>14, ConnsAssumption DEF OpenHeld, DrainWaits, CloseTracked
    <2>5. DrainClosesAll' /\ CrashesOnlyOnLate'
        BY <1>14, <2>4 DEF DrainClosesAll, CrashesOnlyOnLate, CloseTracked
    <2> QED
        BY <2>2, <2>3, <2>5
<1>15. CASE UNCHANGED vars
    <2>1. Live' = Live
        BY <1>15 DEF Live, vars
    <2> QED
        BY <1>15, <2>1
        DEF vars, TypeOK, Counted, Held, OpenHeld, ServeWaits, DrainWaits, DrainClosesAll,
            CrashesOnlyOnLate
<1> QED
    BY <1>1, <1>2, <1>3, <1>4, <1>5, <1>6, <1>7, <1>8, <1>9, <1>10, <1>11, <1>12, <1>13,
       <1>14, <1>15, WaitsKeep
    DEF Next, Bounded, Peers, ServeLoop, Drain

\* The invariant holds of every behaviour, with or without fairness.
LEMMA Invariant == Spec => []IInv
BY Initially, Inductive, PTL DEF Spec

-----------------------------------------------------------------------------
\* However many connections come and go, the WaitGroup counts exactly the
\* handlers, and Serve returns with none left.
THEOREM ServeReturnsEmpty == Spec => []ReturnsEmpty
<1>1. IInv => ReturnsEmpty
    BY DEF IInv, ReturnsEmpty, Counted, ServeWaits, Live, Handled
<1> QED
    BY <1>1, Invariant, PTL

\* When drain has returned, no connection is open but the one that the loop had
\* in hand when the listener was closed.
THEOREM DrainLeavesOnlyLate == Spec => []DrainClosesAll
<1>1. IInv => DrainClosesAll
    BY DEF IInv
<1> QED
    BY <1>1, Invariant, PTL

\* The WaitGroup panics only by counting that very connection.
THEOREM OnlyLateCrashes == Spec => []CrashesOnlyOnLate
<1>1. IInv => CrashesOnlyOnLate
    BY DEF IInv
<1> QED
    BY <1>1, Invariant, PTL

-----------------------------------------------------------------------------
(* What a handler in its phase "splice" waits for: a tunnel, on its own. *)

\* As long as no token waits for the monitor, what the timer has left and the
\* time since the last touch make up the timeout.
Clocks ==
    /\ timer \in 0 .. Idle /\ quiet \in 0 .. Idle /\ activity \in Nat
    /\ activity = 0 => timer + quiet >= Idle

\* Only the clock, a touch and the monitor move them.
LEMMA ClocksStep == Clocks /\ [SpliceNext]_spliceVars => Clocks'
<1> SUFFICES ASSUME Clocks, [SpliceNext]_spliceVars PROVE Clocks'
    OBVIOUS
<1> USE IdleAssumption
<1>1. CASE Tick
    BY <1>1 DEF Clocks, Tick
<1>2. ASSUME NEW d \in Directions, touch(d) PROVE Clocks'
    BY <1>2 DEF Clocks, touch
<1>3. CASE MonitorTouched
    BY <1>3 DEF Clocks, MonitorTouched
<1>4. CASE UNCHANGED <<timer, quiet, activity>>
    BY <1>4 DEF Clocks
<1> QED
    BY <1>1, <1>2, <1>3, <1>4
    DEF SpliceNext, spliceVars, Send, Shut, Drained, Copy, Read,
        ReadEnds, Write, WriteFails, Finish, Monitor,
        MonitorDone, MonitorExpired, Return

\* For any timeout, the monitor closes a tunnel only when nobody touched it for
\* the whole of it, or when a touch is waiting that lost against the timer.
THEOREM OnlyTheIdleAreReaped == SpliceSpec => ReapsOnlyTheIdle
<1>1. SpliceInit => Clocks
    BY IdleAssumption DEF SpliceInit, Clocks
<1>2. Clocks /\ [SpliceNext]_spliceVars => Clocks'
    BY ClocksStep
<1>3. Clocks /\ [SpliceNext]_spliceVars
        => [(~closed /\ closed' /\ monitor' # monitor) => quiet = Idle \/ activity > 0]_spliceVars
    <2> SUFFICES ASSUME Clocks, SpliceNext, ~closed, closed', monitor' # monitor
                 PROVE  quiet = Idle \/ activity > 0
        BY DEF spliceVars
    <2>1. timer = 0
        BY DEF SpliceNext, Send, Shut, Tick, Drained, Copy, Read,
               ReadEnds, touch, Write, WriteFails, Finish,
               Monitor, MonitorDone, MonitorTouched, MonitorExpired,
               Return
    <2> QED
        BY <2>1, IdleAssumption DEF Clocks
<1> QED
    BY <1>1, <1>2, <1>3, PTL DEF SpliceSpec, ReapsOnlyTheIdle
=============================================================================
