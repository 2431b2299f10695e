-------------------------- MODULE PolicyStore_proof --------------------------
(****************************************************************************)
(* Proofs about PolicyStore for every number of changes, objects and        *)
(* failures.  The inductive invariant says, for each point of refreshErr,   *)
(* what the lists a rebuild already holds are worth, and for each kind who  *)
(* will still bring its latest version to the snapshot.                     *)
(****************************************************************************)
EXTENDS PolicyStore, TLAPS

\* What a rebuild has listed so far is loaded, is no newer than the cache and
\* respects the order in which policies and upstreams arrived.
RebuildSound ==
    \A r \in Refreshers :
        /\ pc[r] \in {"listUpstreams", "store"} =>
              got[r]["policies"] \in 1 .. cache["policies"]
        /\ pc[r] = "store" =>
              /\ got[r]["upstreams"] \in 1 .. cache["upstreams"]
              /\ got[r]["upstreams"] >= upAt[got[r]["policies"]]

\* The history of arrivals never runs ahead of the cache.
HistorySound ==
    /\ \A v \in Versions : upAt[v] <= cache["upstreams"]
    /\ \A k \in Kinds : snapshot[k] <= cache[k]

\* The main goroutine rebuilds only after both initial lists.
StartupWaits == pc[Startup] # "idle" => \A k \in Kinds : cache[k] > 0

\* Refresher r has not listed kind k yet, and will.
WillList(r, k) ==
    \/ r = Startup /\ pc[r] = "idle"
    \/ pc[r] = "listPolicies"
    \/ pc[r] = "listUpstreams" /\ k = "upstreams"

\* Refresher r holds the latest version of kind k, unpublished.
Holds(r, k) ==
    /\ \/ pc[r] = "store"
       \/ pc[r] = "listUpstreams" /\ k = "policies"
    /\ got[r][k] = cache[k]

\* Every change has someone who will publish it, or has been published.
Covered ==
    (Alive /\ failures = 0 /\ ~regressed) =>
        \A k \in Kinds :
            \/ snapshot[k] = cache[k]
            \/ pending[k] > 0
            \/ \E r \in Refreshers : WillList(r, k) \/ Holds(r, k)

IInv ==
    /\ TypeOK
    /\ RebuildSound
    /\ HistorySound
    /\ StartupWaits
    /\ CausalSnapshot
    /\ NeverEmptyOnceReady
    /\ Covered

-----------------------------------------------------------------------------
\* The names of the kinds and of the refreshers.
LEMMA Names ==
    /\ "policies" \in Kinds /\ "upstreams" \in Kinds
    /\ \A k \in Kinds : k \in Refreshers /\ k # Startup
    /\ \A k \in Kinds : k = "policies" \/ k = "upstreams"
    /\ Startup \in Refreshers
    /\ \A r \in Refreshers : r = Startup \/ r \in Kinds
BY DEF Kinds, Refreshers, Startup

\* Version zero of both kinds is a pair of versions.
LEMMA EmptyTyped == Empty \in [Kinds -> Versions] /\ Empty \in [Kinds -> Nat]
BY BoundsAssumption DEF Empty, Versions

\* Versions are naturals, and the one after a version below the bound is one.
LEMMA NextVersion ==
    \A v \in Versions : v \in Nat /\ (v < MaxVersion => v + 1 \in Versions)
BY BoundsAssumption DEF Versions

\* A version neither below nor above another is that version.
LEMMA Squeeze == \A a, b \in Nat : ~(a < b) /\ a <= b => a = b
OBVIOUS

\* Types are preserved by every step of the store and of its informers.
LEMMA TypePreserved == TypeOK /\ [Next]_vars => TypeOK'
<1> SUFFICES ASSUME TypeOK, [Next]_vars PROVE TypeOK'
    OBVIOUS
<1> USE DEF TypeOK
<1>1. ASSUME NEW k \in Kinds, Advance(k), cache[k] < MaxVersion
      PROVE cache' \in [Kinds -> Versions] /\ upAt' \in [Versions -> Versions]
    <2>1. cache[k] + 1 \in Versions /\ cache["upstreams"] \in Versions
        BY <1>1, Names, NextVersion
    <2> QED
        BY <1>1, <2>1 DEF Advance
<1>2. ASSUME NEW k \in Kinds, InitialList(k) PROVE TypeOK'
    <2>1. cache[k] < MaxVersion
        BY <1>2, BoundsAssumption DEF InitialList, Synced, Versions
    <2>2. pending' \in [Kinds -> Nat] /\ objects' \in [Kinds -> Nat]
        BY <1>2, BoundsAssumption DEF InitialList
    <2> QED
        BY <1>1, <1>2, <2>1, <2>2 DEF InitialList
<1>3. ASSUME NEW k \in Kinds, WatchEvent(k) PROVE TypeOK'
    <2>1. objects' \in [Kinds -> Nat]
        BY <1>3, BoundsAssumption DEF WatchEvent, Changed
    <2>2. pending' \in [Kinds -> Nat]
        BY <1>3 DEF WatchEvent
    <2>3. cache' \in [Kinds -> Versions] /\ upAt' \in [Versions -> Versions]
        BY <1>1, <1>3 DEF WatchEvent
    <2>4. UNCHANGED <<pc, got, snapshot, failures, regressed>>
        BY <1>3 DEF WatchEvent
    <2> QED
        BY <2>1, <2>2, <2>3, <2>4
<1>4. ASSUME NEW k \in Kinds, Resync(k) PROVE TypeOK'
    BY <1>4 DEF Resync
<1>5. ASSUME NEW r \in Refreshers, Begin(r) PROVE TypeOK'
    <2>1. pending' \in [Kinds -> Nat]
        BY <1>5, Names DEF Begin
    <2>2. pc' \in [Refreshers -> States]
          /\ \A k \in Kinds : pc'[k] \notin {"done", "exited"}
        BY <1>5, Names DEF Begin, States
    <2> QED
        BY <1>5, <2>1, <2>2 DEF Begin
<1>6. ASSUME NEW r \in Refreshers, NEW k \in Kinds, NEW here, NEW next \in States,
             next \notin {"done", "exited"}, List(r, k, here, next)
      PROVE TypeOK'
    BY <1>6, Names DEF List
<1>7. ASSUME NEW r \in Refreshers, ListPolicies(r) \/ ListUpstreams(r) PROVE TypeOK'
    BY <1>6, <1>7, Names DEF ListPolicies, ListUpstreams, States
<1>8. ASSUME NEW r \in Refreshers, ListFails(r) PROVE TypeOK'
    <2>1. failures' \in 0 .. MaxFailures
        BY <1>8, BoundsAssumption DEF ListFails
    <2>2. pc' \in [Refreshers -> States]
          /\ \A k \in Kinds : pc'[k] \notin {"done", "exited"}
        BY <1>8, Names DEF ListFails, States
    <2> QED
        BY <1>8, <2>1, <2>2, EmptyTyped DEF ListFails
<1>9. ASSUME NEW r \in Refreshers, Publish(r) PROVE TypeOK'
    <2>1. pc' \in [Refreshers -> States]
          /\ \A k \in Kinds : pc'[k] \notin {"done", "exited"}
        BY <1>9, Names DEF Publish, States
    <2>2. got' \in [Refreshers -> [Kinds -> Versions]] /\ snapshot' \in [Kinds -> Versions]
        BY <1>9, EmptyTyped DEF Publish
    <2> QED
        BY <1>9, <2>1, <2>2 DEF Publish
<1>10. CASE Quiet \/ UNCHANGED vars
    BY <1>10 DEF Quiet, vars
<1> QED
    BY <1>2, <1>3, <1>4, <1>5, <1>7, <1>8, <1>9, <1>10 DEF Next

\* A change of kind k: the history stays within the cache, and what rebuilds
\* and snapshot hold is untouched.
LEMMA AdvanceSound ==
    ASSUME TypeOK, RebuildSound, HistorySound, CausalSnapshot,
           NEW k \in Kinds, Advance(k), cache[k] < MaxVersion,
           UNCHANGED <<pc, got, snapshot>>
    PROVE  RebuildSound' /\ HistorySound' /\ CausalSnapshot'
<1> USE Names DEF TypeOK
<1>1. /\ cache[k] + 1 \in Versions /\ cache'[k] = cache[k] + 1
      /\ \A j \in Kinds : j # k => cache'[j] = cache[j]
      /\ \A v \in Versions : v # cache["policies"] + 1 => upAt'[v] = upAt[v]
      /\ \A v \in Versions : upAt'[v] = upAt[v] \/ upAt'[v] = cache["upstreams"]
    <2>1. cache[k] + 1 \in Versions /\ cache'[k] = cache[k] + 1
        BY NextVersion DEF Advance
    <2>2. \A j \in Kinds : j # k => cache'[j] = cache[j]
        BY DEF Advance
    <2>3. CASE k = "policies"
        BY <2>1, <2>2, <2>3 DEF Advance
    <2>4. CASE k # "policies"
        BY <2>1, <2>2, <2>4 DEF Advance
    <2> QED
        BY <2>3, <2>4
<1>2. \A j \in Kinds : cache[j] \in Nat /\ cache'[j] \in Nat /\ cache[j] <= cache'[j]
    <2> SUFFICES ASSUME NEW j \in Kinds
                 PROVE  cache[j] \in Nat /\ cache'[j] \in Nat /\ cache[j] <= cache'[j]
        OBVIOUS
    <2>1. cache[j] \in Nat
        BY NextVersion
    <2>2. cache'[j] = cache[j] \/ cache'[j] = cache[j] + 1
        BY <1>1
    <2> QED
        BY <2>1, <2>2
<1>3. HistorySound'
    <2>1. \A v \in Versions : upAt'[v] <= cache'["upstreams"]
        <3> SUFFICES ASSUME NEW v \in Versions PROVE upAt'[v] <= cache'["upstreams"]
            OBVIOUS
        <3>1. upAt[v] \in Nat /\ upAt[v] <= cache["upstreams"]
            BY NextVersion DEF HistorySound
        <3>2. upAt'[v] = upAt[v] \/ upAt'[v] = cache["upstreams"]
            BY <1>1
        <3>3. /\ cache["upstreams"] \in Nat /\ cache'["upstreams"] \in Nat
              /\ cache["upstreams"] <= cache'["upstreams"]
            BY <1>2
        <3> QED
            BY <3>1, <3>2, <3>3
    <2>2. \A j \in Kinds : snapshot'[j] <= cache'[j]
        <3> SUFFICES ASSUME NEW j \in Kinds PROVE snapshot[j] <= cache'[j]
            OBVIOUS
        <3>1. snapshot[j] \in Nat /\ snapshot[j] <= cache[j]
            BY NextVersion DEF HistorySound
        <3> QED
            BY <1>2, <3>1
    <2> QED
        BY <2>1, <2>2 DEF HistorySound
<1>4. \A v \in Versions : v <= cache["policies"] => upAt'[v] = upAt[v]
    BY <1>1, NextVersion
<1>5. RebuildSound'
    <2> SUFFICES ASSUME NEW r \in Refreshers
                 PROVE  /\ pc[r] \in {"listUpstreams", "store"} =>
                              got[r]["policies"] \in 1 .. cache'["policies"]
                        /\ pc[r] = "store" =>
                              /\ got[r]["upstreams"] \in 1 .. cache'["upstreams"]
                              /\ got[r]["upstreams"] >= upAt'[got[r]["policies"]]
        BY DEF RebuildSound
    <2>1. \A j \in Kinds : got[r][j] \in Versions /\ got[r][j] \in Nat
        BY NextVersion
    <2>2. pc[r] \in {"listUpstreams", "store"} =>
              /\ got[r]["policies"] \in 1 .. cache'["policies"]
              /\ got[r]["policies"] <= cache["policies"]
        BY <1>2, <2>1 DEF RebuildSound
    <2>3. pc[r] = "store" => got[r]["upstreams"] \in 1 .. cache'["upstreams"]
        BY <1>2, <2>1 DEF RebuildSound
    <2>4. pc[r] = "store" => got[r]["upstreams"] >= upAt'[got[r]["policies"]]
        BY <1>4, <2>1, <2>2 DEF RebuildSound
    <2> QED
        BY <2>2, <2>3, <2>4
<1>6. CausalSnapshot'
    BY <1>4 DEF CausalSnapshot, HistorySound
<1> QED
    BY <1>3, <1>5, <1>6

\* The invariant behind CausalSnapshot and NeverEmptyOnceReady is inductive.
LEMMA SoundPreserved ==
    ASSUME TypeOK, RebuildSound, HistorySound, CausalSnapshot, NeverEmptyOnceReady,
           [Next]_vars
    PROVE  RebuildSound' /\ HistorySound' /\ CausalSnapshot' /\ NeverEmptyOnceReady'
<1> DEFINE Sound == RebuildSound /\ HistorySound /\ CausalSnapshot /\ NeverEmptyOnceReady
<1> SUFFICES Sound' OBVIOUS
<1> USE Names DEF TypeOK
<1>1. ASSUME NEW k \in Kinds, InitialList(k) PROVE Sound'
    <2>1. cache[k] < MaxVersion
        BY <1>1, BoundsAssumption DEF InitialList, Synced, Versions
    <2> QED
        BY <1>1, <2>1, AdvanceSound DEF InitialList, NeverEmptyOnceReady, Ready
<1>2. ASSUME NEW k \in Kinds, WatchEvent(k) PROVE Sound'
    BY <1>2, AdvanceSound DEF WatchEvent, NeverEmptyOnceReady, Ready
<1>3. ASSUME NEW k \in Kinds, Resync(k) PROVE Sound'
    BY <1>3 DEF Resync, RebuildSound, HistorySound, CausalSnapshot, NeverEmptyOnceReady, Ready
<1>4. ASSUME NEW r \in Refreshers, Begin(r) PROVE Sound'
    <2>1. RebuildSound'
        BY <1>4 DEF Begin, RebuildSound
    <2> QED
        BY <1>4, <2>1 DEF Begin, HistorySound, CausalSnapshot, NeverEmptyOnceReady, Ready
<1>5. ASSUME NEW r \in Refreshers, ListPolicies(r) PROVE Sound'
    <2>1. cache["policies"] \in 1 .. cache["policies"]
        BY <1>5 DEF ListPolicies, List, Synced, Versions
    <2>2. RebuildSound'
        BY <1>5, <2>1 DEF ListPolicies, List, RebuildSound
    <2> QED
        BY <1>5, <2>2 DEF ListPolicies, List, HistorySound, CausalSnapshot, NeverEmptyOnceReady, Ready
<1>6. ASSUME NEW r \in Refreshers, ListUpstreams(r) PROVE Sound'
    <2>1. /\ cache["upstreams"] \in 1 .. cache["upstreams"]
          /\ cache["upstreams"] >= upAt[got[r]["policies"]]
        <3>1. cache["upstreams"] \in Nat /\ cache["upstreams"] > 0
            BY <1>6, NextVersion DEF ListUpstreams, List, Synced
        <3>2. got[r]["policies"] \in Versions
            OBVIOUS
        <3> QED
            BY <3>1, <3>2, NextVersion DEF HistorySound
    <2>2. RebuildSound'
        BY <1>6, <2>1 DEF ListUpstreams, List, RebuildSound
    <2> QED
        BY <1>6, <2>2 DEF ListUpstreams, List, HistorySound, CausalSnapshot, NeverEmptyOnceReady, Ready
<1>7. ASSUME NEW r \in Refreshers, ListFails(r) PROVE Sound'
    <2>1. RebuildSound'
        BY <1>7 DEF ListFails, RebuildSound
    <2> QED
        BY <1>7, <2>1 DEF ListFails, HistorySound, CausalSnapshot, NeverEmptyOnceReady, Ready
<1>8. ASSUME NEW r \in Refreshers, Publish(r) PROVE Sound'
    <2>1. /\ got[r]["policies"] \in 1 .. cache["policies"]
          /\ got[r]["upstreams"] \in 1 .. cache["upstreams"]
          /\ got[r]["upstreams"] >= upAt[got[r]["policies"]]
        BY <1>8 DEF Publish, RebuildSound
    <2>2. RebuildSound'
        BY <1>8 DEF Publish, RebuildSound
    <2>3. snapshot' = got[r] /\ cache' = cache /\ upAt' = upAt
        BY <1>8 DEF Publish
    <2>4. \A k \in Kinds : cache[k] \in Nat /\ got[r][k] \in 1 .. cache[k]
        BY <2>1, NextVersion
    <2>5. HistorySound' /\ CausalSnapshot' /\ \A k \in Kinds : snapshot'[k] > 0
        BY <2>1, <2>3, <2>4 DEF HistorySound, CausalSnapshot
    <2> QED
        BY <2>2, <2>5 DEF NeverEmptyOnceReady
<1>9. CASE Quiet \/ UNCHANGED vars
    BY <1>9 DEF Quiet, vars, RebuildSound, HistorySound, CausalSnapshot, NeverEmptyOnceReady, Ready
<1> QED
    BY <1>1, <1>2, <1>3, <1>4, <1>5, <1>6, <1>7, <1>8, <1>9 DEF Next

\* The startup rebuild keeps waiting for both caches.
LEMMA WaitsPreserved ==
    ASSUME TypeOK, StartupWaits, [Next]_vars
    PROVE  StartupWaits'
<1> USE Names, NextVersion DEF TypeOK
<1>1. ASSUME NEW k \in Kinds, Advance(k), UNCHANGED pc PROVE StartupWaits'
    BY <1>1 DEF Advance, StartupWaits
<1>2. ASSUME NEW k \in Kinds, InitialList(k) \/ WatchEvent(k) \/ Resync(k) PROVE StartupWaits'
    BY <1>1, <1>2 DEF InitialList, WatchEvent, Resync, StartupWaits
<1>3. ASSUME NEW r \in Refreshers, Begin(r) PROVE StartupWaits'
    BY <1>3 DEF Begin, Synced, StartupWaits
<1>4. ASSUME NEW r \in Refreshers,
             ListPolicies(r) \/ ListUpstreams(r) \/ ListFails(r) \/ Publish(r)
      PROVE StartupWaits'
    BY <1>4 DEF ListPolicies, ListUpstreams, List, ListFails, Publish, StartupWaits
<1>5. CASE Quiet \/ UNCHANGED vars
    BY <1>5 DEF Quiet, vars, StartupWaits
<1> QED
    BY <1>2, <1>3, <1>4, <1>5 DEF Next

\* Every change stays covered: the step that takes a promise away (a handled
\* notification, a published rebuild) leaves another one behind.
LEMMA CoveredPreserved ==
    ASSUME TypeOK, RebuildSound, HistorySound, StartupWaits, Covered, [Next]_vars
    PROVE  Covered'
<1> USE Names DEF TypeOK
<1> DEFINE Cover(k) == \/ snapshot[k] = cache[k]
                       \/ pending[k] > 0
                       \/ \E r \in Refreshers : WillList(r, k) \/ Holds(r, k)
<1> SUFFICES ASSUME Alive', failures' = 0, ~regressed', NEW k \in Kinds PROVE Cover(k)'
    BY DEF Covered
<1> USE DEF WillList, Holds
<1>1. ASSUME NEW j \in Kinds, InitialList(j) PROVE Cover(k)'
    <2>1. pc[Startup] = "idle"
        BY <1>1 DEF InitialList, Synced, StartupWaits
    <2> QED
        BY <1>1, <2>1 DEF InitialList
<1>2. ASSUME NEW j \in Kinds, WatchEvent(j) PROVE Cover(k)'
    <2>1. CASE j = k
        BY <1>2, <2>1 DEF WatchEvent
    <2>2. CASE j # k
        <3>1. Cover(k)
            BY <1>2 DEF WatchEvent, Covered, Alive
        <3>2. cache'[k] = cache[k] /\ pending'[k] = pending[k] /\ UNCHANGED <<pc, got, snapshot>>
            BY <1>2, <2>2 DEF WatchEvent, Advance
        <3> QED
            BY <3>1, <3>2
    <2> QED
        BY <2>1, <2>2
<1>3. ASSUME NEW j \in Kinds, Resync(j) PROVE Cover(k)'
    <2>1. Cover(k)
        BY <1>3 DEF Resync, Covered, Alive
    <2> QED
        BY <1>3, <2>1 DEF Resync
<1>4. ASSUME NEW r \in Refreshers, Begin(r) PROVE Cover(k)'
    BY <1>4 DEF Begin
<1>5. ASSUME NEW r \in Refreshers, ListPolicies(r) PROVE Cover(k)'
    BY <1>5 DEF ListPolicies, List
<1>6. ASSUME NEW r \in Refreshers, ListUpstreams(r) PROVE Cover(k)'
    <2>1. CASE k = "upstreams"
        BY <1>6, <2>1 DEF ListUpstreams, List
    <2>2. CASE k = "policies"
        <3>1. Cover(k)
            BY <1>6 DEF ListUpstreams, List, Covered, Alive
        <3>2. /\ UNCHANGED <<cache, pending, snapshot>>
              /\ pc[r] = "listUpstreams" /\ pc'[r] = "store" /\ got'[r][k] = got[r][k]
              /\ \A s \in Refreshers : s # r => pc'[s] = pc[s] /\ got'[s] = got[s]
            BY <1>6, <2>2 DEF ListUpstreams, List
        <3>3. CASE Holds(r, k)
            BY <3>2, <3>3
        <3>4. CASE ~Holds(r, k)
            <4>1. ~WillList(r, k)
                BY <2>2, <3>2
            <4> QED
                BY <3>1, <3>2, <3>4, <4>1
        <3> QED
            BY <3>3, <3>4
    <2> QED
        BY <2>1, <2>2
<1>7. ASSUME NEW r \in Refreshers, ListFails(r) PROVE Cover(k)'
    BY <1>7, BoundsAssumption DEF ListFails
<1>8. ASSUME NEW r \in Refreshers, Publish(r) PROVE Cover(k)'
    <2>1. Cover(k)
        BY <1>8 DEF Publish, Covered, Alive
    <2>2. /\ UNCHANGED <<cache, pending>> /\ snapshot' = got[r]
          /\ pc[r] = "store"
          /\ \A s \in Refreshers : s # r => pc'[s] = pc[s] /\ got'[s] = got[s]
        BY <1>8 DEF Publish
    <2>3. got[r][k] \in Nat /\ cache[k] \in Nat /\ snapshot[k] \in Nat
        BY NextVersion
    <2>4. CASE snapshot[k] = cache[k]
        <3>1. ~(got[r][k] < snapshot[k])
            BY <1>8 DEF Publish
        <3>2. got[r]["policies"] \in 1 .. cache["policies"] /\ got[r]["upstreams"] \in 1 .. cache["upstreams"]
            BY <2>2 DEF RebuildSound
        <3>3. got[r][k] <= cache[k]
            BY <2>3, <3>2
        <3>4. got[r][k] = cache[k]
            BY <2>3, <2>4, <3>1, <3>3, Squeeze
        <3> QED
            BY <2>2, <3>4
    <2>5. CASE Holds(r, k)
        BY <2>2, <2>5
    <2>6. CASE snapshot[k] # cache[k] /\ ~Holds(r, k)
        BY <2>1, <2>2, <2>6
    <2> QED
        BY <2>4, <2>5, <2>6
<1>9. CASE Quiet \/ UNCHANGED vars
    BY <1>9 DEF Quiet, vars, Covered, Alive
<1> QED
    BY <1>1, <1>2, <1>3, <1>4, <1>5, <1>6, <1>7, <1>8, <1>9 DEF Next

-----------------------------------------------------------------------------
\* The conjunction is an invariant of the store.
LEMMA Invariance == Spec => []IInv
<1>1. Init => IInv
    <2> SUFFICES ASSUME Init PROVE IInv
        OBVIOUS
    <2> USE Names, BoundsAssumption DEF Init
    <2>1. TypeOK
        <3>1. /\ upAt \in [Versions -> Versions] /\ failures \in 0 .. MaxFailures
            BY DEF Versions
        <3>2. pc \in [Refreshers -> States] /\ \A k \in Kinds : pc[k] \notin {"done", "exited"}
            BY DEF States
        <3> QED
            BY <3>1, <3>2, EmptyTyped DEF TypeOK
    <2>2. RebuildSound /\ HistorySound /\ StartupWaits /\ CausalSnapshot /\ NeverEmptyOnceReady
        BY DEF RebuildSound, HistorySound, StartupWaits, CausalSnapshot, NeverEmptyOnceReady,
               Ready, Empty, Versions
    <2>3. Covered
        BY DEF Covered
    <2> QED
        BY <2>1, <2>2, <2>3 DEF IInv
<1>2. IInv /\ [Next]_vars => IInv'
    BY TypePreserved, SoundPreserved, WaitsPreserved, CoveredPreserved DEF IInv
<1> QED
    BY <1>1, <1>2, PTL DEF Spec

\* Type correctness of the store, for every bound.
THEOREM TypeCorrect == Spec => []TypeOK
BY Invariance, PTL DEF IInv

\* No snapshot the store publishes tears a policy from the upstreams that were
\* there when it arrived, however the three rebuilds interleave.
THEOREM SnapshotsAreCausal == Spec => []CausalSnapshot
BY Invariance, PTL DEF IInv

\* A serving relay never holds an unloaded half of the policy.
THEOREM ServesLoadedPolicy == Spec => []NeverEmptyOnceReady
BY Invariance, PTL DEF IInv

\* A change is only ever lost to a failed List or to a rebuild published over
\* a newer one: with neither, the settled snapshot is the cache.
THEOREM NoChangeLost == Spec => []SettledUnlessOvertaken
<1>1. IInv => SettledUnlessOvertaken
    <2> SUFFICES ASSUME IInv, Settled, failures = 0, ~regressed PROVE snapshot = cache
        BY DEF SettledUnlessOvertaken
    <2>1. Alive /\ pc[Startup] = "done"
        BY DEF Settled, Ready, Alive
    <2>2. ASSUME NEW k \in Kinds PROVE snapshot[k] = cache[k]
        <3>1. pending[k] = 0 /\ \A r \in Refreshers : ~WillList(r, k) /\ ~Holds(r, k)
            BY <2>1, Names DEF Settled, WillList, Holds
        <3> QED
            BY <2>1, <3>1 DEF IInv, Covered
    <2> QED
        BY <2>2 DEF IInv, TypeOK
<1> QED
    BY <1>1, Invariance, PTL
=============================================================================
