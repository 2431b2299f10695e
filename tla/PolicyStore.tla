----------------------------- MODULE PolicyStore -----------------------------
(****************************************************************************)
(* The policy snapshot of internal/policy/store.go.                         *)
(*                                                                          *)
(* Two informers watch EgressPolicy and UpstreamProxy objects.  Each one    *)
(* has a listener goroutine that runs the store's handler once per          *)
(* notification; the main goroutine rebuilds once more at startup.  So up   *)
(* to three goroutines run refreshErr at the same time: each lists the      *)
(* policies, lists the upstreams, and publishes the pair with one atomic    *)
(* pointer store.  Nothing orders the three.                                *)
(*                                                                          *)
(* The contents of an informer's cache are abstracted to a version: 0 is    *)
(* "not listed yet", 1 the result of the initial list, and every later      *)
(* change of an object of the kind adds one; beside it the model keeps how  *)
(* many objects there are, which is how many a resync replays.              *)
(****************************************************************************)
EXTENDS Naturals

CONSTANTS
    MaxVersion,    \* bound: changes of one kind that the model explores
    MaxObjects,    \* bound: objects of one kind
    MaxFailures    \* bound: List calls that fail

ASSUME BoundsAssumption ==
    MaxVersion \in Nat \ {0} /\ MaxObjects \in Nat /\ MaxFailures \in Nat

Kinds == {"policies", "upstreams"}

\* Startup is the Refresh of cmd/relay/serve.go; a listener has its kind's name.
Startup == "startup"
Refreshers == Kinds \cup {Startup}

Versions == 0 .. MaxVersion

VARIABLES
    cache,      \* kind -> version its informer holds
    objects,    \* kind -> how many objects that version has
    pending,    \* kind -> notifications its listener has not handled
    pc,         \* refresher -> where it is in refreshErr
    got,        \* refresher -> the versions it has listed
    snapshot,   \* the published pair of versions
    failures,   \* List calls that failed so far
    upAt,       \* history: policies version -> upstreams version it met
    regressed   \* history: some publication replaced a newer list by an older

vars == <<cache, objects, pending, pc, got, snapshot, failures, upAt, regressed>>

Empty == [k \in Kinds |-> 0]

Init ==
    /\ cache = Empty
    /\ objects = Empty
    /\ pending = Empty
    /\ pc = [r \in Refreshers |-> "idle"]
    /\ got = [r \in Refreshers |-> Empty]
    /\ snapshot = Empty
    /\ failures = 0
    /\ upAt = [v \in Versions |-> 0]
    /\ regressed = FALSE

Synced(k) == cache[k] > 0
Alive == pc[Startup] # "exited"
Ready == pc[Startup] = "done"

-----------------------------------------------------------------------------
(* The informers. *)

\* A policies version remembers the upstreams version it arrived beside.
Advance(k) ==
    /\ cache' = [cache EXCEPT ![k] = @ + 1]
    /\ upAt' = IF k = "policies"
               THEN [upAt EXCEPT ![cache[k] + 1] = cache["upstreams"]]
               ELSE upAt

\* The initial list of a kind; a list of no objects notifies nobody.
InitialList(k) ==
    /\ ~Synced(k)
    /\ Advance(k)
    /\ \E n \in 0 .. MaxObjects :
           /\ objects' = [objects EXCEPT ![k] = n]
           /\ pending' = [pending EXCEPT ![k] = n]
    /\ UNCHANGED <<pc, got, snapshot, failures, regressed>>

\* An object is added, updated or deleted.
Changed(k) ==
    \/ objects[k] < MaxObjects /\ objects' = [objects EXCEPT ![k] = @ + 1]
    \/ objects[k] > 0 /\ UNCHANGED objects
    \/ objects[k] > 0 /\ objects' = [objects EXCEPT ![k] = @ - 1]

\* Mutant of WatchEvent: only the EgressPolicy informer got the handler.
WatchEventOneInformer(k) ==
    /\ Synced(k)
    /\ cache[k] < MaxVersion
    /\ Advance(k) /\ Changed(k)
    /\ pending' = IF k = "policies" THEN [pending EXCEPT ![k] = @ + 1] ELSE pending
    /\ UNCHANGED <<pc, got, snapshot, failures, regressed>>

\* The cache changes before the listener is told.
WatchEvent(k) ==
    /\ Synced(k)
    /\ cache[k] < MaxVersion
    /\ Advance(k) /\ Changed(k)
    /\ pending' = [pending EXCEPT ![k] = @ + 1]
    /\ UNCHANGED <<pc, got, snapshot, failures, regressed>>

\* The informer's periodic resync replays every object it holds to its listener,
\* and so tells it nothing when there is none.
Resync(k) ==
    /\ objects[k] > 0
    /\ pending[k] = 0
    /\ pending' = [pending EXCEPT ![k] = objects[k]]
    /\ UNCHANGED <<cache, objects, pc, got, snapshot, failures, upAt, regressed>>

-----------------------------------------------------------------------------
(* refreshErr, one action per step other goroutines can see. *)

\* Mutant of Begin: a rebuild runs without a notification to account for it.
BeginUnprompted(r) ==
    /\ Alive
    /\ pc[r] = "idle"
    /\ pending' = IF r = Startup THEN pending ELSE [pending EXCEPT ![r] = @ - 1]
    /\ pc' = [pc EXCEPT ![r] = "listPolicies"]
    /\ UNCHANGED <<cache, objects, got, snapshot, failures, upAt, regressed>>

\* A listener takes its next notification; the main goroutine waits for both
\* caches and then rebuilds once.
Begin(r) ==
    /\ Alive
    /\ pc[r] = "idle"
    /\ IF r = Startup
       THEN /\ \A k \in Kinds : Synced(k)
            /\ UNCHANGED pending
       ELSE /\ pending[r] > 0
            /\ pending' = [pending EXCEPT ![r] = @ - 1]
    /\ pc' = [pc EXCEPT ![r] = "listPolicies"]
    /\ UNCHANGED <<cache, objects, got, snapshot, failures, upAt, regressed>>

\* Mutant of List: the two lists in the other order.
ListSwapped(r, k, here, next) ==
    LET other == CHOOSE o \in Kinds : o # k IN
    /\ Alive
    /\ pc[r] = here
    /\ Synced(other)
    /\ got' = [got EXCEPT ![r][other] = cache[other]]
    /\ pc' = [pc EXCEPT ![r] = next]
    /\ UNCHANGED <<cache, objects, pending, snapshot, failures, upAt, regressed>>

\* List blocks until the informer it reads has synced.
List(r, k, here, next) ==
    /\ Alive
    /\ pc[r] = here
    /\ Synced(k)
    /\ got' = [got EXCEPT ![r][k] = cache[k]]
    /\ pc' = [pc EXCEPT ![r] = next]
    /\ UNCHANGED <<cache, objects, pending, snapshot, failures, upAt, regressed>>

ListPolicies(r) == List(r, "policies", "listPolicies", "listUpstreams")

\* Mutant of ListUpstreams: it does not wait for the informer.
ListUpstreamsUnsynced(r) ==
    /\ Alive
    /\ pc[r] = "listUpstreams"
    /\ got' = [got EXCEPT ![r]["upstreams"] = cache["upstreams"]]
    /\ pc' = [pc EXCEPT ![r] = "store"]
    /\ UNCHANGED <<cache, objects, pending, snapshot, failures, upAt, regressed>>

ListUpstreams(r) == List(r, "upstreams", "listUpstreams", "store")

\* A List that fails ends the rebuild and leaves the snapshot alone.  A
\* handler has nobody to tell; at startup the process exits.
ListFails(r) ==
    /\ Alive
    /\ pc[r] \in {"listPolicies", "listUpstreams"}
    /\ failures < MaxFailures
    /\ failures' = failures + 1
    /\ pc' = [pc EXCEPT ![r] = IF r = Startup THEN "exited" ELSE "idle"]
    /\ got' = [got EXCEPT ![r] = Empty]
    /\ UNCHANGED <<cache, objects, pending, snapshot, upAt, regressed>>

\* Mutant of Publish: a rebuild is dropped when its policies are not newer.
PublishNewerPolicies(r) ==
    /\ Alive
    /\ pc[r] = "store"
    /\ snapshot' = IF got[r]["policies"] > snapshot["policies"]
                   THEN got[r] ELSE snapshot
    /\ pc' = [pc EXCEPT ![r] = IF r = Startup THEN "done" ELSE "idle"]
    /\ got' = [got EXCEPT ![r] = Empty]
    /\ UNCHANGED <<cache, objects, pending, failures, upAt, regressed>>

\* The rebuilt pair replaces the published one, whatever was published since.
Publish(r) ==
    /\ Alive
    /\ pc[r] = "store"
    /\ snapshot' = got[r]
    /\ regressed' = (regressed \/ \E k \in Kinds : got[r][k] < snapshot[k])
    /\ pc' = [pc EXCEPT ![r] = IF r = Startup THEN "done" ELSE "idle"]
    /\ got' = [got EXCEPT ![r] = Empty]
    /\ UNCHANGED <<cache, objects, pending, failures, upAt>>

-----------------------------------------------------------------------------
\* Nothing is under way: no notification waits and no rebuild runs.
Settled ==
    /\ Ready
    /\ \A k \in Kinds : pending[k] = 0 /\ pc[k] = "idle"

\* After a failed startup the process is gone.  And with nothing under way and no
\* object to replay, nothing happens until one is created.
Quiet ==
    /\ ~Alive \/ (Settled /\ objects = Empty)
    /\ UNCHANGED vars

Refresh(r) == ListPolicies(r) \/ ListUpstreams(r) \/ Publish(r)

Next ==
    \/ \E k \in Kinds : InitialList(k) \/ WatchEvent(k) \/ Resync(k)
    \/ \E r \in Refreshers :
          \/ Begin(r)
          \/ ListPolicies(r)
          \/ ListUpstreams(r)
          \/ ListFails(r)
          \/ Publish(r)
    \/ Quiet

Spec == Init /\ [][Next]_vars

\* Goroutines that can run do run, an initial list ends and the resyncs of a
\* cache that holds something recur.
\* Nothing forces an object to change or a List to fail.
Fairness ==
    /\ \A k \in Kinds : WF_vars(InitialList(k)) /\ WF_vars(Resync(k))
    /\ \A r \in Refreshers : WF_vars(Begin(r)) /\ WF_vars(Refresh(r))

FairSpec == Spec /\ Fairness

-----------------------------------------------------------------------------
(* Properties. *)

States == {"idle", "listPolicies", "listUpstreams", "store", "done", "exited"}

\* Every variable keeps its type.
TypeOK ==
    /\ cache \in [Kinds -> Versions]
    /\ objects \in [Kinds -> Nat]
    /\ pending \in [Kinds -> Nat]
    /\ pc \in [Refreshers -> States]
    /\ \A k \in Kinds : pc[k] \notin {"done", "exited"}
    /\ got \in [Refreshers -> [Kinds -> Versions]]
    /\ snapshot \in [Kinds -> Versions]
    /\ failures \in 0 .. MaxFailures
    /\ upAt \in [Versions -> Versions]
    /\ regressed \in BOOLEAN

\* A published snapshot never holds a policies list without the upstreams
\* that were already in the cache when that list appeared: an author who
\* creates the UpstreamProxy first never gets ErrNoUpstream from a torn
\* snapshot.  refreshErr owes this to listing policies before upstreams.
CausalSnapshot == snapshot["upstreams"] >= upAt[snapshot["policies"]]

\* From the moment the relay serves, no rebuild, however slow or failed,
\* publishes a snapshot with an unloaded half (the comment in refresh: policy
\* goes stale rather than empty).
NeverEmptyOnceReady == Ready => \A k \in Kinds : snapshot[k] > 0

\* No change is lost: once nothing is under way the snapshot is the cache,
\* unless a List failed or a slower rebuild published over a newer one.
\* NewStore promises this by hanging the handler on both informers.
SettledUnlessOvertaken ==
    (Settled /\ failures = 0 /\ ~regressed) => snapshot = cache

\* When objects stop changing, resyncs bring the snapshot to what the caches
\* hold and it stays there, whatever order the rebuilds publish in and whatever
\* failed, as long as one object of either kind is left to replay.
Converges ==
    []Alive /\ <>[](\E k \in Kinds : objects[k] > 0) => <>[](snapshot = cache)

\* store.go: NewStore "keeps a snapshot current".  When objects stop changing and
\* no List fails, the snapshot comes to be what the caches hold, also when the
\* last object has been deleted.
KeptCurrent == [](Alive /\ failures = 0) => <>[](snapshot = cache)

=============================================================================
