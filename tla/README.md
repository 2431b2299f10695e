# A verification of proxy-relay-control

`proxy-relay-control` is an egress relay for Kubernetes. Pods send it CONNECT
and absolute-form requests; it finds out which workload is calling, asks policy
objects whether the destination (and, on inspected connections, each request)
is allowed, and forwards what is allowed through a corporate proxy under an
account that the granting policy names. This directory holds TLA+ models of
that code, the TLC runs that check them and the TLAPS proofs about them.

`PROJECT.json` has the same content in tabular form: components, runs, the map
from definitions to source lines, the seeded mutations that show each property
can fail, findings, hazards and theorems.

## The system

| Part | State | Operations | Talks to |
| --- | --- | --- | --- |
| Policy store (`internal/policy/store.go`) | one atomic pointer to a snapshot: a list of policies and a map of upstream profiles | rebuild on each informer notification and once at startup; read | informers; engine, CA bundle controller |
| Path normalization and rules (`normalize.go`, `match.go`) | none | `NormalizePath`, `MatchPath`, `MatchHost`, ... | engine |
| Engine (`engine.go`) | none | `AuthorizeConnect` per connection, `AuthorizeRequest` per request, `Upstream` | store |
| Handlers (`internal/proxy`) | per connection: identity, decisions, request; shared: one HTTP transport, hence one pool of origin connections, per profile name | CONNECT tunnel, TLS inspection, plain HTTP | all of the above and below |
| Dialer (`internal/upstream`) and guard (`internal/guard`) | none; Secrets and DNS are read at each dial | `Dial`, `DialForward`, `Resolve` | corporate proxy, DNS |
| Identity (`internal/identity`) | pod index, negative cache | address to workload | informers, API server |
| Leaf issuer (`internal/tlsbump`) | current CA, bounded cache of leaf certificates | mint, look up, swap the CA | handlers, rotation |
| CA bundle controller (`internal/cabundle`) | none; ConfigMaps in namespaces | publish and withdraw the CA | store, issuer, API server |
| Wiring (`cmd/relay`) | readiness flag | startup order, CA rotation watcher, shutdown | all |

### What is hard about it

* Rebuilds of the snapshot run on up to three goroutines that nothing orders.
* A handler reads the snapshot once for the decision and again, later, for the
  profile the decision names; on an inspected connection the decision of the
  CONNECT judges requests for as long as the connection lives.
* Origin connections are pooled across workloads, by profile name, and outlive
  the policies and profiles they were opened under.
* Names are resolved before they are dialed, by somebody who may answer
  differently the second time.
* Every network operation can fail after the corporate proxy has already seen
  something, and the audit log is supposed to tell what.
* Connections are kept after denials and responses, so the handler must know
  where one request ends and the next begins.
* Tunnels end by idle timers, shutdown races accepting, leaf minting races CA
  rotation, and replicas publish CA bundles at different times.

### What makes each part correct

* Store: a published pair is never torn against causality, never unloaded once
  the relay serves, and catches up with the caches.
* Path rules: the matcher accepts what the wildcard notation means; the
  normalizer returns the path the target names or refuses it.
* Engine: grants are additive, the profile belongs to the policy that allowed
  the request, inspection wins, an upgrade is deliberate, decisions do not
  depend on listing order, and inspected workloads get the CA.
* Handlers: nothing leaves without a grant or under somebody else's account,
  denials leave no trace, only checked addresses are dialed, and every request
  that left has one record that names how it left.
* Identity: an address is attributed to the pod that holds it now, or to none.
* Splice, server: a tunnel ends, both sides are closed, shutdown terminates.
* Issuer, controller: no leaf of a withdrawn CA is handed out after the swap,
  the cache stays in its bound, tenants' ConfigMaps are left alone, and every
  CA some replica signs with is in the published bundle.

## Modules

| Module | Models |
| --- | --- |
| `PolicyStore` | the store and the startup rebuild |
| `PolicyStore_proof` | its theorems |
| `PathRules` | normalization and path matching, as operators |
| `PathRulesCheck`, `MCPathRules` | enumeration of inputs and reference definitions |
| `Engine` (extends `PathRules`) | host, port, selector matching; both stages; who gets the CA |
| `PolicySet` (extends `Engine`), `MCPolicySet` | the set of policy objects as authors change it, and what the engine says of each set |
| `Engine_proof` | lemmas about the engine's grants, their order and both decisions, which the next proofs cite |
| `PolicySet_proof` | theorems of `PolicySet` and, since its policies are made of path rules, of `PathRulesCheck` |
| `Egress` (extends `Engine`) | guard, dialer, credentials: what a dial can return and what the outside sees |
| `Relay` (extends `Egress`), `MCRelay` | the connection handlers over a changing snapshot, resolver and pool |
| `Relay_proof` | its theorems |
| `Splice` | one tunnel: its copies, its idle timer, its end |
| `Server`, `Server_proof` | the accept loop, what handlers wait for, and shutdown; its theorems and that of `Splice` |
| `Identity`, `MCIdentity`, `Identity_proof` | from a client address to a pod; its theorem |
| `LeafSource` | what a handshake is promised by the issuer |
| `LeafIssuer`, `MCLeafIssuer` | the issuer and its cache, which implement `LeafSource` |
| `LeafIssuer_proof` | its theorems, the implementation's steps among them |
| `CABundle`, `CABundle_proof` | replicas that load, rotate and publish the CA; its theorems |

`Relay` composes the policy modules: its decisions are `Engine`'s, its dials are
`Egress`'s, and the snapshots it reads are published in any order, the overtaken
ones that `PolicyStore` shows possible included. `Server` takes from `Splice`
that a tunnel ends once its client's connection is closed (`ClosedSideEnds`);
`CABundle` composes rotation and publication, and `LeafIssuer` takes from it
that the CA may change between any two steps of a handshake. `Relay`'s
`Identify` may name any workload, which includes the wrong ones that `Identity`
shows possible.

### PolicyStore

The contents of an informer's cache are abstracted to a version number.
`Begin`, `ListPolicies`, `ListUpstreams`, `Publish` and `ListFails` are the
steps of `refreshErr` that other goroutines can observe, for the two listener
goroutines and the startup call. The informers' own steps (`InitialList`,
`WatchEvent`, `Resync`) are external: an informer updates its cache first and
notifies afterwards, a list blocks until its informer has synced, and a resync
replays the objects it holds to the handler. `objects` counts them, because a
resync of an empty cache replays nothing. `upAt` and `regressed` are history
variables.

### PathRules and PathRulesCheck

A request target is a sequence of written segments, and a written segment a
sequence of characters of which each was written literally or as an escape.
`NormalizePath` cuts the query off what was written (`PathOf`), refuses what it
cannot decode in one pass (`Decodable`), cuts parameters off what was decoded
(`SegmentName`) and then walks the names (`Normalized`), in the code's order. A
normalized path is a sequence of decoded segments. `PathRulesCheck` grows patterns, segments and targets one element at a
time, so that the reachable states are all inputs within the bounds; its run
does not check deadlock because enumeration stops at the bound. The references are stated
independently of the algorithms: a wildcard stands for some run of characters;
a rule matches when the path's segments can be dealt out to the rule's; a name
survives normalization when no later `..` climbs past it, and its characters are
those before a literal `?` or `#` and before a `;` of any spelling.

### Engine and PolicySet

Hosts are sequences of labels, selectors are the set of label sets they match
(or missing, or malformed), and names are numbers, since the code only compares
them. `First` is the head of the stably sorted grants; `StableAcrossReplicas`
checks that definition against the sort itself, for every listing order.
`PolicySet` lets authors create and delete objects in any order.

### Egress and Relay

`Egress` gives each dial as the set of its outcomes: the error class the handler
distinguishes, and the *leg* the outside saw (through the proxy under some
account, or directly to some address). An exchange with the proxy may break
after the proxy learned of the host.

In `Relay`, `conn[c]` is the handler's control point and locals and `out[c]` is
what the request in progress left behind: leg, records, status. An action is
what the handler does between two reads of shared state or two waits for the
network. A closed connection keeps its last `out` until its slot is reused, so
invariants see how each request ended.

Abstractions, and what they leave out:

* The HTTP transport is external. An idle connection belongs to a profile name,
  host and port; it can be taken at once or while the request's own dial is
  under way; a dial nobody waits for any more is dropped (the entry it would
  leave in the pool is one another connection can leave too). A request on an
  idle connection that turns out to be dead is tried again (`retryPooled`);
  `out` keeps the last leg that it was sent on. The pool is a
  set: equal idle connections count once, and its size limit is left out.
* The transport may return a response before it has read the request's body;
  `unread` says so, and `bodySent` is its writer catching up.
* Statuses stand for what was written, also when the client has gone. A relayed
  response of any other status than 101 counts as 200.
* The body of a 101 is the upgraded stream, so `resp.Write` (`inspect.go:220`)
  writes the status line, reads a byte of the stream or its end, writes the rest
  of the head and copies the stream to its end before the code after it runs:
  `switchProtocols`, `upgradeHead`, `upgradeCopied`, then `spliceUpgrade`;
  `upgradeFails` is an error in between.
* Whether a target parses is not modelled but for a CONNECT inside a tunnel,
  whose authority passes net/http and may fail `url.ParseRequestURI`
  (`transportFor`, 400).
* Branches the shipped wiring cannot reach are left out: no issuer, no guard,
  not ready (`serve` listens only after the startup rebuild) and an error from
  `AuthorizeRequest`.

### Splice

Bytes are abstracted to whether there are any to read. Each copy goroutine
steps through Read, touch and Write; a Write may block for as long as its peer
likes and only fails when its connection is closed or its peer has gone. The
activity channel is a counter of tokens up to two, and the idle goroutine's
`select` picks any ready case. `quiet`, a history variable, counts ticks since
the last touch, so that `ReapsOnlyTheIdle` can tell a tunnel that was reaped in
error. Its one exception is in the code: when a token is waiting and the timer
has fired as well, Go's `select` may choose the timer.

### Server

A handler is its phase, the thing it is waiting for. Phases differ in what ends
them: a deadline or the server's context (`work`), the client's connection being
closed (`read`, `splice`, `halfUp`), or only an upstream: the answer to a plain
request (`await`), which may be a 101 and go on to `splice`, the end of an
upgraded stream (`switching`), or the origin taking what its client sent
(`toOrigin`). `late` remembers the connection that the loop had in hand
when the listener was closed. Such a connection may be tracked after `drain` has
closed the others, and counting it may race `drain`'s wait; the WaitGroup's
panic on reuse is modelled (`Wake`). `DrainClosesAll` and `CrashesOnlyOnLate`
say that this is all that can go wrong there.

### Identity

A pod is on its node, in the API server and in the index at different times:
`life`, `api`, `events` and `index`. Addresses are reused as soon as their pod has
stopped, whatever the API server knows. Each step of `Identify` that reads shared
state is an action: the negative cache, the index, the live list (which matches
`status.podIP` only, not the other addresses) and the namespace labels. The
live list's `Limit` of eight is left out, since two pods never reach it. The
negative cache holds ticks left, and the sweep drops expired misses once there
are more than `SweepAt`.

### LeafIssuer and LeafSource

`LeafSource` is the abstract specification: a call asks for a name and is
answered, at one moment, with a leaf for that host, signed by a CA that was
current during the call, with at least half its life left when the call began;
or it fails. `LeafIssuer` has the two critical sections and the mint between
them, the map and the list. `ImplementsSource` is the refinement, fairness
included: a call in any of its three stages maps to one that is asked. In the
code an old CA's leaf may replace a new CA's in the cache (`Store`); the
refinement shows that no later call gets to see it.

### CABundle

CAs are numbers. Each replica loads the Secret, or generates a CA and tries to
create the Secret with it; it reloads on a timer, and a pass of the controller
reads, then creates, updates or deletes the ConfigMap of one namespace,
overtaken by the other replica or by the tenant at any point. Updates carry
a resource version (`fresh`), deletes do not. The operator takes the steps of
`docs/operations.md`; `hasty` records a promotion before the bundle had reached
every replica, pass and ConfigMap, which the document's waiting is meant to rule
out. Pods read the bundle when they start.

## Runs

| Run | Checks | Result |
| --- | --- | --- |
| `policy_store` | `TypeOK`, `CausalSnapshot`, `NeverEmptyOnceReady`, `SettledUnlessOvertaken`, `Converges` | holds |
| `path_rules` | `SegmentAgrees`, `GlobAgrees`, `NormalizeAgrees` | holds |
| `policy_set` | `AllowedIffSomePolicyAllows`, `AttributedToGranter`, `InspectionWins`, `UpgradeIsDeliberate`, `InspectedGetsCA`, `StableAcrossReplicas` | holds |
| `relay_handlers` | `GrantedEgress`, `RecordNamesEgress`, `DeniedNeverEgresses`, `GuardedDial`, `AuditedOnce`, `ReadsAtBoundary`, `PoolIsolation`, `RecordIsFinal` | holds |
| `relay_noproxy` | `NoProxyHonoured` | violated: `DialForward` does not look at noProxy |
| `splice` | `ReapsOnlyTheIdle`, `SilentTunnelEnds`, `ClosedSideEnds` | holds |
| `server` | `ReturnsEmpty`, `DrainClosesAll`, `CrashesOnlyOnLate`, `ShutdownEnds` | holds |
| `server_shutdown` | `ShutdownBounded` | violated: after the grace the clients are closed, but an upstream that neither answers nor closes holds Serve for ever |
| `identity` | `ShownIsAttributed`, `EventuallyIdentified` | holds |
| `identity_reuse` | `ReplacementIsNamed` | violated: a terminating pod that is alone in the index is named for its replacement |
| `leaf_issuer` | `CacheInStep`, `ImplementsSource` | holds |
| `ca_bundle` | `TrustedOnceLoaded`, `SignerIsStored`, `TenantDataKept`, `BundleArrives` | holds |

Each violated property states what a comment or a document says; the findings
in `PROJECT.json` quote it.

`RelayInspect.cfg` (`tlc -config RelayInspect.cfg MCRelay`, some 345,000 states)
is a larger instance of `PoolIsolation`: two interchangeable inspected connections
at once. It passes; since `PoolIsIsolated` proves the property for any number of
connections, the run that is kept has one slot.

### What the repository says and the code does not keep

Besides the three runs above that end in a violation, these configurations each
check one claim that a document or a comment makes and the model, like the code,
does not keep. TLC finds every one of them violated. The properties are at the
end of their modules.

| Configuration, module | Property | The claim | What TLC shows |
| --- | --- | --- | --- |
| `PolicyStoreEmpty.cfg`, `PolicyStore` | `KeptCurrent` | `store.go:30`: the store "keeps a snapshot current" | a rebuild that listed the last object before it was deleted stores after the rebuild for the deletion; a resync of empty caches replays nothing, so it stays |
| `PathRulesQuery.cfg`, `MCPathRules` | `NoQueryOrFragment` | `normalize.go:25-26`: the path has "no query or fragment" | the query is cut before decoding: `/b%3F` is normalized to `/b?` |
| `RelayGuard.cfg`, `MCRelay` | `GuardRefusalIs403` | `docs/policy.md:126-127`: "A `403` is a policy decision; a `502` is the relay's own problem" | on an inspected connection the guard refuses inside `RoundTrip` (`inspect.go:287`), and the handler answers 502 and records `error_upstream` |
| `RelayAudit.cfg`, `MCRelay` | `RelayedIsRecorded` | `audit.go:1`: "one structured record per relayed request" | a request that reached the proxy ends without a record: a tunnel whose 200 cannot be written (`connect.go:82`), or a plain 101 (`http.go:146`) |
| `RelayDecider.cfg`, `MCRelay` | `RecordNamesDecider` | `audit.go:4`: the record "names the policy that decided" | a plain request whose write fails is recorded under the connect decision (`http.go:128`) |
| `RelayBody.cfg`, `MCRelay` | `NothingLeftUnread` | `inspect.go:375`: "A body left half-read desynchronises the connection" | after an early response the next request is read while the transport still reads the last body (`inspect.go:205`) |
| `RelayUpgrade.cfg`, `MCRelay` | `UpgradeIsSpliced` | `inspect.go:223`: "resp.Write does not copy the upgraded stream" | the body of a 101 is that stream, and `resp.Write` copies it to its end before the client is read |
| `CABundleRotation.cfg`, `CABundle` | `RotationBreaksNobody` | `CHANGELOG.md:70-71`: "a rotation does not break running workloads" | a replica that has not reloaded signs with a CA that another has dropped from the bundle of a pod that starts then (`serve.go:361`) |
| `CABundleTenant.cfg`, `CABundle` | `TenantMapUntouched` | `controller.go:191`: "Never take over a ConfigMap this controller did not create" | `remove` deletes what became the tenant's after the read (`controller.go:220`) |

### Exceptions that the properties name

Some properties that hold do so with an exception for what the code does; each
is part of the property's definition, and a change of the code that removes or
widens it shows up. Where a document or a comment claims the property without
the exception, the last column names the property that states it so, which TLC
finds violated.

| Property | Exception | Claim without it |
| --- | --- | --- |
| `SettledUnlessOvertaken` | a slower rebuild stores an older snapshot over a newer one (`regressed`), until the next event or resync; `Converges` shows that resyncs repair it while an object of either kind is left | `KeptCurrent` |
| `AllowedIffSomePolicyAllows`, `InspectionWins` | a malformed selector fails the evaluation of all policies (`engine.go:101`, `SelectorError`): a namespace selector for every workload, a pod selector for the workloads of the namespaces selected with it | |
| `AuditedOnce` | a plain 101, and a tunnel whose 200 could not be written (`Unrecorded`) | `RelayedIsRecorded` |
| `RecordNamesEgress` | a plain request that fails on its way out, recorded under the connect decision (`Misnamed`) | `RecordNamesDecider` |
| `ReadsAtBoundary` | an early response on an inspected connection, whose body the transport still reads | `NothingLeftUnread` |
| `TrustedOnceLoaded` | a replica that has not reloaded since the Secret changed, and an operator who does not wait (`hasty`) | `RotationBreaksNobody` (which keeps `hasty`) |
| `TenantDataKept` | a delete of what was the controller's when the same pass read it | `TenantMapUntouched` |
| `ShutdownEnds` | upstreams that hold a handler for ever (`UpstreamsAnswer`) | `ShutdownBounded` |
| `ShownIsAttributed` | a view that does not show the caller live | `ReplacementIsNamed` |

`ShutdownBounded` is stated for a shutdown with a grace in which no connection was
in the accept loop's hand when the listener closed, so that its counterexample is
about an upstream and not about that race, which `DrainClosesAll` and
`CrashesOnlyOnLate` describe.

Two behaviours of the models have no property. An inspected
connection is spliced on any 101, also one that answers a request that asked for
no upgrade, which only an origin that breaks HTTP sends. And an Accept error
without a shutdown makes `Serve` wait for all connections before it returns it,
while nothing accepts new ones.

### Bounds

* `PolicyStore`: two versions and at most one object of each kind, and one
  failure (`PolicyStoreEmpty.cfg` has none: nothing need fail). An overtaking needs two goroutines and one change; the
  proofs below remove the bounds for the safety properties.
* `PathRules`: text and pattern of five characters over two letters and a star
  (enough for two middle parts that repeat and overlap), four segments. Written
  segments (`MCWrittenSegs`): empty ones, dots and parameters written literally
  and as escapes, an escaped and a literal `?`, what comes after the latter
  undecodable, and an escaped separator.
* `PolicySet`: nine policies, so 512 sets, with every host pattern kind, two
  destinations in one policy, default and explicit ports, missing, narrow,
  shared and malformed selectors.
* `Relay`: connections share only the pool, the set of transports and the
  environment, so one slot, reused for connection after connection, shows the
  behaviours of every handler, and one tenant's use of what another left in the
  pool. Two connections at once are in `RelayInspect.cfg` (symmetry is used, its
  property being an invariant) and any number in the proofs. Snapshots and two
  resolver states change back and forth without limit.
* `Splice`: an idle timeout of two ticks, so that activity can come before, at
  and after the expiry of the timer; traffic is unlimited.
* `Server`: three connections, reused without limit: one in hand at the close,
  one whose end wakes the waiter and one that is still running.
  `server_shutdown` needs one.
* `Identity`: two pods, one address that both use, a second one that only the
  index knows, and a node's address. Misses live one tick, and the sweep is
  reached at two. The run stops when both pods have come and gone, so deadlock
  is not checked.
* `LeafIssuer`: two callers, three hosts on a cache of two, two spellings of one
  of them and a blank name, one rotation and one tick, which expires an entry
  made before it.
* `CABundle`: two replicas (the chart's default), one namespace, one pod that
  restarts without limit, and three CAs: two rotations, or one after an
  initialization race. Its two violations need one rotation.

### Fairness

Every assumption is that something scheduled runs: goroutines that can take a
step, timers, and reads and writes on connections that are closed.

* `Converges`: each refresher's next step, initial lists that end and resyncs
  that recur, as informers do, while their cache holds an object. It is stated for
  behaviours in which the process lives and some object of either kind is left in
  the end: a notification of one kind rebuilds both halves of the snapshot.
  Nothing forces objects to change or lists to fail.
* `Splice`: the copies, the monitor, the return and the clock. A Write that its
  peer does not take is not fair, so `SilentTunnelEnds` covers it.
* `Server`: handlers whose wait is bounded, the loop, the shutdown goroutine and
  the waiters. Nothing is assumed of clients or upstreams; `ShutdownEnds` names
  what it needs of upstreams as a premise, and `server_shutdown` shows that it
  does need it.
* `Identity`: the node's reports, the watch, the clock, handlers and clients
  that try again; strong fairness of reading the labels, which may fail now and
  then but not always.
* `LeafIssuer`: every call runs on.
* `CABundle`: restarts, timers and the steps of a pass. That calls cease to fail
  is a premise of `BundleArrives`, like the others that keep still.

## Proofs

A theorem holds for every value of the constants that satisfies the named
assumptions, where a run covers one small instance. TLC agrees with each
invariant `IInv` below on the component's run. Every invariant and
every action property that a passing run checks is proved; what is left to the
model checker is listed at the end.

### PolicyStore

`PolicyStore_proof` proves type correctness and the three safety invariants for
every value of the bounds. None of them is inductive. The invariant is the
conjunction of the type invariant, the three properties or their
strengthenings, and: what a rebuild in progress has listed is synced and
already causally sound (`RebuildSound`); the history of upstream versions is
monotone (`HistorySound`); the startup rebuild begins only when both caches are
loaded (`StartupWaits`); and every change not yet in the snapshot is owed by
somebody, a waiting notification or a rebuild that will list it (`Covered`).
The last one is what makes `SettledUnlessOvertaken` hold (theorem
`NoChangeLost`).

### Engine and PolicySet

For every pool, workload and request, grants are additive, inspection wins, and
inspected workloads get the CA; the first two name the one exception, a
malformed selector that is looked at. These rest on one lemma: what a set of
policies matches is the union of what its members match.

`DecisionsAreAttributed` and `UpgradesAreDeliberate` need more: that the sorted
grants have a head. The order compares rank, name and index, each a number, so a
non-empty set of grants has a least one (`LeastNumber`, from the well-foundedness
of the naturals, applied three times), and it is a single one because names are
unique. `PoolAssumption` says that names are unique, as the API server keeps
them, and that a destination has one of the two modes; `RequestsAssumption` gives
requests their shape.

`ReplicasAgree` is about sequences: whatever order a cache lists the policies
in, the stable sort of the grants is the same. The loops of `AuthorizeConnect`
are recursive functions of a position, so a fact about them is proved by
induction over a set of positions (`UpTo`: a set that holds 0 and, with a
position, the next, holds all), which needs no induction rule with an operator
as its parameter. By it `Hits` and `Listed` hold the matched grants, each once,
those of one policy in the order of its list. A stable sort puts an element
where the number of elements that go before it says (`Place`); a total order
that is broken by position gives distinct places, which fill the positions
(`PlacesAreDistinct`), so the sorted sequence has the same elements in the
order of `Less` (`SortIsStable`), and within one policy in the order of the
list. That is `Before`, and unique names make it one order for all lists.

### PathRules

The theorems hold for every target, pattern, segment, rule and path, not only
the enumerated ones; `SegmentsAssumption` says that segments are made of
characters.

* Normalization (`NormalizationKeepsWhatSurvives`). The loop's invariant
  (`Agreed`) ties its list to the reference after each segment: a climb above
  the root has failed on both sides; otherwise the list is as long as the path
  so far is deep, and holds at each level the one name that reached that level
  and has not been climbed past since. That the names the loop walks are the
  reference's, characters cut at the query and at the parameter, is shown
  separately, from what `Until` returns. Nothing is claimed of normalizing twice: a
  decoded `?` would be read as a query the second time (`NoQueryOrFragment`).
* Segments (`SegmentsMatchTheirMeaning`). The matcher scans for the leftmost
  occurrence of each middle part; the reference lets each star stand for any
  run of characters. The scan's invariant (`ScanOK`) says that the segment
  matches exactly if what is left of it matches what is left of the pattern.
  Leftmost is enough because the star that comes next can make up for
  everything that a later occurrence would have skipped.
* Rules (`RulesMatchTheirMeaning`). The recursion over the rest of the pattern
  and of the path is shown, downwards from their ends, to hold exactly when
  the rest of the path can be dealt out to the rest of the pattern (`Deals`).

### Relay

`IInv` says of every handler, at each of its control points, what must be true
of its locals and of what its request left outside:

* `OutOK`: what left was judged and allowed, its leg names the request's host
  and an account of the profile that decided, and a record that was written
  repeats the decision;
* `PointOK`: which points have nothing outside yet, which have no record yet,
  and which are only reached when both are settled;
* `RightOK`: at a dial the request was authorized, the profile in hand is one
  that some snapshot holds under the deciding name, and the addresses in hand
  passed the guard;
* `ReadOK` and `TransportOK`: when a body may still be unread, and that a
  transport exists for the profile a round trip uses.

`EntryOK` says the same of the pool: an idle connection was opened under an
account of its own profile name, to its own host, at a checked address.
Handlers meet only in the pool, to which a step adds only sound entries, and in
the set of transports, which grows, so every action has one lemma about its own
handler, and `Inductive` combines them. From `Spec => []IInv`
(`HandlersKnowTheirPlace`) follow all the properties that the run checks. The
action property `RecordIsFinal` needs, besides, that each step changes only its
own handler's part and forgets no leg (`Keeps`, one lemma per kind of step);
`IInv` says that nothing is recorded before a handler is done, so that a change
never meets a record. `RefusalsAreTold` proves what the code does with the guard's
refusals, a 403 on tunnels and plain requests and a 502 on inspected ones
(`RefusalTold`); what the document says of them is `GuardRefusalIs403`, which is
violated.

Two assumptions: `RequestsAssumption` is the shape of requests, in which a
CONNECT carries no body, and `SnapshotsAssumption` says that a snapshot's
policies have unique names. Nothing is assumed of the order of snapshots, of
the resolver, or of who `Identify` names.

### Server and Splice

The WaitGroup's counter is the number of live handlers (`Counted`); the
connection in the loop's hand has no handler yet (`Held`); a connection is open
only with its handler or in that hand, and tracked but for one step (`OpenHeld`);
when Serve is through `wg.Wait` no handler is left (`ServeWaits`), and when drain
is, only that of a connection accepted as the listener closed (`DrainWaits`). With
them
`ReturnsEmpty`, `DrainClosesAll` and `CrashesOnlyOnLate` hold for any finite
number of connections (`ConnsAssumption`).

`OnlyTheIdleAreReaped` is the action property of `Splice`, for any positive idle
timeout (`IdleAssumption`). Its invariant, `Clocks`, relates the idle
goroutine's timer, the tokens in the channel and the time since the last touch:
unless a token is still waiting to reset the timer, it has not run for longer
than the tunnel has been quiet.

### Identity

A call looks up an address of its own pod (`LooksForOwn`); the pod it found
shares an address with it, and is the caller itself if the view that decided
showed the caller live (`FoundOnAddress`); and no host-network pod is named
(`NamedOffNode`). `FamiliesAssumption` states what a cluster's addressing
guarantees: what is one pod's `status.podIP` is never another's second address,
and no pod is given a node's address. It is needed: without the first half TLC
finds `ShownIsAttributed` violated.

### LeafIssuer

The list holds the elements of the map, each host once (`InStep`), so that
moving an element to the front, eviction and expiry, which touch the list and
then the map, keep both in step (`CacheStaysInStep`). `CacheIsInvisible` is the safety part of the
refinement: an initial state is one of `LeafSource`, and every step is a step of
`LeafSource` or leaves its variables alone. A hit returns a leaf that is still
good because an element tells the truth about its leaf (`Genuine`: host, signer,
expiry), which the lookup compares with the CA and the clock; a call under way
carries the CA it read and a leaf made with it (`UnderWay`).

### CABundle

`SignerIsStored` needs that a Secret holds a signing CA and that a replica runs
only with one (`SecretSigns`, `AfterSecret`). `TrustedOnceLoaded` needs
`SignerEverywhere`: as long as the operator waits, the CA that the Secret signs
with is in everything on its way from the Secret to a pod, the replicas'
bundles, the passes under way, the ConfigMap and the running pods' copies.
`TenantsKeepTheirData` is an action property about the pass that acts; it follows
from what a fresh resource version says of the ConfigMap's owner (`FreshIsOurs`).

### Model-checked only

* Liveness: `Converges`, `SilentTunnelEnds`, `ClosedSideEnds`, `ShutdownEnds`,
  `EventuallyIdentified`, `BundleArrives`, and the fairness of `LeafSource` in
  `ImplementsSource`. The prover has no rules for fairness.

## Plan

The modules are written and their safety is proved. What is left is an abstract
egress monitor (authorize, leave, record) that `Relay` refines, with the
refinement proved from `IInv`.

## Not modelled

Metrics, configuration parsing, log formatting, certificate encoding, API type
declarations and generated code, the admin server, preflight and the deployment
manifests: no state of the relay's own behind them, or none that a property
could be about. A CA Secret that does not parse is left out of `CABundle`: the
reload skips it and a start fails, and neither changes anything.
