------------------------------- MODULE CABundle -------------------------------
(****************************************************************************)
(* The relay CA and the trust in it: loadCABundle, initCASecret and         *)
(* watchCARotation of cmd/relay/serve.go, which keep what a replica signs   *)
(* with, and Sync of internal/cabundle/controller.go, which publishes the   *)
(* CAs to trust in a ConfigMap that tenants mount.  Every replica runs both *)
(* on timers of its own.  The Secret, the ConfigMap of one namespace, its   *)
(* tenant and the operator who rotates the CA (docs/operations.md) make up  *)
(* the rest.                                                                *)
(*                                                                          *)
(* CAs are numbered as they are generated; PEM is the set of CAs in a       *)
(* bundle.  Keys and encodings are left out, and so is a Secret that does   *)
(* not parse.                                                               *)
(****************************************************************************)
EXTENDS Naturals

CONSTANTS
    Replicas,
    Pods,       \* pods of the tenant
    MaxCAs      \* bound: CAs ever generated

ASSUME MaxCAsAssumption == MaxCAs \in Nat

CAs == 1 .. MaxCAs
NoCA == 0
NoBundle == [cur |-> NoCA, next |-> NoCA]

VARIABLES
    secret,     \* the CA Secret, NoBundle when there is none
    generated,  \* how many CAs have been generated
    run,        \* per replica: "down", "init" (creating the Secret) or "up"
    bundle,     \* per replica: what its issuer holds
    sync,       \* per replica: the controller's pass under way
    inspected,  \* whether some policy inspects the namespace
    cm,         \* the ConfigMap: [owner, data]; owner "none" when there is none
    trust,      \* per pod: the CAs it read when it started, {} before
    hasty,      \* the operator promoted a CA before everyone had published it
    stored      \* the CAs the Secret has signed with so far

vars == <<secret, generated, run, bundle, sync, inspected, cm, trust, hasty, stored>>

\* Mutant of PEM: only the CA that signs is published.
PEMCurrent(b) == {b.cur} \ {NoCA}

PEM(b) == {b.cur, b.next} \ {NoCA}

NoConfigMap == [owner |-> "none", data |-> {}]

\* want, pem: what the pass set out with; fresh: nobody has
\* written the ConfigMap since it read it.
NoSync == [pc |-> "idle", want |-> FALSE, pem |-> {}, fresh |-> FALSE]

Init ==
    /\ secret = NoBundle /\ generated = 0 /\ stored = {}
    /\ run = [r \in Replicas |-> "down"]
    /\ bundle = [r \in Replicas |-> NoBundle]
    /\ sync = [r \in Replicas |-> NoSync]
    /\ inspected \in BOOLEAN
    /\ cm = NoConfigMap
    /\ trust = [p \in Pods |-> {}]
    /\ hasty = FALSE

caVars == <<secret, generated, stored, hasty>>
clusterVars == <<inspected, trust>>

-----------------------------------------------------------------------------
(* A replica starts, reloads and dies. *)

Start(r, b) ==
    /\ run' = [run EXCEPT ![r] = "up"]
    /\ bundle' = [bundle EXCEPT ![r] = b]

loadCABundle(r) ==
    /\ run[r] = "down" /\ secret # NoBundle
    /\ Start(r, secret)
    /\ UNCHANGED <<caVars, sync, clusterVars, cm>>

\* There is no Secret yet: a CA is generated to create it with.
GenerateCA(r) ==
    /\ run[r] = "down" /\ secret = NoBundle /\ generated < MaxCAs
    /\ generated' = generated + 1
    /\ run' = [run EXCEPT ![r] = "init"]
    /\ bundle' = [bundle EXCEPT ![r] = [NoBundle EXCEPT !.cur = generated + 1]]
    /\ UNCHANGED <<secret, stored, hasty, sync, clusterVars, cm>>

\* Mutant of initCASecret: a Secret that already exists is as good as created.
initCASecretAnyway(r) ==
    /\ run[r] = "init"
    /\ secret' = IF secret = NoBundle THEN bundle[r] ELSE secret
    /\ stored' = IF secret = NoBundle THEN stored \cup {bundle[r].cur} ELSE stored
    /\ Start(r, bundle[r])
    /\ UNCHANGED <<generated, hasty, sync, clusterVars, cm>>

\* The first replica to create the Secret starts with its CA; another one exits.
initCASecret(r) ==
    /\ run[r] = "init"
    /\ IF secret = NoBundle
       THEN /\ secret' = bundle[r]
            /\ stored' = stored \cup {bundle[r].cur}
            /\ Start(r, bundle[r])
       ELSE /\ run' = [run EXCEPT ![r] = "down"]
            /\ bundle' = [bundle EXCEPT ![r] = NoBundle]
            /\ UNCHANGED <<secret, stored>>
    /\ UNCHANGED <<generated, hasty, sync, clusterVars, cm>>

\* Mutant of watchCARotation: only the signing CA is compared.
watchCARotationCurrent(r) ==
    /\ run[r] = "up" /\ bundle[r].cur # secret.cur
    /\ bundle' = [bundle EXCEPT ![r] = secret]
    /\ UNCHANGED <<caVars, run, sync, clusterVars, cm>>

\* Reading the Secret and swapping the bundle are one step: nobody else swaps it.
watchCARotation(r) ==
    /\ run[r] = "up" /\ bundle[r] # secret
    /\ bundle' = [bundle EXCEPT ![r] = secret]
    /\ UNCHANGED <<caVars, run, sync, clusterVars, cm>>

Crash(r) ==
    /\ run[r] # "down"
    /\ run' = [run EXCEPT ![r] = "down"]
    /\ bundle' = [bundle EXCEPT ![r] = NoBundle]
    /\ sync' = [sync EXCEPT ![r] = NoSync]
    /\ UNCHANGED <<caVars, clusterVars, cm>>

-----------------------------------------------------------------------------
(* The controller's pass over the namespace. *)

\* A write to the ConfigMap makes what the other passes read out of date.
Write(r, map) ==
    /\ cm' = map
    /\ sync' = [q \in Replicas |-> IF q = r THEN NoSync ELSE [sync[q] EXCEPT !.fresh = FALSE]]

End(r) == sync' = [sync EXCEPT ![r] = NoSync] /\ UNCHANGED cm

\* A pass takes the bundle of its beginning.
Sync(r) ==
    /\ run[r] = "up" /\ sync[r].pc = "idle"
    /\ sync' = [sync EXCEPT ![r] = [NoSync EXCEPT !.pc = "list", !.pem = PEM(bundle[r])]]
    /\ UNCHANGED <<caVars, run, bundle, clusterVars, cm>>

\* The namespaces are listed and matched with the policies of that moment.
Select(r) ==
    /\ sync[r].pc = "list"
    /\ sync' = [sync EXCEPT ![r].pc = "get", ![r].want = inspected]
    /\ UNCHANGED <<caVars, run, bundle, clusterVars, cm>>

\* What publish or remove goes on to do with the ConfigMap it read.
AfterGet(r) ==
    IF sync[r].want
    THEN CASE cm.owner = "none" -> "create"
           [] cm.owner = "relay" /\ cm.data # sync[r].pem -> "update"
           [] OTHER -> "idle"
    ELSE IF cm.owner = "relay" THEN "delete" ELSE "idle"

\* Mutant of Get: whatever is there is the controller's.
GetUnlabelled(r) ==
    /\ sync[r].pc = "get"
    /\ \/ /\ cm.owner # "none" /\ sync[r].want
          /\ sync' = [sync EXCEPT ![r].pc = "update", ![r].fresh = TRUE]
          /\ UNCHANGED cm
       \/ End(r)
    /\ UNCHANGED <<caVars, run, bundle, clusterVars>>

Get(r) ==
    /\ sync[r].pc = "get"
    /\ IF AfterGet(r) = "idle" THEN End(r)
       ELSE sync' = [sync EXCEPT ![r].pc = AfterGet(r), ![r].fresh = TRUE] /\ UNCHANGED cm
    /\ UNCHANGED <<caVars, run, bundle, clusterVars>>

\* AlreadyExists is no error, and nothing is written.
Create(r) ==
    /\ sync[r].pc = "create"
    /\ IF cm.owner = "none" THEN Write(r, [owner |-> "relay", data |-> sync[r].pem]) ELSE End(r)
    /\ UNCHANGED <<caVars, run, bundle, clusterVars>>

\* The resource version of the Get must still be the ConfigMap's.
Update(r) ==
    /\ sync[r].pc = "update"
    /\ IF sync[r].fresh THEN Write(r, [cm EXCEPT !.data = sync[r].pem]) ELSE End(r)
    /\ UNCHANGED <<caVars, run, bundle, clusterVars>>

\* No precondition: what is there by now goes.
Delete(r) ==
    /\ sync[r].pc = "delete"
    /\ Write(r, NoConfigMap)
    /\ UNCHANGED <<caVars, run, bundle, clusterVars>>

\* A call fails; the pass goes on to the other namespaces.
SyncFails(r) ==
    /\ sync[r].pc # "idle"
    /\ End(r)
    /\ UNCHANGED <<caVars, run, bundle, clusterVars>>

-----------------------------------------------------------------------------
(* The tenant and the operator. *)

TenantWrites(map) ==
    /\ cm' = map
    /\ sync' = [r \in Replicas |-> [sync[r] EXCEPT !.fresh = FALSE]]
    /\ UNCHANGED <<caVars, run, bundle, clusterVars>>

\* The tenant creates a ConfigMap of the same name, or takes the label off.
TenantTakes == cm.owner # "tenant" /\ TenantWrites([owner |-> "tenant", data |-> {}])

TenantDeletes == cm.owner # "none" /\ TenantWrites(NoConfigMap)

\* Policies come to inspect the namespace, or cease to.
Inspect ==
    /\ inspected' = ~inspected
    /\ UNCHANGED <<caVars, run, bundle, sync, cm, trust>>

\* A pod reads the bundle when it starts, and never again.
PodStarts(p) ==
    /\ cm.owner = "relay"
    /\ trust' = [trust EXCEPT ![p] = cm.data]
    /\ UNCHANGED <<caVars, run, bundle, sync, cm, inspected>>

\* Step 1: publish the upcoming CA.
Prepare ==
    /\ secret # NoBundle /\ secret.next = NoCA /\ generated < MaxCAs
    /\ generated' = generated + 1
    /\ secret' = [secret EXCEPT !.next = generated + 1]
    /\ UNCHANGED <<stored, hasty, run, bundle, sync, clusterVars, cm>>

\* The Secret's bundle is in every replica, in every pass and in the ConfigMap.
Propagated ==
    /\ \A r \in Replicas :
           /\ run[r] = "up" => bundle[r] = secret
           /\ sync[r].pc # "idle" => sync[r].pem = PEM(secret)
    /\ cm.owner = "relay" => cm.data = PEM(secret)

\* Steps 2 and 3: once every pod has been restarted, the upcoming CA signs.
Promote ==
    /\ secret.next # NoCA
    /\ \A p \in Pods : trust[p] # {} => secret.next \in trust[p]
    /\ secret' = [cur |-> secret.next, next |-> NoCA]
    /\ stored' = stored \cup {secret.next}
    /\ hasty' = (hasty \/ ~Propagated)
    /\ UNCHANGED <<generated, run, bundle, sync, clusterVars, cm>>

-----------------------------------------------------------------------------
Boot(r) == loadCABundle(r) \/ GenerateCA(r) \/ initCASecret(r)
Pass(r) == Select(r) \/ Get(r) \/ Create(r) \/ Update(r) \/ Delete(r)

Next ==
    \/ \E r \in Replicas :
           Boot(r) \/ watchCARotation(r) \/ Crash(r) \/ Sync(r) \/ Pass(r) \/ SyncFails(r)
    \/ TenantTakes \/ TenantDeletes \/ Inspect \/ Prepare \/ Promote
    \/ \E p \in Pods : PodStarts(p)

\* Replicas are restarted, their timers fire and their calls return.
Fairness ==
    \A r \in Replicas : WF_vars(Boot(r)) /\ WF_vars(watchCARotation(r)) /\ WF_vars(Sync(r) \/ Pass(r))

Spec == Init /\ [][Next]_vars /\ Fairness

-----------------------------------------------------------------------------
(* Properties. *)

\* docs/operations.md: "Publishing the next one before signing with it is the
\* whole point".  A replica that has caught up with the Secret signs with a CA
\* that every running pod trusts, through restarts, passes that overtake each
\* other and rotations one after the other, unless the operator promoted a CA
\* that some replica, pass or ConfigMap did not have yet.
TrustedOnceLoaded ==
    \A r \in Replicas, p \in Pods :
        run[r] = "up" /\ bundle[r] = secret /\ trust[p] # {} /\ ~hasty => secret.cur \in trust[p]

\* serve.go: replicas that find no Secret at the same time must not each sign
\* with a CA of their own.
SignerIsStored == \A r \in Replicas : run[r] = "up" => bundle[r].cur \in stored

\* controller.go: "Never take over a ConfigMap this controller did not create."
\* The pass that changes a ConfigMap of the tenant's is one that deletes it, and
\* that found the controller's when it read it.
TenantDataKept ==
    [][cm.owner = "tenant" /\ cm' # cm =>
           \A r \in Replicas :
               sync'[r].pc # sync[r].pc => sync[r].pc = "delete" /\ ~sync[r].fresh]_vars

Settled ==
    /\ inspected /\ cm.owner # "tenant"
    /\ \A r \in Replicas : run[r] = "up"

\* controller.go: once policies, tenant and replicas keep still and calls succeed,
\* the namespace gets the bundle that the Secret holds, whatever failed, crashed or
\* was overtaken before, and gets it back when it is deleted.
BundleArrives ==
    <>[]Settled /\ <>[][\A r \in Replicas : SyncFails(r) => Pass(r)]_vars =>
        []<>(cm.owner = "relay" /\ cm.data = PEM(secret))

-----------------------------------------------------------------------------
(* What the repository says of the CA and the code does not keep. *)

\* CHANGELOG.md: "the upcoming CA is published for trust before it signs anything,
\* so a rotation does not break running workloads".  Every replica signs with a CA
\* that every running pod trusts, if the operator follows docs/operations.md.
RotationBreaksNobody ==
    \A r \in Replicas, p \in Pods :
        run[r] = "up" /\ trust[p] # {} /\ ~hasty => bundle[r].cur \in trust[p]

\* controller.go: "Never take over a ConfigMap this controller did not create."  No
\* pass changes a ConfigMap of the tenant's.
TenantMapUntouched ==
    [][cm.owner = "tenant" /\ cm' # cm => \A r \in Replicas : sync'[r].pc = sync[r].pc]_vars
=============================================================================
