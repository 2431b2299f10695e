---------------------------- MODULE CABundle_proof ----------------------------
(****************************************************************************)
(* Who signs with what, and who trusts it, for any number of replicas, pods *)
(* and CAs.  The invariant follows a CA on its way from the Secret through  *)
(* a replica, a pass and the ConfigMap into a pod: unless the operator was  *)
(* hasty, the signing CA is everywhere on that way.                         *)
(****************************************************************************)
EXTENDS CABundle, TLAPS

Bundles == [cur : Nat, next : Nat]
PCs == {"idle", "list", "get", "create", "update", "delete"}

TypeOK ==
    /\ secret \in Bundles /\ generated \in Nat /\ stored \in SUBSET Nat
    /\ run \in [Replicas -> {"down", "init", "up"}]
    /\ bundle \in [Replicas -> Bundles]
    /\ sync \in [Replicas -> [pc : PCs, want : BOOLEAN, pem : SUBSET Nat, fresh : BOOLEAN]]
    /\ inspected \in BOOLEAN /\ hasty \in BOOLEAN
    /\ cm \in [owner : {"none", "relay", "tenant"}, data : SUBSET Nat]
    /\ trust \in [Pods -> SUBSET Nat]

\* Once there is a Secret it has a CA to sign with, and is known to have had it.
SecretSigns ==
    /\ secret.cur = NoCA => secret = NoBundle
    /\ secret # NoBundle => secret.cur \in stored

\* A replica that creates the Secret has a CA for it; only an up one has more to
\* do with it, and nothing is published before there is a Secret.
AfterSecret ==
    /\ \A r \in Replicas :
           /\ run[r] = "init" => bundle[r].cur # NoCA
           /\ run[r] = "up" => secret # NoBundle
           /\ sync[r].pc # "idle" => run[r] = "up"
    /\ cm.owner = "relay" => secret # NoBundle
    /\ \A p \in Pods : trust[p] # {} => secret # NoBundle

\* The signing CA is wherever the bundle has come to.
SignerEverywhere ==
    /\ \A r \in Replicas :
           /\ run[r] = "up" => secret.cur \in PEM(bundle[r])
           /\ sync[r].pc # "idle" => secret.cur \in sync[r].pem
    /\ cm.owner = "relay" => secret.cur \in cm.data
    /\ \A p \in Pods : trust[p] # {} => secret.cur \in trust[p]

\* The resource version: a pass whose read is still current found what is there.
FreshIsOurs ==
    \A r \in Replicas : sync[r].fresh /\ sync[r].pc \in {"update", "delete"} => cm.owner = "relay"

IInv ==
    /\ TypeOK /\ SecretSigns /\ AfterSecret /\ SignerIsStored /\ FreshIsOurs
    /\ ~hasty => SignerEverywhere
-----------------------------------------------------------------------------
\* A bundle publishes the CA it signs with.
LEMMA SignerPublished ==
    ASSUME NEW b \in Bundles, b.cur # NoCA
    PROVE  b.cur \in PEM(b) /\ PEM(b) \in SUBSET Nat
BY DEF Bundles, PEM, NoCA

LEMMA NoBundleType == NoBundle \in Bundles /\ NoBundle.cur = NoCA
BY DEF NoBundle, Bundles, NoCA

LEMMA Initially == Init => IInv
<1> SUFFICES ASSUME Init PROVE IInv
    OBVIOUS
<1>1. TypeOK
    BY NoBundleType DEF Init, TypeOK, PCs, NoSync, NoConfigMap
<1>2. SecretSigns /\ AfterSecret /\ SignerIsStored
    BY DEF Init, SecretSigns, AfterSecret, SignerIsStored, NoSync, NoConfigMap
<1>3. FreshIsOurs /\ SignerEverywhere
    BY DEF Init, FreshIsOurs, SignerEverywhere, NoSync, NoConfigMap
<1> QED
    BY <1>1, <1>2, <1>3 DEF IInv

-----------------------------------------------------------------------------
(* The steps of a replica. *)

\* A replica comes up with the Secret's bundle, at its start or on a reload.
LEMMA LoadKeeps ==
    ASSUME IInv, NEW r \in Replicas, loadCABundle(r) \/ watchCARotation(r)
    PROVE  IInv'
<1> USE DEF IInv, caVars, clusterVars
<1>0. /\ run' = [run EXCEPT ![r] = "up"] /\ bundle' = [bundle EXCEPT ![r] = secret]
      /\ UNCHANGED <<caVars, sync, clusterVars, cm>>
      /\ secret # NoBundle
    BY DEF loadCABundle, watchCARotation, Start, AfterSecret, TypeOK
<1>1. secret.cur # NoCA /\ secret.cur \in PEM(secret)
    BY <1>0, SignerPublished DEF SecretSigns, TypeOK
<1>2. TypeOK'
    BY <1>0 DEF TypeOK
<1>3. SecretSigns' /\ SignerIsStored'
    BY <1>0 DEF SecretSigns, SignerIsStored, TypeOK
<1>4. AfterSecret'
    BY <1>0 DEF AfterSecret, TypeOK
<1>5. FreshIsOurs'
    BY <1>0 DEF FreshIsOurs
<1>6. ~hasty' => SignerEverywhere'
    BY <1>0, <1>1 DEF SignerEverywhere, TypeOK, PEM
<1> QED
    BY <1>2, <1>3, <1>4, <1>5, <1>6

LEMMA GenerateKeeps ==
    ASSUME IInv, NEW r \in Replicas, GenerateCA(r)
    PROVE  IInv'
<1> USE DEF IInv, GenerateCA, clusterVars
<1>1. TypeOK'
    BY DEF TypeOK, Bundles, NoBundle, NoCA
<1>2. bundle'[r].cur # NoCA
    BY DEF TypeOK, NoBundle, NoCA
<1>3. SecretSigns' /\ SignerIsStored' /\ FreshIsOurs'
    BY DEF SecretSigns, SignerIsStored, FreshIsOurs, TypeOK
<1>4. AfterSecret'
    BY <1>2 DEF AfterSecret, TypeOK
<1>5. ~hasty' => SignerEverywhere'
    BY DEF SignerEverywhere, TypeOK, PEM
<1> QED
    BY <1>1, <1>3, <1>4, <1>5

\* The replica that creates the Secret is the first to come up.
LEMMA InitSecretKeeps ==
    ASSUME IInv, NEW r \in Replicas, initCASecret(r)
    PROVE  IInv'
<1> USE DEF IInv, initCASecret, clusterVars
<1>1. CASE secret = NoBundle
    <2>1. /\ \A q \in Replicas : run[q] # "up" /\ sync[q].pc = "idle"
          /\ cm.owner # "relay"
          /\ \A p \in Pods : trust[p] = {}
        BY <1>1 DEF AfterSecret
    <2>2. /\ bundle[r].cur # NoCA /\ bundle[r] \in Bundles /\ bundle[r] # NoBundle
          /\ bundle[r].cur \in PEM(bundle[r]) /\ bundle[r].cur \in Nat
        BY SignerPublished DEF AfterSecret, TypeOK, NoBundle, Bundles
    <2>3. TypeOK'
        BY <1>1, <2>2 DEF TypeOK, Start
    <2>4. SecretSigns' /\ FreshIsOurs'
        BY <1>1, <2>2 DEF SecretSigns, FreshIsOurs
    <2>5. AfterSecret' /\ SignerIsStored'
        BY <1>1, <2>1, <2>2 DEF AfterSecret, SignerIsStored, Start, TypeOK
    <2>6. SignerEverywhere'
        BY <1>1, <2>1, <2>2 DEF SignerEverywhere, Start, TypeOK
    <2> QED
        BY <2>3, <2>4, <2>5, <2>6
<1>2. CASE secret # NoBundle
    <2>1. TypeOK'
        BY <1>2, NoBundleType DEF TypeOK
    <2>2. SecretSigns' /\ FreshIsOurs' /\ SignerIsStored'
        BY <1>2 DEF SecretSigns, FreshIsOurs, SignerIsStored, TypeOK
    <2>3. AfterSecret' /\ (~hasty' => SignerEverywhere')
        BY <1>2 DEF AfterSecret, SignerEverywhere, TypeOK, PEM
    <2> QED
        BY <2>1, <2>2, <2>3
<1> QED
    BY <1>1, <1>2

LEMMA CrashKeeps ==
    ASSUME IInv, NEW r \in Replicas, Crash(r)
    PROVE  IInv'
<1> USE DEF IInv, Crash, caVars, clusterVars
<1>1. TypeOK'
    BY DEF TypeOK, NoBundle, Bundles, NoCA, NoSync, PCs
<1>2. SecretSigns' /\ SignerIsStored' /\ FreshIsOurs'
    BY DEF SecretSigns, SignerIsStored, FreshIsOurs, TypeOK, NoSync
<1>3. AfterSecret' /\ (~hasty' => SignerEverywhere')
    BY DEF AfterSecret, SignerEverywhere, TypeOK, NoSync, PEM
<1> QED
    BY <1>1, <1>2, <1>3

-----------------------------------------------------------------------------
(* The steps of a pass. *)

LEMMA SyncKeeps ==
    ASSUME IInv, NEW r \in Replicas, Sync(r)
    PROVE  IInv'
<1> USE DEF IInv, Sync, caVars, clusterVars
<1>1. PEM(bundle[r]) \in SUBSET Nat
    BY DEF PEM, TypeOK, Bundles
<1>2. TypeOK'
    BY <1>1 DEF TypeOK, NoSync, PCs
<1>3. SecretSigns' /\ SignerIsStored' /\ FreshIsOurs'
    BY DEF SecretSigns, SignerIsStored, FreshIsOurs, TypeOK, NoSync
<1>4. AfterSecret' /\ (~hasty' => SignerEverywhere')
    BY DEF AfterSecret, SignerEverywhere, TypeOK, NoSync, PEM
<1> QED
    BY <1>2, <1>3, <1>4

\* A pass that ends without a write, or is given up.
LEMMA EndKeeps ==
    ASSUME IInv, NEW r \in Replicas, End(r), UNCHANGED <<caVars, run, bundle, clusterVars>>
    PROVE  IInv'
<1> USE DEF IInv, End, caVars, clusterVars
<1>1. TypeOK'
    BY DEF TypeOK, NoSync, PCs
<1>2. SecretSigns' /\ SignerIsStored' /\ FreshIsOurs'
    BY DEF SecretSigns, SignerIsStored, FreshIsOurs, TypeOK, NoSync
<1>3. AfterSecret' /\ (~hasty' => SignerEverywhere')
    BY DEF AfterSecret, SignerEverywhere, TypeOK, NoSync, PEM
<1> QED
    BY <1>1, <1>2, <1>3

\* A write to the ConfigMap that puts nothing there without the signing CA, and
\* after which no other pass takes its read for current.
LEMMA WriteKeeps ==
    ASSUME IInv, NEW r \in Replicas, NEW map \in [owner : {"none", "relay", "tenant"}, data : SUBSET Nat],
           Write(r, map), UNCHANGED <<caVars, run, bundle, clusterVars>>,
           map.owner = "relay" => secret # NoBundle,
           ~hasty /\ map.owner = "relay" => secret.cur \in map.data
    PROVE  IInv'
<1> USE DEF IInv, Write, caVars, clusterVars
<1>1. TypeOK'
    BY DEF TypeOK, NoSync, PCs
<1>2. SecretSigns' /\ SignerIsStored'
    BY DEF SecretSigns, SignerIsStored
<1>3. FreshIsOurs'
    BY DEF FreshIsOurs, TypeOK, NoSync
<1>4. AfterSecret' /\ (~hasty' => SignerEverywhere')
    BY DEF AfterSecret, SignerEverywhere, TypeOK, NoSync, PEM
<1> QED
    BY <1>1, <1>2, <1>3, <1>4

LEMMA PassKeeps ==
    ASSUME IInv, NEW r \in Replicas, Pass(r) \/ SyncFails(r)
    PROVE  IInv'
<1> USE DEF IInv
<1>1. CASE Select(r)
    <2> USE <1>1 DEF Select, caVars, clusterVars
    <2>1. TypeOK'
        BY DEF TypeOK, PCs
    <2>2. SecretSigns' /\ SignerIsStored' /\ FreshIsOurs'
        BY DEF SecretSigns, SignerIsStored, FreshIsOurs, TypeOK
    <2>3. AfterSecret' /\ (~hasty' => SignerEverywhere')
        BY DEF AfterSecret, SignerEverywhere, TypeOK, PEM
    <2> QED
        BY <2>1, <2>2, <2>3
<1>2. CASE Get(r) /\ AfterGet(r) # "idle"
    <2> USE <1>2 DEF Get, caVars, clusterVars
    <2>1. /\ AfterGet(r) \in PCs
          /\ AfterGet(r) \in {"update", "delete"} => cm.owner = "relay"
        BY DEF AfterGet, PCs
    <2>2. TypeOK'
        BY <2>1 DEF TypeOK, PCs
    <2>3. SecretSigns' /\ SignerIsStored'
        BY DEF SecretSigns, SignerIsStored
    <2>4. FreshIsOurs'
        BY <2>1 DEF FreshIsOurs, TypeOK
    <2>5. AfterSecret' /\ (~hasty' => SignerEverywhere')
        BY DEF AfterSecret, SignerEverywhere, TypeOK, PEM
    <2> QED
        BY <2>2, <2>3, <2>4, <2>5
<1>3. CASE Create(r) /\ cm.owner = "none"
    BY <1>3, WriteKeeps DEF Create, TypeOK, AfterSecret, SignerEverywhere
<1>4. CASE Update(r) /\ sync[r].fresh
    BY <1>4, WriteKeeps DEF Update, TypeOK, AfterSecret, SignerEverywhere
<1>5. CASE Delete(r)
    BY <1>5, WriteKeeps DEF Delete, NoConfigMap
<1>6. CASE End(r) /\ UNCHANGED <<caVars, run, bundle, clusterVars>>
    BY <1>6, EndKeeps
<1> QED
    BY <1>1, <1>2, <1>3, <1>4, <1>5, <1>6 DEF Pass, SyncFails, Get, Create, Update

-----------------------------------------------------------------------------
(* The tenant, the pods and the operator. *)

LEMMA TenantKeeps ==
    ASSUME IInv, TenantTakes \/ TenantDeletes
    PROVE  IInv'
<1> USE DEF IInv, caVars, clusterVars
<1>1. PICK map \in [owner : {"none", "tenant"}, data : {{}}] : TenantWrites(map)
    BY DEF TenantTakes, TenantDeletes, NoConfigMap
<1> USE <1>1 DEF TenantWrites
<1>2. TypeOK'
    BY DEF TypeOK
<1>3. SecretSigns' /\ SignerIsStored' /\ FreshIsOurs'
    BY DEF SecretSigns, SignerIsStored, FreshIsOurs, TypeOK
<1>4. AfterSecret' /\ (~hasty' => SignerEverywhere')
    BY DEF AfterSecret, SignerEverywhere, TypeOK, PEM
<1> QED
    BY <1>2, <1>3, <1>4

LEMMA InspectKeeps ==
    ASSUME IInv, Inspect
    PROVE  IInv'
BY DEF Inspect, IInv, caVars, TypeOK, SecretSigns, SignerIsStored, FreshIsOurs, AfterSecret,
       SignerEverywhere, PEM

LEMMA PodKeeps ==
    ASSUME IInv, NEW p \in Pods, PodStarts(p)
    PROVE  IInv'
<1> USE DEF IInv, PodStarts, caVars
<1>1. TypeOK'
    BY DEF TypeOK
<1>2. SecretSigns' /\ SignerIsStored' /\ FreshIsOurs'
    BY DEF SecretSigns, SignerIsStored, FreshIsOurs
<1>3. AfterSecret' /\ (~hasty' => SignerEverywhere')
    BY DEF AfterSecret, SignerEverywhere, TypeOK, PEM
<1> QED
    BY <1>1, <1>2, <1>3

\* The upcoming CA changes nothing for those who trust the signing one.
LEMMA PrepareKeeps ==
    ASSUME IInv, Prepare
    PROVE  IInv'
<1> USE DEF IInv, Prepare, clusterVars
<1>1. TypeOK'
    BY DEF TypeOK, Bundles
<1>2. secret'.cur = secret.cur /\ secret' # NoBundle /\ secret.cur # NoCA
    BY DEF TypeOK, Bundles, SecretSigns, NoBundle, NoCA
<1>3. SecretSigns' /\ SignerIsStored' /\ FreshIsOurs'
    BY <1>2 DEF SecretSigns, SignerIsStored, FreshIsOurs
<1>4. AfterSecret' /\ (~hasty' => SignerEverywhere')
    BY <1>2 DEF AfterSecret, SignerEverywhere, PEM
<1> QED
    BY <1>1, <1>3, <1>4

\* Once the bundle has been propagated, the next CA is everywhere already.
LEMMA PromoteKeeps ==
    ASSUME IInv, Promote
    PROVE  IInv'
<1> USE DEF IInv, Promote, clusterVars
<1>1. TypeOK'
    BY DEF TypeOK, Bundles, NoCA
<1>2. secret'.cur = secret.next /\ secret' # NoBundle /\ secret.next # NoCA
    BY DEF TypeOK, Bundles, NoBundle, NoCA
<1>3. SecretSigns' /\ SignerIsStored' /\ FreshIsOurs'
    BY <1>2 DEF SecretSigns, SignerIsStored, FreshIsOurs
<1>4. AfterSecret'
    BY <1>2 DEF AfterSecret
<1>5. ASSUME ~hasty'
      PROVE  SignerEverywhere'
    <2>1. Propagated /\ secret.next \in PEM(secret)
        BY <1>2, <1>5 DEF PEM, TypeOK
    <2> QED
        BY <1>2, <2>1 DEF Propagated, SignerEverywhere, AfterSecret, PEM
<1> QED
    BY <1>1, <1>3, <1>4, <1>5

-----------------------------------------------------------------------------
LEMMA Inductive == IInv /\ [Next]_vars => IInv'
<1> SUFFICES ASSUME IInv, [Next]_vars
             PROVE  IInv'
    OBVIOUS
<1>1. CASE UNCHANGED vars
    BY <1>1 DEF vars, IInv, TypeOK, SecretSigns, SignerIsStored, FreshIsOurs, AfterSecret,
                SignerEverywhere, PEM
<1> QED
    BY <1>1, LoadKeeps, GenerateKeeps, InitSecretKeeps, CrashKeeps, SyncKeeps, PassKeeps,
       TenantKeeps, InspectKeeps, PodKeeps, PrepareKeeps, PromoteKeeps
    DEF Next, Boot

LEMMA Invariant == Spec => []IInv
BY Initially, Inductive, PTL DEF Spec

-----------------------------------------------------------------------------
\* Whatever crashes, races and rotations there are, no replica signs with a CA
\* that the Secret never held: of replicas that find no Secret, one wins.
THEOREM SignersAreStored == Spec => []SignerIsStored
<1>1. IInv => SignerIsStored
    BY DEF IInv
<1> QED
    BY <1>1, Invariant, PTL

\* With an operator who waits for the bundle to be propagated, every running pod
\* trusts what the replicas that have caught up sign with.
THEOREM LoadedIsTrusted == Spec => []TrustedOnceLoaded
<1>1. IInv => TrustedOnceLoaded
    BY DEF IInv, TrustedOnceLoaded, SignerEverywhere
<1> QED
    BY <1>1, Invariant, PTL

\* No pass of the controller overwrites a tenant's ConfigMap; the pass that takes
\* it away decided to delete it before it was the tenant's.
THEOREM TenantsKeepTheirData == Spec => TenantDataKept
<1> DEFINE Kept == cm.owner = "tenant" /\ cm' # cm =>
                       \A r \in Replicas :
                           sync'[r].pc # sync[r].pc => sync[r].pc = "delete" /\ ~sync[r].fresh
<1>1. IInv /\ [Next]_vars => [Kept]_vars
    <2> SUFFICES ASSUME IInv, Next, cm.owner = "tenant", cm' # cm,
                        NEW r \in Replicas, sync'[r].pc # sync[r].pc
                 PROVE  sync[r].pc = "delete" /\ ~sync[r].fresh
        BY DEF vars
    <2>1. ~(TenantTakes \/ TenantDeletes)
        BY DEF TenantTakes, TenantDeletes, TenantWrites, IInv, TypeOK
    <2>2. PICK q \in Replicas : Pass(q)
        BY <2>1 DEF Next, Boot, loadCABundle, GenerateCA, initCASecret, watchCARotation, Crash, Sync,
               SyncFails, End, Inspect, Prepare, Promote, PodStarts, caVars, clusterVars
    <2>3. sync[q].pc = "delete" /\ ~sync[q].fresh /\ Write(q, NoConfigMap)
        BY <2>2
        DEF Pass, Select, Get, Create, Update, Delete, End, IInv, FreshIsOurs
    <2>4. q = r
        BY <2>3 DEF Write, IInv, TypeOK
    <2> QED
        BY <2>3, <2>4
<1> QED
    BY <1>1, Invariant, PTL DEF Spec, TenantDataKept
=============================================================================
