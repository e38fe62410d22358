-------------------------- MODULE ServiceCallsProofs --------------------------
(* Theorems about ServiceCalls, for any number of calls and connections.   *)
EXTENDS ServiceCalls, FiniteSetTheorems, TLAPS

-----------------------------------------------------------------------------
(* The inductive invariant.                                                *)

\* The one call inside getService that starts a service.
Monitor ==
  \A c \in Calls :
    /\ state[c] = "start" => monitor = c
    /\ state[c] = "start" <=> instance[c] = "starting"
    /\ state[c] = "start" => serviceCache[package[c]] = Nobody

\* The running objects are the cached ones.
Cache ==
  /\ \A c \in Calls : instance[c] = "running" => serviceCache[package[c]] = c
  /\ \A p \in Packages :
       serviceCache[p] # Nobody =>
         instance[serviceCache[p]] = "running" /\ package[serviceCache[p]] = p
  /\ \A c \in Calls :
       state[c] \in {"idle", "lease", "exchange", "lookup"} => instance[c] = "none"

\* What a filter asks for.
Filters ==
  \A c \in Calls : state[c] = "idle" \/ job[c] = "filter" => package[c] = Blobstore

DroppedEnded == \A c \in dropped : state[c] = "ended"

Inv ==
  /\ TypeOK /\ Monitor /\ Cache /\ Filters
  /\ DroppedEnded /\ ConnectionsAccounted
  /\ CallsMeetRunning /\ StorageHasService

\* Initially.
LEMMA InitInv ==
  Init => Inv
<1> SUFFICES ASSUME Init PROVE Inv
  OBVIOUS
<1>1. TypeOK
  BY CallsAssumption DEF Init, TypeOK
<1>2. Monitor /\ Cache /\ Filters /\ CallsMeetRunning /\ StorageHasService
  BY DEF Init, Monitor, Cache, Filters, CallsMeetRunning, StorageHasService
<1>3. DroppedEnded /\ ConnectionsAccounted
  <2>1. Exchanging = {}
    BY DEF Init, Exchanging
  <2>2. Cardinality({}) = 0
    BY FS_EmptySet
  <2> QED BY <2>1, <2>2, CallsAssumption DEF Init, DroppedEnded, ConnectionsAccounted
<1> QED BY <1>1, <1>2, <1>3 DEF Inv

\* A call that moves outside of getService, and not to a service's method.
LEMMA RegistryKept ==
  ASSUME Inv, NEW c \in Calls, NEW s \in {"lease", "exchange", "lookup", "ended"},
         Goes(c, s), state[c] # "start",
         UNCHANGED <<registryVars, blobStorage>>,
         job' \in [Calls -> {"none", "python", "java", "filter"}],
         package' \in [Calls -> Packages],
         \A d \in Calls \ {c} : job'[d] = job[d] /\ package'[d] = package[d],
         package'[c] = package[c] \/ state[c] = "idle",
         job'[c] = "filter" => package'[c] = Blobstore,
         s \in {"lease", "exchange", "lookup"} => state[c] \in {"idle", "lease", "exchange", "lookup"}
  PROVE  /\ state' \in [Calls -> {"idle", "lease", "exchange", "lookup", "start", "invoke", "ended"}]
         /\ monitor' \in {d \in Calls : state'[d] = "start"} \cup {Nobody}
         /\ (Monitor /\ Cache /\ Filters /\ CallsMeetRunning /\ StorageHasService)'
<1>1. /\ state' = [state EXCEPT ![c] = s] /\ TypeOK
      /\ monitor' = monitor /\ instance' = instance /\ serviceCache' = serviceCache
      /\ service' = service /\ blobStorage' = blobStorage
  BY DEF Goes, registryVars, Inv
<1>2. /\ state'[c] = s /\ \A d \in Calls \ {c} : state'[d] = state[d]
      /\ state' \in [Calls -> {"idle", "lease", "exchange", "lookup", "start", "invoke", "ended"}]
  BY <1>1 DEF TypeOK
<1>3. monitor' \in {d \in Calls : state'[d] = "start"} \cup {Nobody}
  BY <1>1, <1>2 DEF TypeOK
<1>4. instance[c] = "none" => \A p \in Packages : serviceCache[p] # c
  BY CallsAssumption DEF Inv, Cache, TypeOK
<1>5. Monitor'
  BY <1>1, <1>2 DEF Inv, Monitor, TypeOK
<1>6. package'[c] = package[c] \/ instance[c] = "none"
  BY DEF Inv, Cache
<1>7. Cache'
  <2>1. \A d \in Calls : instance'[d] = "running" => serviceCache'[package'[d]] = d
    BY <1>1, <1>6 DEF Inv, Cache
  <2>2. ASSUME NEW p \in Packages, serviceCache'[p] # Nobody
        PROVE  instance'[serviceCache'[p]] = "running" /\ package'[serviceCache'[p]] = p
    <3>1. instance[serviceCache[p]] = "running" /\ package[serviceCache[p]] = p
          /\ serviceCache[p] \in Calls
      BY <1>1, <2>2 DEF Inv, Cache, TypeOK
    <3> QED BY <1>1, <1>6, <3>1
  <2>3. \A d \in Calls :
          state'[d] \in {"idle", "lease", "exchange", "lookup"} => instance'[d] = "none"
    BY <1>1, <1>2 DEF Inv, Cache
  <2> QED BY <2>1, <2>2, <2>3 DEF Cache
<1>8. Filters'
  BY <1>2 DEF Inv, Filters
<1>9. CallsMeetRunning'
  <2> SUFFICES ASSUME NEW d \in Calls, state'[d] = "invoke"
               PROVE  \E i \in Calls : /\ service'[d] = i /\ instance'[i] = "running"
                                       /\ package'[i] = package'[d]
    BY DEF CallsMeetRunning
  <2>1. d # c /\ state[d] = "invoke"
    BY <1>2
  <2>2. PICK i \in Calls : service[d] = i /\ instance[i] = "running" /\ package[i] = package[d]
    BY <2>1 DEF Inv, CallsMeetRunning
  <2>3. package'[i] = package[i]
    BY <1>6, <2>2
  <2> QED BY <1>1, <2>1, <2>2, <2>3
<1>10. StorageHasService'
  BY <1>1 DEF Inv, StorageHasService
<1> QED BY <1>2, <1>3, <1>5, <1>7, <1>8, <1>9, <1>10

\* A call that moves outside of an exchange leaves the connections alone.
LEMMA ClientKept ==
  ASSUME Inv, NEW c \in Calls, NEW s \in {"lease", "lookup", "start", "invoke", "ended"},
         Goes(c, s), state[c] \notin {"exchange", "ended"}, UNCHANGED clientVars
  PROVE  /\ leased' \subseteq Calls /\ dropped' \subseteq Calls /\ closed' \in BOOLEAN
         /\ (DroppedEnded /\ ConnectionsAccounted)'
<1>1. /\ \A d \in Calls \ {c} : state'[d] = state[d]
      /\ state'[c] = s /\ s # "exchange"
      /\ leased' = leased /\ dropped' = dropped /\ closed' = closed
  BY DEF Goes, Inv, TypeOK, clientVars
<1>2. Exchanging' = Exchanging
  BY <1>1 DEF Exchanging
<1>3. DroppedEnded'
  BY <1>1 DEF Inv, DroppedEnded, TypeOK
<1> QED BY <1>1, <1>2, <1>3 DEF Inv, TypeOK, ConnectionsAccounted

\* Every step keeps it.
LEMMA NextInv ==
  Inv /\ [Next]_vars => Inv'
<1> SUFFICES ASSUME Inv, [Next]_vars PROVE Inv'
  OBVIOUS
<1> USE DEF registryVars, clientVars
<1>1. ASSUME NEW c \in Calls, Call(c) PROVE Inv'
  <2>1. /\ state[c] = "idle"
        /\ \E s \in {"lease", "lookup", "ended"} : Goes(c, s)
        /\ UNCHANGED <<registryVars, clientVars, blobStorage>>
    BY <1>1 DEF Call, Disabled, CallPython, ServeBlob, CallJava
  <2>2. /\ job' \in [Calls -> {"none", "python", "java", "filter"}]
        /\ package' \in [Calls -> Packages]
        /\ \A d \in Calls \ {c} : job'[d] = job[d] /\ package'[d] = package[d]
        /\ job'[c] = "filter" => package'[c] = Blobstore
    <3>1. CASE Disabled(c)
      BY <3>1 DEF Disabled, Inv, TypeOK, Filters
    <3>2. CASE CallPython(c)
      BY <3>2 DEF CallPython, Inv, TypeOK, Filters
    <3>3. CASE ServeBlob(c)
      BY <3>3 DEF ServeBlob, Inv, TypeOK, Filters
    <3>4. ASSUME NEW p \in Packages, CallJava(c, p)
          PROVE  /\ job' \in [Calls -> {"none", "python", "java", "filter"}]
                 /\ package' \in [Calls -> Packages]
                 /\ \A d \in Calls \ {c} : job'[d] = job[d] /\ package'[d] = package[d]
                 /\ job'[c] = "filter" => package'[c] = Blobstore
      BY <3>4 DEF CallJava, Inv, TypeOK
    <3> QED BY <1>1, <3>1, <3>2, <3>3, <3>4 DEF Call
  <2> QED BY <2>1, <2>2, RegistryKept, ClientKept DEF Inv, TypeOK
<1>2. ASSUME NEW c \in Calls, LeaseFails(c) \/ GetNone(c) \/ Invoke(c) PROVE Inv'
  <2>1. /\ Goes(c, "ended") /\ state[c] \notin {"start", "exchange", "ended"}
        /\ UNCHANGED <<job, package, registryVars, clientVars, blobStorage>>
    BY <1>2 DEF LeaseFails, GetNone, Invoke
  <2>2. job[c] = "filter" => package[c] = Blobstore
    BY DEF Inv, Filters
  <2> QED BY <2>1, <2>2, RegistryKept, ClientKept DEF Inv, TypeOK
<1>3. ASSUME NEW c \in Calls, NEW s \in {"exchange", "ended"}, Goes(c, s),
             state[c] \in {"lease", "exchange"},
             UNCHANGED <<job, package, registryVars, blobStorage>>
      PROVE  /\ state' \in [Calls -> {"idle", "lease", "exchange", "lookup", "start", "invoke", "ended"}]
             /\ monitor' \in {d \in Calls : state'[d] = "start"} \cup {Nobody}
             /\ (Monitor /\ Cache /\ Filters /\ CallsMeetRunning /\ StorageHasService)'
  <2>1. job[c] = "filter" => package[c] = Blobstore
    BY DEF Inv, Filters
  <2> QED BY <1>3, <2>1, RegistryKept DEF Inv, TypeOK
<1>4. ASSUME NEW c \in Calls, Lease(c) PROVE Inv'
  <2>1. /\ state[c] = "lease" /\ Goes(c, "exchange") /\ ~closed
        /\ leased' = leased \cup {c} /\ dropped' = dropped /\ closed' = closed
        /\ Cardinality(leased) < MaxConnections
    BY <1>4 DEF Lease
  <2>2. state'[c] = "exchange" /\ \A d \in Calls \ {c} : state'[d] = state[d]
    BY <2>1 DEF Goes, Inv, TypeOK
  <2>3. Exchanging' = Exchanging \cup {c} /\ DroppedEnded'
    BY <2>1, <2>2 DEF Exchanging, DroppedEnded, Inv, TypeOK
  <2>4. Cardinality(leased \cup {c}) <= MaxConnections
    <3>1. IsFiniteSet(leased)
      BY CallsAssumption, FS_Subset DEF Inv, TypeOK
    <3>2. Cardinality(leased \cup {c}) \in {Cardinality(leased), Cardinality(leased) + 1}
          /\ Cardinality(leased) \in Nat
      BY <3>1, FS_AddElement, FS_CardinalityType
    <3> QED BY <2>1, <3>2, CallsAssumption
  <2>5. ConnectionsAccounted'
    BY <2>1, <2>3, <2>4 DEF Inv, ConnectionsAccounted
  <2>6. UNCHANGED <<job, package, registryVars, blobStorage>>
    BY <1>4 DEF Lease
  <2> QED BY <1>3, <2>1, <2>3, <2>5, <2>6 DEF Inv, TypeOK
<1>5. ASSUME NEW c \in Calls, Exchange(c) \/ \E body \in BOOLEAN : OtherStatus(c, body) PROVE Inv'
  <2>1. /\ state[c] = "exchange" /\ Goes(c, "ended") /\ closed' = closed
        /\ \/ leased' = leased \ {c} /\ dropped' = dropped
           \/ leased' = leased /\ dropped' = dropped \cup {c}
        /\ UNCHANGED <<job, package, registryVars, blobStorage>>
    BY <1>5 DEF Exchange, OtherStatus
  <2>2. state'[c] = "ended" /\ \A d \in Calls \ {c} : state'[d] = state[d]
    BY <2>1 DEF Goes, Inv, TypeOK
  <2>3. Exchanging' = Exchanging \ {c} /\ DroppedEnded' /\ c \notin dropped
    BY <2>1, <2>2 DEF Exchanging, DroppedEnded, Inv, TypeOK
  <2>4. ~closed => leased' = Exchanging' \cup dropped'
    BY <2>1, <2>3 DEF Inv, ConnectionsAccounted, Exchanging
  <2>5. ~closed => Cardinality(leased') <= MaxConnections
    <3>1. IsFiniteSet(leased)
      BY CallsAssumption, FS_Subset DEF Inv, TypeOK
    <3>2. leased' \subseteq leased
      BY <2>1
    <3>3. /\ Cardinality(leased') <= Cardinality(leased)
          /\ Cardinality(leased) \in Nat /\ Cardinality(leased') \in Nat
      BY <3>1, <3>2, FS_Subset, FS_CardinalityType
    <3> QED BY <3>3, CallsAssumption DEF Inv, ConnectionsAccounted
  <2>6. ConnectionsAccounted'
    BY <2>1, <2>4, <2>5 DEF ConnectionsAccounted
  <2> QED BY <1>3, <2>1, <2>3, <2>6 DEF Inv, TypeOK
<1>6. CASE Shutdown
  BY <1>6 DEF Shutdown, Inv, TypeOK, Monitor, Cache, Filters, DroppedEnded,
              ConnectionsAccounted, CallsMeetRunning, StorageHasService
<1>7. ASSUME NEW c \in Calls, Get(c) PROVE Inv'
  <2>1. /\ state' = [state EXCEPT ![c] = "start"] /\ instance' = [instance EXCEPT ![c] = "starting"]
        /\ monitor' = c /\ monitor = Nobody /\ state[c] = "lookup"
        /\ serviceCache[package[c]] = Nobody
        /\ UNCHANGED <<job, package, serviceCache, service, clientVars, blobStorage>>
        /\ Goes(c, "start")
    BY <1>7 DEF Get, Goes
  <2>2. /\ state'[c] = "start" /\ instance'[c] = "starting"
        /\ \A d \in Calls \ {c} : state'[d] = state[d] /\ instance'[d] = instance[d]
        /\ instance[c] = "none"
    BY <2>1 DEF Inv, TypeOK, Cache
  <2>3. TypeOK'
    BY <2>1, <2>2, ClientKept DEF Inv, TypeOK
  <2>4. Monitor'
    <3>1. \A d \in Calls \ {c} : state[d] # "start"
      BY <2>1, CallsAssumption DEF Inv, Monitor
    <3> QED BY <2>1, <2>2, <3>1 DEF Inv, Monitor
  <2>5. Cache'
    <3>1. \A p \in Packages : serviceCache[p] # c
      BY <2>2, CallsAssumption DEF Inv, Cache, TypeOK
    <3>2. \A p \in Packages : serviceCache[p] # Nobody => serviceCache[p] \in Calls
      BY DEF Inv, TypeOK
    <3> QED BY <2>1, <2>2, <3>1, <3>2 DEF Inv, Cache
  <2>6. Filters'
    BY <2>1, <2>2 DEF Inv, Filters
  <2>7. CallsMeetRunning' /\ StorageHasService'
    BY <2>1, <2>2 DEF Inv, CallsMeetRunning, StorageHasService
  <2> QED BY <2>1, <2>3, <2>4, <2>5, <2>6, <2>7, ClientKept DEF Inv
<1>8. ASSUME NEW c \in Calls, NEW i \in Calls, Receives(c, i),
             state[c] \in {"lookup", "start"},
             UNCHANGED <<job, package, clientVars>>,
             instance' \in [Calls -> {"none", "starting", "running", "failed"}],
             serviceCache' \in [Packages -> Calls \cup {Nobody}],
             instance'[i] = "running", package[i] = package[c], serviceCache'[package[c]] = i,
             \A d \in Calls : instance[d] = "running" => instance'[d] = "running",
             \A d \in Calls \ {c} : instance'[d] = instance[d],
             \A p \in Packages : p # package[c] => serviceCache'[p] = serviceCache[p],
             instance'[c] # "starting",
             monitor' = Nobody,
             \A d \in Calls \ {c} : state[d] # "start",
             \A d \in Calls : instance'[d] = "running" => serviceCache'[package[d]] = d,
             \A p \in Packages : serviceCache'[p] # Nobody =>
               instance'[serviceCache'[p]] = "running" /\ package[serviceCache'[p]] = p
      PROVE  Inv'
  <2>1. PICK s \in {"invoke", "ended"} :
          /\ Goes(c, s)
          /\ s = "invoke" => service' = [service EXCEPT ![c] = i] /\ blobStorage' = blobStorage
          /\ s = "ended" => service' = service /\ blobStorage' = TRUE /\ job[c] = "filter"
    BY <1>8 DEF Receives
  <2>2. /\ state'[c] = s /\ \A d \in Calls \ {c} : state'[d] = state[d]
        /\ state' \in [Calls -> {"idle", "lease", "exchange", "lookup", "start", "invoke", "ended"}]
    BY <2>1 DEF Goes, Inv, TypeOK
  <2>3. /\ service' \in [Calls -> Calls \cup {Nobody}] /\ blobStorage' \in BOOLEAN
        /\ \A d \in Calls \ {c} : service'[d] = service[d]
        /\ s = "invoke" => service'[c] = i
    BY <2>1 DEF Inv, TypeOK
  <2>4. TypeOK' /\ DroppedEnded' /\ ConnectionsAccounted'
    BY <1>8, <2>1, <2>2, <2>3, ClientKept DEF Inv, TypeOK
  <2>5. Monitor'
    BY <1>8, <2>2 DEF Inv, Monitor
  <2>6. Cache'
    BY <1>8, <2>2 DEF Inv, Cache
  <2>7. Filters'
    BY <1>8, <2>2 DEF Inv, Filters
  <2>8. CallsMeetRunning'
    <3> SUFFICES ASSUME NEW d \in Calls, state'[d] = "invoke"
                 PROVE  \E j \in Calls : /\ service'[d] = j /\ instance'[j] = "running"
                                         /\ package'[j] = package'[d]
      BY DEF CallsMeetRunning
    <3> package' = package
      BY <1>8
    <3>1. CASE d = c
      <4>1. service'[d] = i
        BY <2>2, <2>3, <3>1
      <4> QED BY <1>8, <3>1, <4>1
    <3>2. CASE d # c
      <4>1. PICK j \in Calls : service[d] = j /\ instance[j] = "running" /\ package[j] = package[d]
        BY <2>2, <3>2 DEF Inv, CallsMeetRunning
      <4>2. service'[d] = service[d]
        BY <2>3, <3>2
      <4>3. instance'[j] = "running"
        BY <1>8, <4>1
      <4> QED BY <4>1, <4>2, <4>3
    <3> QED BY <3>1, <3>2
  <2>9. StorageHasService'
    <3>1. CASE s = "ended"
      <4>1. package[c] = Blobstore
        BY <2>1, <3>1 DEF Inv, Filters
      <4> QED BY <1>8, <4>1 DEF StorageHasService
    <3>2. CASE s = "invoke"
      <4> SUFFICES ASSUME blobStorage
                   PROVE  \E j \in Calls : serviceCache'[Blobstore] = j /\ instance'[j] = "running"
        BY <2>1, <3>2 DEF StorageHasService
      <4>1. PICK j \in Calls : serviceCache[Blobstore] = j /\ instance[j] = "running"
        BY DEF Inv, StorageHasService
      <4>2. Blobstore \in Packages
        BY CallsAssumption
      <4> QED BY <1>8, <4>1, <4>2
    <3> QED BY <3>1, <3>2
  <2> QED BY <2>4, <2>5, <2>6, <2>7, <2>8, <2>9 DEF Inv
<1>9. ASSUME NEW c \in Calls, GetCached(c) PROVE Inv'
  <2> DEFINE i == serviceCache[package[c]]
  <2>1. /\ i \in Calls /\ instance[i] = "running" /\ package[i] = package[c]
        /\ state[c] = "lookup" /\ instance[c] = "none" /\ package[c] \in Packages
    BY <1>9 DEF GetCached, Inv, TypeOK, Cache
  <2>2. \A d \in Calls : state[d] # "start"
    BY <1>9, CallsAssumption DEF GetCached, Inv, Monitor
  <2>3. /\ Receives(c, i) /\ monitor = Nobody
        /\ UNCHANGED <<job, package, monitor, instance, serviceCache, clientVars>>
    BY <1>9 DEF GetCached
  <2> QED BY <1>8, <2>1, <2>2, <2>3 DEF Inv, TypeOK, Cache
<1>10. ASSUME NEW c \in Calls, Started(c) PROVE Inv'
  <2>1. /\ state[c] = "start" /\ Receives(c, c) /\ monitor' = Nobody
        /\ instance' = [instance EXCEPT ![c] = "running"]
        /\ serviceCache' = [serviceCache EXCEPT ![package[c]] = c]
        /\ UNCHANGED <<job, package, clientVars>>
    BY <1>10 DEF Started
  <2>2. /\ package[c] \in Packages /\ serviceCache[package[c]] = Nobody
        /\ \A d \in Calls \ {c} : state[d] # "start"
    BY <2>1, CallsAssumption DEF Inv, TypeOK, Monitor
  <2>3. /\ instance' \in [Calls -> {"none", "starting", "running", "failed"}]
        /\ serviceCache' \in [Packages -> Calls \cup {Nobody}]
        /\ instance'[c] = "running" /\ serviceCache'[package[c]] = c
        /\ \A d \in Calls \ {c} : instance'[d] = instance[d]
        /\ \A p \in Packages : p # package[c] => serviceCache'[p] = serviceCache[p]
    BY <2>1, <2>2 DEF Inv, TypeOK
  <2>4. \A d \in Calls : instance'[d] = "running" => serviceCache'[package[d]] = d
    <3> SUFFICES ASSUME NEW d \in Calls, instance'[d] = "running", d # c
                 PROVE  serviceCache'[package[d]] = d
      BY <2>3
    <3>1. serviceCache[package[d]] = d /\ package[d] \in Packages /\ d # Nobody
      BY <2>3, CallsAssumption DEF Inv, Cache, TypeOK
    <3> QED BY <2>2, <2>3, <3>1
  <2>5. \A p \in Packages : serviceCache'[p] # Nobody =>
          instance'[serviceCache'[p]] = "running" /\ package[serviceCache'[p]] = p
    <3> SUFFICES ASSUME NEW p \in Packages, serviceCache'[p] # Nobody, p # package[c]
                 PROVE  instance'[serviceCache'[p]] = "running" /\ package[serviceCache'[p]] = p
      BY <2>3
    <3>1. /\ serviceCache[p] \in Calls /\ instance[serviceCache[p]] = "running"
          /\ package[serviceCache[p]] = p
      BY <2>3 DEF Inv, TypeOK, Cache
    <3> QED BY <2>3, <3>1
  <2>6. \A d \in Calls : instance[d] = "running" => instance'[d] = "running"
    BY <2>3
  <2> QED BY <1>8, <2>1, <2>2, <2>3, <2>4, <2>5, <2>6
<1>11. ASSUME NEW c \in Calls, StartFails(c) PROVE Inv'
  <2>1. /\ state' = [state EXCEPT ![c] = "ended"] /\ instance' = [instance EXCEPT ![c] = "failed"]
        /\ monitor' = Nobody /\ state[c] = "start" /\ Goes(c, "ended")
        /\ UNCHANGED <<job, package, serviceCache, service, clientVars, blobStorage>>
    BY <1>11 DEF StartFails, Goes
  <2>2. /\ state'[c] = "ended" /\ instance'[c] = "failed"
        /\ \A d \in Calls \ {c} : state'[d] = state[d] /\ instance'[d] = instance[d]
        /\ instance[c] = "starting"
    BY <2>1 DEF Inv, TypeOK, Monitor
  <2>3. TypeOK'
    BY <2>1, <2>2, ClientKept DEF Inv, TypeOK
  <2>4. Monitor'
    <3>1. \A d \in Calls \ {c} : state[d] # "start"
      BY <2>1 DEF Inv, Monitor
    <3> QED BY <2>1, <2>2, <3>1 DEF Inv, Monitor
  <2>5. Cache'
    <3>1. \A p \in Packages : serviceCache[p] # c
      BY <2>2, CallsAssumption DEF Inv, Cache, TypeOK
    <3>2. \A p \in Packages : serviceCache[p] # Nobody => serviceCache[p] \in Calls
      BY DEF Inv, TypeOK
    <3> QED BY <2>1, <2>2, <3>1, <3>2 DEF Inv, Cache
  <2>6. Filters'
    BY <2>1, <2>2 DEF Inv, Filters
  <2>7. CallsMeetRunning' /\ StorageHasService'
    BY <2>1, <2>2 DEF Inv, CallsMeetRunning, StorageHasService
  <2> QED BY <2>1, <2>3, <2>4, <2>5, <2>6, <2>7, ClientKept DEF Inv
<1>12. CASE UNCHANGED vars
  BY <1>12 DEF vars, Inv, TypeOK, Monitor, Cache, Filters, DroppedEnded, Exchanging,
               ConnectionsAccounted, CallsMeetRunning, StorageHasService
<1> QED BY <1>1, <1>2, <1>4, <1>5, <1>6, <1>7, <1>9, <1>10, <1>11, <1>12 DEF Next, Http, Java

\* The invariant holds of every state.
LEMMA Invariant ==
  Spec => []Inv
<1>1. Init => Inv
  BY InitInv
<1>2. Inv /\ [Next]_vars => Inv'
  BY NextInv
<1> QED BY <1>1, <1>2, PTL DEF Spec

-----------------------------------------------------------------------------

\* Every variable keeps its type, and the monitor is held only by the call
\* that starts a service.
THEOREM TypeCorrect ==
  Spec => []TypeOK
<1>1. Inv => TypeOK
  BY DEF Inv
<1> QED BY <1>1, Invariant, PTL

\* A connection that is out of the pool is in use, or was lost with the body
\* of an answer, and no more than MaxConnections are out.
THEOREM ConnectionsAreAccounted ==
  Spec => []ConnectionsAccounted
<1>1. Inv => ConnectionsAccounted
  BY DEF Inv
<1> QED BY <1>1, Invariant, PTL

\* No second service of a package is made while one runs.
THEOREM OneServiceRuns ==
  Spec => []OneService
<1>1. Inv => OneService
  <2> SUFFICES ASSUME Inv, NEW c \in Calls, NEW d \in Calls, package[c] = package[d],
                      instance[c] = "running", instance[d] \in {"starting", "running"}
               PROVE  c = d
    BY DEF OneService
  <2>1. serviceCache[package[c]] = c /\ c # Nobody
    BY CallsAssumption DEF Inv, Cache
  <2>2. instance[d] # "starting"
    BY <2>1 DEF Inv, Monitor
  <2> QED BY <2>1, <2>2 DEF Inv, Cache
<1> QED BY <1>1, Invariant, PTL

\* A method is invoked, and the filter's storage made, only on a service of
\* the right package that has started.
THEOREM UsersServed ==
  Spec => []UsersMeetRunning
<1>1. Inv => UsersMeetRunning
  BY DEF Inv, UsersMeetRunning
<1> QED BY <1>1, Invariant, PTL

-----------------------------------------------------------------------------
(* Liveness: what a call holds, a connection or the monitor, comes back.   *)

\* A call that left "idle" moves by its own steps only.
Own(c) == Http(c) \/ Java(c)

LEMMA OwnSteps ==
  ASSUME Inv, [Next]_vars, NEW c \in Calls, state[c] \in {"exchange", "start", "invoke"}
  PROVE  state'[c] = state[c] \/ Own(c)
<1>1. state \in [Calls -> {"idle", "lease", "exchange", "lookup", "start", "invoke", "ended"}]
  BY DEF Inv, TypeOK
<1>2. ASSUME NEW d \in Calls, d # c, Call(d) \/ Http(d) \/ Java(d) PROVE state'[c] = state[c]
  BY <1>1, <1>2 DEF Call, Http, Java, Disabled, CallPython, ServeBlob, CallJava, Lease,
     LeaseFails, Exchange, OtherStatus, Get, GetCached, GetNone, Started, StartFails, Invoke,
     Receives, Goes
<1>3. ~Call(c)
  BY DEF Call, Disabled, CallPython, ServeBlob, CallJava
<1>4. CASE Shutdown \/ UNCHANGED vars
  BY <1>4 DEF Shutdown, vars
<1> QED BY <1>2, <1>3, <1>4 DEF Next, Own

\* Where its own steps lead.
LEMMA OwnEnds ==
  ASSUME Inv, NEW c \in Calls, Own(c)
  PROVE  /\ state[c] \in {"exchange", "invoke"} => state'[c] = "ended"
         /\ state[c] = "start" => state'[c] \in {"invoke", "ended"} /\ monitor' = Nobody
<1>1. state \in [Calls -> {"idle", "lease", "exchange", "lookup", "start", "invoke", "ended"}]
  BY DEF Inv, TypeOK
<1>2. CASE Http(c)
  BY <1>1, <1>2 DEF Http, Lease, LeaseFails, Exchange, OtherStatus, Goes
<1>3. CASE Java(c)
  BY <1>1, <1>3 DEF Java, Get, GetCached, GetNone, Started, StartFails, Invoke, Receives, Goes
<1> QED BY <1>2, <1>3 DEF Own

\* A call with a connection, the monitor or a service ends, whatever the others
\* do: only the wait for one of these can be long (makeSyncCall, getService,
\* invokeApiMethodJava).
THEOREM HoldersEnd ==
  FairSpec => \A c \in Calls :
    state[c] \in {"exchange", "start", "invoke"} ~> state[c] = "ended"
<1> SUFFICES ASSUME NEW c \in Calls
             PROVE  FairSpec => (state[c] \in {"exchange", "start", "invoke"}
                                   ~> state[c] = "ended")
  OBVIOUS
<1> DEFINE Exchanges == state[c] = "exchange"
           Starts == state[c] = "start"
           Invokes == state[c] = "invoke"
           Ended == state[c] = "ended"
           ExchangeStep == Exchange(c) \/ \E body \in BOOLEAN : OtherStatus(c, body)
           StartStep == Started(c) \/ StartFails(c)
<1>1. Fairness => /\ []<>(state[c] # "exchange") \/ []<><<ExchangeStep>>_vars
                  /\ []<>(state[c] # "start") \/ []<><<StartStep>>_vars
                  /\ []<>(state[c] # "invoke") \/ []<><<Invoke(c)>>_vars
  BY DEF Fairness, HolderFairness
<1>2. /\ Inv /\ Exchanges /\ [Next]_vars => Exchanges' \/ Ended'
      /\ Inv /\ Starts /\ [Next]_vars => Starts' \/ Invokes' \/ Ended'
      /\ Inv /\ Invokes /\ [Next]_vars => Invokes' \/ Ended'
  BY OwnSteps, OwnEnds
<1>3. /\ Inv /\ Exchanges /\ ExchangeStep => Ended'
      /\ Inv /\ Starts /\ StartStep => Invokes' \/ Ended'
      /\ Inv /\ Invokes /\ Invoke(c) => Ended'
  BY OwnEnds DEF Own, Http, Java
<1>4. /\ state[c] \in {"exchange", "start", "invoke"} => Exchanges \/ Starts \/ Invokes
      /\ Exchanges => ~(state[c] # "exchange")
      /\ Starts => ~(state[c] # "start")
      /\ Invokes => ~(state[c] # "invoke")
      /\ Ended <=> state[c] = "ended"
  OBVIOUS
<1> HIDE DEF Exchanges, Starts, Invokes, Ended, ExchangeStep, StartStep
<1>5. FairSpec => (Exchanges ~> Ended)
  BY <1>1, <1>2, <1>3, <1>4, Invariant, PTL DEF FairSpec, Spec
<1>6. FairSpec => (Invokes ~> Ended)
  BY <1>1, <1>2, <1>3, <1>4, Invariant, PTL DEF FairSpec, Spec
<1>7. FairSpec => (Starts ~> (Invokes \/ Ended))
  BY <1>1, <1>2, <1>3, <1>4, Invariant, PTL DEF FairSpec, Spec
<1> QED
  BY <1>4, <1>5, <1>6, <1>7, PTL

\* The monitor of getService comes back time and again, also when a service
\* does not start.
THEOREM MonitorComesBack == FairSpec => []<>(monitor = Nobody)
<1> DEFINE Holds(c) == monitor = c /\ state[c] = "start"
           Free == monitor = Nobody
<1>1. ASSUME NEW c \in Calls PROVE FairSpec => [](Holds(c) => <>Free)
  <2> DEFINE StartStep == Started(c) \/ StartFails(c)
  <2>1. Fairness => ([]<>(state[c] # "start") \/ []<><<StartStep>>_vars)
    BY DEF Fairness, HolderFairness
  <2>2. Inv /\ Inv' /\ Holds(c) /\ [Next]_vars => Holds(c)' \/ Free'
    <3> SUFFICES ASSUME Inv, Inv', Holds(c), [Next]_vars, ~Free' PROVE Holds(c)'
      OBVIOUS
    <3>1. ~Own(c)
      BY OwnEnds
    <3>2. state'[c] = "start"
      BY <3>1, OwnSteps
    <3> QED
      BY <3>2 DEF Inv, Monitor
  <2>3. Inv /\ Holds(c) /\ StartStep => Free'
    BY OwnEnds DEF Own, Java
  <2>4. Holds(c) => ~(state[c] # "start")
    OBVIOUS
  <2> HIDE DEF Holds, Free, StartStep
  <2> QED
    BY <2>1, <2>2, <2>3, <2>4, Invariant, PTL DEF FairSpec, Spec
<1>2. Inv => Free \/ \E c \in Calls : Holds(c)
  BY DEF Inv, TypeOK
<1>3. FairSpec => [](\A c \in Calls : (Holds(c) => <>Free))
  <2>1. FairSpec => \A c \in Calls : [](Holds(c) => <>Free)
    BY <1>1
  <2> HIDE DEF Holds, Free
  <2>2. (\A c \in Calls : [](Holds(c) => <>Free))
          => [](\A c \in Calls : (Holds(c) => <>Free))
    OBVIOUS
  <2> QED
    BY <2>1, <2>2
<1>4. Free <=> monitor = Nobody
  OBVIOUS
<1> HIDE DEF Holds, Free
<1>5. (\A c \in Calls : (Holds(c) => <>Free)) => ((\E c \in Calls : Holds(c)) => <>Free)
  OBVIOUS
<1> QED
  BY <1>2, <1>3, <1>4, <1>5, Invariant, PTL DEF FairSpec

=============================================================================
