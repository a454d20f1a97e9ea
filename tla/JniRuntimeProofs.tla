---------------------------- MODULE JniRuntimeProofs ----------------------------
(***************************************************************************)
(* Proofs about JniRuntime, for every set of isolates and threads.         *)
(***************************************************************************)
EXTENDS JniRuntime, TLAPS

USE RuntimeAssumption DEF Item, Answers, Goto, Answer, spawnVars, cacheVars

(* Every isolate stays in one of the steps of SpawnJvm or of a generated function. *)
LEMMA SpawnType ==
  ASSUME TypeOK, NEW i \in Isolate, Spawn(i) \/ SpawnJvm(i)
  PROVE  TypeOK'
<1>1. CASE Spawn(i)
  BY <1>1 DEF Spawn, TypeOK, SpawnStep
<1>2. CASE SpawnAcquire(i)
  BY <1>2 DEF SpawnAcquire, TypeOK, SpawnStep
<1>3. CASE SpawnCheck(i)
  BY <1>3 DEF SpawnCheck, TypeOK, SpawnStep
<1>4. CASE CreateVM(i)
  BY <1>4 DEF CreateVM, TypeOK, SpawnStep
<1>5. CASE CreateVMFails(i)
  BY <1>5 DEF CreateVMFails, TypeOK, SpawnStep
<1>6. CASE InitAllLocks(i)
  BY <1>6 DEF InitAllLocks, TypeOK, SpawnStep
<1>7. CASE InitExceptionHandling(i)
  BY <1>7 DEF InitExceptionHandling, TypeOK, SpawnStep
<1>8. CASE SpawnRelease(i)
  BY <1>8 DEF SpawnRelease, TypeOK, SpawnStep
<1>9. QED
  BY <1>1, <1>2, <1>3, <1>4, <1>5, <1>6, <1>7, <1>8 DEF SpawnJvm

LEMMA UseType ==
  ASSUME TypeOK, NEW i \in Isolate, Use(i) \/ Generated(i)
  PROVE  TypeOK'
<1>1. CASE Use(i)
  BY <1>1 DEF Use, TypeOK, UseStep
<1>2. CASE LoadEnv(i)
  BY <1>2 DEF LoadEnv, TypeOK, UseStep
<1>3. CASE Check(i)
  BY <1>3 DEF Check, Advance, TypeOK, UseStep
<1>4. CASE Acquire(i)
  BY <1>4 DEF Acquire, TypeOK, UseStep
<1>5. CASE Recheck(i)
  BY <1>5 DEF Recheck, TypeOK, UseStep
<1>6. CASE Load(i)
  BY <1>6 DEF Load, TypeOK, UseStep
<1>7. CASE Release(i)
  BY <1>7 DEF Release, Advance, TypeOK, UseStep
<1>8. CASE CallJava(i)
  BY <1>8 DEF CallJava, TypeOK, UseStep
<1>9. CASE GetExceptionDetails(i)
  BY <1>9 DEF GetExceptionDetails, TypeOK, UseStep
<1>10. QED
  BY <1>1, <1>2, <1>3, <1>4, <1>5, <1>6, <1>7, <1>8, <1>9 DEF Generated

(* spawnLock excludes every other isolate from the creation. *)
LEMMA SpawnMutexSpawn ==
  ASSUME TypeOK, SpawnMutex, VmInv, NEW i \in Isolate,
         Spawn(i) \/ SpawnJvm(i)
  PROVE  SpawnMutex'
<1>1. CASE Spawn(i)
  BY <1>1 DEF Spawn, TypeOK, SpawnMutex, HoldsSpawnLock
<1>2. CASE SpawnAcquire(i)
  BY <1>2 DEF SpawnAcquire, TypeOK, SpawnMutex, HoldsSpawnLock
<1>3. CASE SpawnCheck(i)
  BY <1>3 DEF SpawnCheck, TypeOK, SpawnMutex, HoldsSpawnLock
<1>4. CASE CreateVM(i)
  BY <1>4 DEF CreateVM, TypeOK, SpawnMutex, HoldsSpawnLock
<1>5. CASE CreateVMFails(i)
  BY <1>5 DEF CreateVMFails, TypeOK, SpawnMutex, HoldsSpawnLock
<1>6. CASE InitAllLocks(i)
  BY <1>6 DEF InitAllLocks, TypeOK, SpawnMutex, HoldsSpawnLock
<1>7. CASE InitExceptionHandling(i)
  BY <1>7 DEF InitExceptionHandling, TypeOK, SpawnMutex, HoldsSpawnLock
<1>8. CASE SpawnRelease(i)
  BY <1>8 DEF SpawnRelease, TypeOK, SpawnMutex, HoldsSpawnLock
<1>9. QED
  BY <1>1, <1>2, <1>3, <1>4, <1>5, <1>6, <1>7, <1>8 DEF SpawnJvm

(* The Java VM that was not there at the second check is not there at the creation. *)
LEMMA VmSpawn ==
  ASSUME TypeOK, SpawnMutex, VmInv, NEW i \in Isolate,
         Spawn(i) \/ SpawnJvm(i)
  PROVE  VmInv'
<1>1. CASE Spawn(i)
  BY <1>1 DEF Spawn, TypeOK, SpawnMutex, VmInv, HoldsSpawnLock
<1>2. CASE SpawnAcquire(i)
  BY <1>2 DEF SpawnAcquire, TypeOK, SpawnMutex, VmInv, HoldsSpawnLock
<1>3. CASE SpawnCheck(i)
  BY <1>3 DEF SpawnCheck, TypeOK, SpawnMutex, VmInv, HoldsSpawnLock
<1>4. CASE CreateVM(i)
  BY <1>4 DEF CreateVM, TypeOK, SpawnMutex, VmInv, HoldsSpawnLock
<1>5. CASE CreateVMFails(i)
  BY <1>5 DEF CreateVMFails, TypeOK, SpawnMutex, VmInv, HoldsSpawnLock
<1>6. CASE InitAllLocks(i)
  BY <1>6 DEF InitAllLocks, TypeOK, SpawnMutex, VmInv, HoldsSpawnLock
<1>7. CASE InitExceptionHandling(i)
  BY <1>7 DEF InitExceptionHandling, TypeOK, SpawnMutex, VmInv, HoldsSpawnLock
<1>8. CASE SpawnRelease(i)
  BY <1>8 DEF SpawnRelease, TypeOK, SpawnMutex, VmInv, HoldsSpawnLock
<1>9. QED
  BY <1>1, <1>2, <1>3, <1>4, <1>5, <1>6, <1>7, <1>8 DEF SpawnJvm

(* Generated functions leave SpawnJvm alone. *)
LEMMA SpawnPartUse ==
  ASSUME TypeOK, SpawnMutex, VmInv, NEW i \in Isolate,
         Use(i) \/ Generated(i)
  PROVE  SpawnMutex' /\ VmInv'
<1>1. CASE Use(i)
  BY <1>1 DEF Use, TypeOK, SpawnMutex, VmInv, HoldsSpawnLock
<1>2. CASE LoadEnv(i)
  BY <1>2 DEF LoadEnv, TypeOK, SpawnMutex, VmInv, HoldsSpawnLock
<1>3. CASE Check(i)
  BY <1>3 DEF Check, Advance, TypeOK, SpawnMutex, VmInv, HoldsSpawnLock
<1>4. CASE Acquire(i)
  BY <1>4 DEF Acquire, TypeOK, SpawnMutex, VmInv, HoldsSpawnLock
<1>5. CASE Recheck(i)
  BY <1>5 DEF Recheck, TypeOK, SpawnMutex, VmInv, HoldsSpawnLock
<1>6. CASE Load(i)
  BY <1>6 DEF Load, TypeOK, SpawnMutex, VmInv, HoldsSpawnLock
<1>7. CASE Release(i)
  BY <1>7 DEF Release, Advance, TypeOK, SpawnMutex, VmInv, HoldsSpawnLock
<1>8. CASE CallJava(i)
  BY <1>8 DEF CallJava, TypeOK, SpawnMutex, VmInv, HoldsSpawnLock
<1>9. CASE GetExceptionDetails(i)
  BY <1>9 DEF GetExceptionDetails, TypeOK, SpawnMutex, VmInv, HoldsSpawnLock
<1>10. QED
  BY <1>1, <1>2, <1>3, <1>4, <1>5, <1>6, <1>7, <1>8, <1>9 DEF Generated

(* CreateVM sets jniEnv for the rest of SpawnJvm. *)
LEMMA AttachedSpawn ==
  ASSUME TypeOK, AttachedInv, NEW i \in Isolate,
         Spawn(i) \/ SpawnJvm(i)
  PROVE  AttachedInv'
<1>1. CASE Spawn(i)
  BY <1>1 DEF Spawn, TypeOK, AttachedInv, UseStep
<1>2. CASE SpawnAcquire(i)
  BY <1>2 DEF SpawnAcquire, TypeOK, AttachedInv, UseStep
<1>3. CASE SpawnCheck(i)
  BY <1>3 DEF SpawnCheck, TypeOK, AttachedInv, UseStep
<1>4. CASE CreateVM(i)
  BY <1>4 DEF CreateVM, TypeOK, AttachedInv, UseStep
<1>5. CASE CreateVMFails(i)
  BY <1>5 DEF CreateVMFails, TypeOK, AttachedInv, UseStep
<1>6. CASE InitAllLocks(i)
  BY <1>6 DEF InitAllLocks, TypeOK, AttachedInv, UseStep
<1>7. CASE InitExceptionHandling(i)
  BY <1>7 DEF InitExceptionHandling, TypeOK, AttachedInv, UseStep
<1>8. CASE SpawnRelease(i)
  BY <1>8 DEF SpawnRelease, TypeOK, AttachedInv, UseStep
<1>9. QED
  BY <1>1, <1>2, <1>3, <1>4, <1>5, <1>6, <1>7, <1>8 DEF SpawnJvm

(* load_env sets jniEnv for the rest of a generated function. *)
LEMMA AttachedUse ==
  ASSUME TypeOK, AttachedInv, NEW i \in Isolate,
         Use(i) \/ Generated(i)
  PROVE  AttachedInv'
<1>1. CASE Use(i)
  BY <1>1 DEF Use, TypeOK, AttachedInv, UseStep
<1>2. CASE LoadEnv(i)
  BY <1>2 DEF LoadEnv, TypeOK, AttachedInv, UseStep
<1>3. CASE Check(i)
  BY <1>3 DEF Check, Advance, TypeOK, AttachedInv, UseStep
<1>4. CASE Acquire(i)
  BY <1>4 DEF Acquire, TypeOK, AttachedInv, UseStep
<1>5. CASE Recheck(i)
  BY <1>5 DEF Recheck, TypeOK, AttachedInv, UseStep
<1>6. CASE Load(i)
  BY <1>6 DEF Load, TypeOK, AttachedInv, UseStep
<1>7. CASE Release(i)
  BY <1>7 DEF Release, Advance, TypeOK, AttachedInv, UseStep
<1>8. CASE CallJava(i)
  BY <1>8 DEF CallJava, TypeOK, AttachedInv, UseStep
<1>9. CASE GetExceptionDetails(i)
  BY <1>9 DEF GetExceptionDetails, TypeOK, AttachedInv, UseStep
<1>10. QED
  BY <1>1, <1>2, <1>3, <1>4, <1>5, <1>6, <1>7, <1>8, <1>9 DEF Generated

(* Whoever takes a lock holds it until it is free again, or a creation failed.     *)
LEMMA HolderSpawn ==
  ASSUME TypeOK, HolderInv, NEW i \in Isolate, Spawn(i) \/ SpawnJvm(i)
  PROVE  HolderInv'
<1>. USE DEF TypeOK, HolderInv, HoldsSpawnLock, HoldsItemLock
<1>1. CASE Spawn(i)
  BY <1>1 DEF Spawn
<1>2. CASE SpawnAcquire(i)
  BY <1>2 DEF SpawnAcquire
<1>3. CASE SpawnCheck(i)
  BY <1>3 DEF SpawnCheck
<1>4. CASE CreateVM(i)
  BY <1>4 DEF CreateVM
<1>5. CASE CreateVMFails(i)
  BY <1>5 DEF CreateVMFails
<1>6. CASE InitAllLocks(i)
  BY <1>6 DEF InitAllLocks
<1>7. CASE InitExceptionHandling(i)
  BY <1>7 DEF InitExceptionHandling
<1>8. CASE SpawnRelease(i)
  BY <1>8 DEF SpawnRelease
<1>9. QED
  BY <1>1, <1>2, <1>3, <1>4, <1>5, <1>6, <1>7, <1>8 DEF SpawnJvm

LEMMA HolderUse ==
  ASSUME TypeOK, HolderInv, NEW i \in Isolate, Use(i) \/ Generated(i)
  PROVE  HolderInv'
<1>. USE DEF TypeOK, HolderInv, HoldsSpawnLock, HoldsItemLock
<1>1. CASE Use(i)
  BY <1>1 DEF Use
<1>2. CASE LoadEnv(i)
  BY <1>2 DEF LoadEnv
<1>3. CASE Check(i)
  BY <1>3 DEF Check, Advance
<1>4. CASE Acquire(i)
  BY <1>4 DEF Acquire
<1>5. CASE Recheck(i)
  BY <1>5 DEF Recheck
<1>6. CASE Load(i)
  BY <1>6 DEF Load
<1>7. CASE Release(i)
  BY <1>7 DEF Release, Advance
<1>8. CASE CallJava(i)
  BY <1>8 DEF CallJava
<1>9. CASE GetExceptionDetails(i)
  BY <1>9 DEF GetExceptionDetails
<1>10. QED
  BY <1>1, <1>2, <1>3, <1>4, <1>5, <1>6, <1>7, <1>8, <1>9 DEF Generated

(* An isolate only changes threads between two events. *)
LEMMA MoveKeeps ==
  ASSUME TypeOK, NEW i \in Isolate, NEW t \in Thread, Move(i, t)
  PROVE  /\ TypeOK'
         /\ SpawnMutex => SpawnMutex'
         /\ VmInv => VmInv'
         /\ AttachedInv => AttachedInv'
         /\ HolderInv => HolderInv'
         /\ ReadyInv => ReadyInv'
         /\ CacheMutex => CacheMutex'
         /\ LookupInv => LookupInv'
         /\ LookedUpOnce => LookedUpOnce'
<1>1. TypeOK'
  BY DEF Move, TypeOK
<1>2. SpawnMutex => SpawnMutex'
  BY DEF Move, SpawnMutex, HoldsSpawnLock
<1>3. VmInv => VmInv'
  BY DEF Move, VmInv
<1>4. AttachedInv => AttachedInv'
  BY DEF Move, AttachedInv, TypeOK, UseStep
<1>5. ReadyInv => ReadyInv'
  BY DEF Move, ReadyInv
<1>6. CacheMutex => CacheMutex'
  BY DEF Move, CacheMutex, HoldsItemLock
<1>7. LookedUpOnce => LookedUpOnce'
  BY DEF Move, LookedUpOnce
<1>8. LookupInv => LookupInv'
  BY DEF Move, LookupInv
<1>9. HolderInv => HolderInv'
  BY DEF Move, HolderInv, HoldsSpawnLock, HoldsItemLock
<1>10. QED
  BY <1>1, <1>2, <1>3, <1>4, <1>5, <1>6, <1>7, <1>8, <1>9

(* No isolate is told "ok" before the initialisation, which happens once. *)
LEMMA ReadySpawn ==
  ASSUME TypeOK, SpawnMutex, VmInv, ReadyInv, NEW i \in Isolate,
         Spawn(i) \/ SpawnJvm(i)
  PROVE  ReadyInv'
<1>1. CASE Spawn(i)
  BY <1>1 DEF Spawn, TypeOK, SpawnMutex, VmInv, ReadyInv, HoldsSpawnLock,
       SpawnStep, UseStep
<1>2. CASE SpawnAcquire(i)
  BY <1>2 DEF SpawnAcquire, TypeOK, SpawnMutex, VmInv, ReadyInv, HoldsSpawnLock,
       SpawnStep, UseStep
<1>3. CASE SpawnCheck(i)
  BY <1>3 DEF SpawnCheck, TypeOK, SpawnMutex, VmInv, ReadyInv, HoldsSpawnLock,
       SpawnStep, UseStep
<1>4. CASE CreateVM(i)
  BY <1>4 DEF CreateVM, TypeOK, SpawnMutex, VmInv, ReadyInv, HoldsSpawnLock,
       SpawnStep, UseStep
<1>5. CASE CreateVMFails(i)
  BY <1>5 DEF CreateVMFails, TypeOK, SpawnMutex, VmInv, ReadyInv, HoldsSpawnLock,
       SpawnStep, UseStep
<1>6. CASE InitAllLocks(i)
  BY <1>6 DEF InitAllLocks, TypeOK, SpawnMutex, VmInv, ReadyInv, HoldsSpawnLock,
       SpawnStep, UseStep
<1>7. CASE InitExceptionHandling(i)
  BY <1>7 DEF InitExceptionHandling, TypeOK, SpawnMutex, VmInv, ReadyInv, HoldsSpawnLock,
       SpawnStep, UseStep
<1>8. CASE SpawnRelease(i)
  BY <1>8 DEF SpawnRelease, TypeOK, SpawnMutex, VmInv, ReadyInv, HoldsSpawnLock,
       SpawnStep, UseStep
<1>9. QED
  BY <1>1, <1>2, <1>3, <1>4, <1>5, <1>6, <1>7, <1>8 DEF SpawnJvm

(* Isolates that wait to be told "ok" find everything initialised. *)
LEMMA ReadyUse ==
  ASSUME TypeOK, ReadyInv, EagerUse = FALSE, NEW i \in Isolate,
         Use(i) \/ Generated(i)
  PROVE  ReadyInv'
<1>1. CASE Use(i)
  BY <1>1 DEF Use, MayUse, TypeOK, ReadyInv, UseStep
<1>2. CASE LoadEnv(i)
  BY <1>2 DEF LoadEnv, TypeOK, ReadyInv, UseStep
<1>3. CASE Check(i)
  BY <1>3 DEF Check, Advance, TypeOK, ReadyInv, UseStep
<1>4. CASE Acquire(i)
  BY <1>4 DEF Acquire, TypeOK, ReadyInv, UseStep
<1>5. CASE Recheck(i)
  BY <1>5 DEF Recheck, TypeOK, ReadyInv, UseStep
<1>6. CASE Load(i)
  BY <1>6 DEF Load, TypeOK, ReadyInv, UseStep
<1>7. CASE Release(i)
  BY <1>7 DEF Release, Advance, TypeOK, ReadyInv, UseStep
<1>8. CASE CallJava(i)
  BY <1>8 DEF CallJava, TypeOK, ReadyInv, UseStep
<1>9. CASE GetExceptionDetails(i)
  BY <1>9 DEF GetExceptionDetails, TypeOK, ReadyInv, UseStep
<1>10. QED
  BY <1>1, <1>2, <1>3, <1>4, <1>5, <1>6, <1>7, <1>8, <1>9 DEF Generated

(* SpawnJvm does not reset a lock that somebody holds. *)
LEMMA CacheSpawn ==
  ASSUME TypeOK, ReadyInv, CacheMutex, LookedUpOnce, NEW i \in Isolate,
         Spawn(i) \/ SpawnJvm(i)
  PROVE  CacheMutex' /\ LookedUpOnce'
<1>1. CASE Spawn(i)
  BY <1>1 DEF Spawn, TypeOK, ReadyInv, CacheMutex, LookedUpOnce, HoldsItemLock,
       UseStep
<1>2. CASE SpawnAcquire(i)
  BY <1>2 DEF SpawnAcquire, TypeOK, ReadyInv, CacheMutex, LookedUpOnce, HoldsItemLock,
       UseStep
<1>3. CASE SpawnCheck(i)
  BY <1>3 DEF SpawnCheck, TypeOK, ReadyInv, CacheMutex, LookedUpOnce, HoldsItemLock,
       UseStep
<1>4. CASE CreateVM(i)
  BY <1>4 DEF CreateVM, TypeOK, ReadyInv, CacheMutex, LookedUpOnce, HoldsItemLock,
       UseStep
<1>5. CASE CreateVMFails(i)
  BY <1>5 DEF CreateVMFails, TypeOK, ReadyInv, CacheMutex, LookedUpOnce, HoldsItemLock,
       UseStep
<1>6. CASE InitAllLocks(i)
  BY <1>6 DEF InitAllLocks, TypeOK, ReadyInv, CacheMutex, LookedUpOnce, HoldsItemLock,
       UseStep
<1>7. CASE InitExceptionHandling(i)
  BY <1>7 DEF InitExceptionHandling, TypeOK, ReadyInv, CacheMutex, LookedUpOnce, HoldsItemLock,
       UseStep
<1>8. CASE SpawnRelease(i)
  BY <1>8 DEF SpawnRelease, TypeOK, ReadyInv, CacheMutex, LookedUpOnce, HoldsItemLock,
       UseStep
<1>9. QED
  BY <1>1, <1>2, <1>3, <1>4, <1>5, <1>6, <1>7, <1>8 DEF SpawnJvm

(* The lock of an item protects its cache from the second check to the store. *)
LEMMA CacheUse ==
  ASSUME TypeOK, CacheMutex, LookedUpOnce, NEW i \in Isolate,
         Use(i) \/ Generated(i)
  PROVE  CacheMutex' /\ LookedUpOnce'
<1>1. CASE Use(i)
  BY <1>1 DEF Use, TypeOK, CacheMutex, LookedUpOnce, HoldsItemLock
<1>2. CASE LoadEnv(i)
  BY <1>2 DEF LoadEnv, TypeOK, CacheMutex, LookedUpOnce, HoldsItemLock
<1>3. CASE Check(i)
  BY <1>3 DEF Check, Advance, TypeOK, CacheMutex, LookedUpOnce, HoldsItemLock
<1>4. CASE Acquire(i)
  BY <1>4 DEF Acquire, TypeOK, CacheMutex, LookedUpOnce, HoldsItemLock
<1>5. CASE Recheck(i)
  BY <1>5 DEF Recheck, TypeOK, CacheMutex, LookedUpOnce, HoldsItemLock
<1>6. CASE Load(i)
  BY <1>6 DEF Load, TypeOK, CacheMutex, LookedUpOnce, HoldsItemLock
<1>7. CASE Release(i)
  BY <1>7 DEF Release, Advance, TypeOK, CacheMutex, LookedUpOnce, HoldsItemLock
<1>8. CASE CallJava(i)
  BY <1>8 DEF CallJava, TypeOK, CacheMutex, LookedUpOnce, HoldsItemLock
<1>9. CASE GetExceptionDetails(i)
  BY <1>9 DEF GetExceptionDetails, TypeOK, CacheMutex, LookedUpOnce, HoldsItemLock
<1>10. QED
  BY <1>1, <1>2, <1>3, <1>4, <1>5, <1>6, <1>7, <1>8, <1>9 DEF Generated

-----------------------------------------------------------------------------

(* A lookup that found nothing is one of an item that is missing. *)
LEMMA LookupSpawn ==
  ASSUME TypeOK, LookupInv, NEW i \in Isolate, Spawn(i) \/ SpawnJvm(i)
  PROVE  LookupInv'
<1>1. /\ UNCHANGED <<item, cache, missing>>
      /\ \E step \in {"idle"} \cup SpawnStep : pc' = [pc EXCEPT ![i] = step] \/ pc' = pc
  BY DEF Spawn, SpawnJvm, SpawnAcquire, SpawnCheck, CreateVM, CreateVMFails, InitAllLocks,
     InitExceptionHandling, SpawnRelease, SpawnStep
<1>2. QED
  BY <1>1 DEF TypeOK, LookupInv, SpawnStep

LEMMA LookupUse ==
  ASSUME TypeOK, LookupInv, NEW i \in Isolate, Use(i) \/ Generated(i)
  PROVE  LookupInv'
<1>1. CASE Use(i)
  BY <1>1 DEF Use, TypeOK, LookupInv
<1>2. CASE LoadEnv(i)
  BY <1>2 DEF LoadEnv, TypeOK, LookupInv
<1>3. CASE Check(i)
  BY <1>3 DEF Check, Advance, TypeOK, LookupInv
<1>4. CASE Acquire(i)
  BY <1>4 DEF Acquire, TypeOK, LookupInv
<1>5. CASE Recheck(i)
  BY <1>5 DEF Recheck, TypeOK, LookupInv
<1>6. CASE Load(i)
  BY <1>6 DEF Load, TypeOK, LookupInv
<1>7. CASE Release(i)
  BY <1>7 DEF Release, Advance, TypeOK, LookupInv
<1>8. CASE CallJava(i)
  BY <1>8 DEF CallJava, TypeOK, LookupInv
<1>9. CASE GetExceptionDetails(i)
  BY <1>9 DEF GetExceptionDetails, TypeOK, LookupInv
<1>10. QED
  BY <1>1, <1>2, <1>3, <1>4, <1>5, <1>6, <1>7, <1>8, <1>9 DEF Generated

LEMMA InitSpawn == Init => SpawnInv
<1>1. ASSUME Init PROVE TypeOK /\ SpawnMutex /\ VmInv /\ AttachedInv /\ HolderInv
  BY <1>1 DEF Init, TypeOK, SpawnMutex, VmInv, AttachedInv, HolderInv, HoldsSpawnLock,
     UseStep
<1>2. QED
  BY <1>1 DEF SpawnInv

LEMMA StepSpawn == SpawnInv /\ [Next]_vars => SpawnInv'
<1>. SUFFICES ASSUME SpawnInv, [Next]_vars PROVE SpawnInv'
  OBVIOUS
<1>1. TypeOK /\ SpawnMutex /\ VmInv /\ AttachedInv /\ HolderInv
  BY DEF SpawnInv
<1>2. ASSUME NEW i \in Isolate, Spawn(i) \/ SpawnJvm(i) PROVE SpawnInv'
  BY <1>1, <1>2, SpawnType, SpawnMutexSpawn, VmSpawn, AttachedSpawn, HolderSpawn
     DEF SpawnInv
<1>3. ASSUME NEW i \in Isolate, Use(i) \/ Generated(i) PROVE SpawnInv'
  BY <1>1, <1>3, UseType, SpawnPartUse, AttachedUse, HolderUse DEF SpawnInv
<1>4. ASSUME NEW i \in Isolate, NEW t \in Thread, Move(i, t) PROVE SpawnInv'
  BY <1>1, <1>4, MoveKeeps DEF SpawnInv
<1>5. CASE UNCHANGED vars
  BY <1>1, <1>5 DEF vars, SpawnInv, TypeOK, SpawnMutex, VmInv, AttachedInv,
     HolderInv, HoldsSpawnLock, HoldsItemLock
<1>6. QED
  BY <1>2, <1>3, <1>4, <1>5 DEF Next

LEMMA InitCache == Init => IInv
<1>1. ASSUME Init PROVE ReadyInv /\ CacheMutex /\ LookupInv /\ LookedUpOnce
  BY <1>1 DEF Init, ReadyInv, CacheMutex, LookupInv, LookedUpOnce, HoldsItemLock, UseStep
<1>2. QED
  BY <1>1, InitSpawn DEF IInv

LEMMA StepCache ==
  ASSUME EagerUse = FALSE
  PROVE  IInv /\ [Next]_vars => IInv'
<1>. SUFFICES ASSUME IInv, [Next]_vars PROVE IInv'
  OBVIOUS
<1>1. /\ TypeOK /\ SpawnMutex /\ VmInv
      /\ ReadyInv /\ CacheMutex /\ LookupInv /\ LookedUpOnce
  BY DEF IInv, SpawnInv
<1>2. SpawnInv'
  BY StepSpawn DEF IInv
<1>3. ASSUME NEW i \in Isolate, Spawn(i) \/ SpawnJvm(i) PROVE IInv'
  BY <1>1, <1>2, <1>3, ReadySpawn, CacheSpawn, LookupSpawn DEF IInv
<1>4. ASSUME NEW i \in Isolate, Use(i) \/ Generated(i) PROVE IInv'
  BY <1>1, <1>2, <1>4, ReadyUse, CacheUse, LookupUse DEF IInv
<1>5. ASSUME NEW i \in Isolate, NEW t \in Thread, Move(i, t) PROVE IInv'
  BY <1>1, <1>2, <1>5, MoveKeeps DEF IInv
<1>6. CASE UNCHANGED vars
  <2>1. ReadyInv' /\ CacheMutex' /\ LookupInv' /\ LookedUpOnce'
    BY <1>1, <1>6 DEF vars, ReadyInv, CacheMutex, LookupInv, LookedUpOnce, HoldsItemLock
  <2>2. QED
    BY <1>2, <2>1 DEF IInv
<1>7. QED
  BY <1>3, <1>4, <1>5, <1>6 DEF Next

(* What SpawnJvm keeps to, whatever isolates do when they are told "exists". *)
THEOREM SpawnInvariant == Spec => []SpawnInv
<1>1. QED
  BY InitSpawn, StepSpawn, PTL DEF Spec

(* SpawnJvm creates at most one Java VM, however many isolates call it. *)
THEOREM OneJvm == Spec => []AtMostOneJvm
<1>1. SpawnInv => AtMostOneJvm
  BY DEF SpawnInv, TypeOK, VmInv, AtMostOneJvm
<1>2. QED
  BY <1>1, SpawnInvariant, PTL

(* Generated functions and SpawnJvm call the JNI on attached threads only,     *)
(* although isolates move between threads.                                     *)
THEOREM AttachedCalls == Spec => []CallsAttached
<1>1. SpawnInv => CallsAttached
  BY DEF SpawnInv, AttachedInv, CallsAttached, UseStep
<1>2. QED
  BY <1>1, SpawnInvariant, PTL

(* When nothing can go on in native code, every call has returned: only an      *)
(* isolate that called SpawnJvm after a failed creation still waits, for ever.  *)
THEOREM NobodyElseWaits == Spec => []OnlyFailureBlocks
<1>1. ASSUME SpawnInv, AtRest PROVE OnlyFailureBlocks
  <2>1. \A i \in Isolate : ~ HoldsItemLock(i)
    BY <1>1 DEF AtRest, HoldsItemLock
  <2>2. \A x \in Item : lock[x] = "free"
    BY <1>1, <2>1 DEF SpawnInv, TypeOK, HolderInv
  <2>3. \A i \in Isolate : pc[i] \in {"idle", "spawnWait"}
    BY <1>1, <2>2 DEF AtRest, SpawnInv, TypeOK
  <2>4. ASSUME NEW i \in Isolate, pc[i] = "spawnWait"
        PROVE  \E j \in Isolate : "error" \in told[j]
    <3>1. spawnLock = "taken"
      BY <1>1, <2>4 DEF AtRest
    <3>2. \A j \in Isolate : ~ HoldsSpawnLock(j)
      BY <2>3 DEF HoldsSpawnLock
    <3>3. QED
      BY <1>1, <3>1, <3>2 DEF SpawnInv, HolderInv
  <2>5. QED
    BY <2>3, <2>4 DEF OnlyFailureBlocks
<1>2. SpawnInv => OnlyFailureBlocks
  BY <1>1 DEF OnlyFailureBlocks
<1>3. QED
  BY <1>2, SpawnInvariant, PTL

(* If isolates wait until one of them was told "ok", the whole invariant holds. *)
THEOREM RuntimeInvariant ==
  ASSUME EagerUse = FALSE
  PROVE  Spec => []IInv
<1>1. QED
  BY InitCache, StepCache, PTL DEF Spec

(* Then no class or method is looked up twice, and no reference leaked.        *)
THEOREM OneLookup ==
  ASSUME EagerUse = FALSE
  PROVE  Spec => []LookedUpOnce
<1>1. IInv => LookedUpOnce
  BY DEF IInv
<1>2. QED
  BY <1>1, RuntimeInvariant, PTL

(* Then the locks and the exception methods are initialised before their use.  *)
THEOREM InitialisedFirst ==
  ASSUME EagerUse = FALSE
  PROVE  Spec => []InitialisedBeforeUse
<1>1. IInv => InitialisedBeforeUse
  BY DEF IInv, ReadyInv, InitialisedBeforeUse
<1>2. QED
  BY <1>1, RuntimeInvariant, PTL

-----------------------------------------------------------------------------
(* The runtime implements SharedRuntime. *)

\* Isolate i is, for SharedRuntime, where it was.
Same(i) == CallOf(i)' = CallOf(i) /\ Obtained(i)' = Obtained(i)

(* A step of isolate i leaves the calls of the others alone. *)
LEMMA OthersSame ==
  ASSUME TypeOK, NEW i \in Isolate,
         \A j \in Isolate \ {i} : pc'[j] = pc[j] /\ item'[j] = item[j]
  PROVE  /\ [j \in Isolate |-> CallOf(j)]' =
              [[j \in Isolate |-> CallOf(j)] EXCEPT ![i] = CallOf(i)']
         /\ [j \in Isolate |-> Obtained(j)]' =
              [[j \in Isolate |-> Obtained(j)] EXCEPT ![i] = Obtained(i)']
<1>1. \A j \in Isolate \ {i} : Same(j)
  BY DEF Same, CallOf, Obtained
<1>2. QED
  BY <1>1 DEF Same

(* A step that changes none of this is a stutter of SharedRuntime. *)
LEMMA SharedStutters ==
  ASSUME UNCHANGED <<ready, missing, cache>>, \A j \in Isolate : Same(j)
  PROVE  UNCHANGED Shared!svars
BY DEF Same, Shared!svars

LEMMA InitShared == Init => Shared!Init
<1> SUFFICES ASSUME Init PROVE Shared!Init
  OBVIOUS
<1>1. /\ [i \in Isolate |-> CallOf(i)] = [i \in Isolate |-> "none"]
      /\ [i \in Isolate |-> Obtained(i)] = [i \in Isolate |-> {}]
  BY DEF Init, CallOf, Obtained, UseStep
<1>2. QED
  BY <1>1 DEF Init, Shared!Init, Shared!Item

(* Of SpawnJvm the initialisation is seen, and nothing else. *)
LEMMA SpawnRefines ==
  ASSUME IInv, NEW i \in Isolate, Spawn(i) \/ SpawnJvm(i)
  PROVE  [Shared!Next]_(Shared!svars)
<1>1. /\ UNCHANGED <<item, cache, missing>> /\ TypeOK
      /\ pc[i] \in {"idle"} \cup SpawnStep
      /\ \E step \in {"idle"} \cup SpawnStep : pc' = [pc EXCEPT ![i] = step] \/ pc' = pc
  BY DEF Spawn, SpawnJvm, SpawnAcquire, SpawnCheck, CreateVM, CreateVMFails, InitAllLocks,
     InitExceptionHandling, SpawnRelease, SpawnStep, IInv, SpawnInv
<1>2. \A j \in Isolate : Same(j)
  BY <1>1 DEF Same, CallOf, Obtained, SpawnStep, UseStep, TypeOK
<1>3. CASE InitExceptionHandling(i)
  <2>1. ready = FALSE /\ ready' = TRUE
    BY <1>3 DEF InitExceptionHandling, IInv, ReadyInv, SpawnInv, TypeOK
  <2>2. Shared!Initialise
    BY <1>1, <1>2, <2>1 DEF Shared!Initialise, Same
  <2>3. QED
    BY <2>2 DEF Shared!Next
<1>4. CASE ~InitExceptionHandling(i)
  <2>1. ready' = ready
    BY <1>4 DEF Spawn, SpawnJvm, SpawnAcquire, SpawnCheck, CreateVM, CreateVMFails,
       InitAllLocks, SpawnRelease
  <2>2. QED
    BY <1>1, <1>2, <2>1, SharedStutters
<1>5. QED
  BY <1>3, <1>4

(* What an isolate in a generated function needs next. *)
LEMMA NeedsItem ==
  ASSUME TypeOK, NEW i \in Isolate, pc[i] \in {"check", "load", "unlock"}
  PROVE  /\ CallOf(i) = "running" /\ Shared!Needs(i, item[i])
         /\ Obtained(i) = IF item[i] = "method" THEN {"class"} ELSE {}
BY DEF TypeOK, CallOf, Obtained, UseStep, Shared!Needs, Shared!Item

(* It goes on with what is cached. *)
LEMMA AdvanceRefines ==
  ASSUME TypeOK, NEW i \in Isolate, pc[i] \in {"check", "unlock"},
         cache[item[i]] # None, Advance(i), UNCHANGED <<ready, missing, cache>>
  PROVE  Shared!Next
<1>1. /\ CallOf(i) = "running" /\ Shared!Needs(i, item[i]) /\ item[i] \in Shared!Item
      /\ Obtained(i) = IF item[i] = "method" THEN {"class"} ELSE {}
  BY NeedsItem DEF TypeOK, Shared!Item
<1>2. /\ CallOf(i)' = "running" /\ Obtained(i)' = Obtained(i) \cup {item[i]}
      /\ \A j \in Isolate \ {i} : pc'[j] = pc[j] /\ item'[j] = item[j]
  BY <1>1 DEF Advance, TypeOK, CallOf, Obtained, UseStep
<1>3. /\ [j \in Isolate |-> CallOf(j)]' = [j \in Isolate |-> CallOf(j)]
      /\ [j \in Isolate |-> Obtained(j)]' =
           [[j \in Isolate |-> Obtained(j)] EXCEPT ![i] = Obtained(i) \cup {item[i]}]
  <2>1. \A j \in Isolate : CallOf(j)' = CallOf(j)
    BY <1>1, <1>2 DEF CallOf
  <2>2. QED
    BY <1>2, <2>1, OthersSame
<1>4. Shared!Obtain(i, item[i])
  BY <1>1, <1>3 DEF Shared!Obtain
<1>5. QED
  BY <1>1, <1>4 DEF Shared!Next

(* The call fails. *)
LEMMA FailRefines ==
  ASSUME TypeOK, NEW i \in Isolate, CallOf(i) = "running",
         Obtained(i) = Item \/ \E x \in missing : Shared!Needs(i, x),
         Goto(i, "details"), UNCHANGED <<item, ready, missing, cache>>
  PROVE  Shared!Next
<1>1. CallOf(i)' = "failed" /\ Obtained(i)' = {}
  BY DEF TypeOK, CallOf, Obtained
<1>2. \A j \in Isolate \ {i} : pc'[j] = pc[j] /\ item'[j] = item[j]
  BY DEF TypeOK
<1>3. Shared!Fail(i)
  BY <1>1, <1>2, OthersSame DEF Shared!Fail, Shared!Item
<1>4. QED
  BY <1>3 DEF Shared!Next

(* The call is over. *)
LEMMA FinishRefines ==
  ASSUME TypeOK, NEW i \in Isolate, pc[i] \in {"call", "details"},
         Goto(i, "idle"), UNCHANGED <<item, ready, missing, cache>>
  PROVE  Shared!Next
<1>1. CallOf(i)' = "none" /\ Obtained(i)' = {}
  BY DEF TypeOK, CallOf, Obtained, UseStep
<1>2. \A j \in Isolate \ {i} : pc'[j] = pc[j] /\ item'[j] = item[j]
  BY DEF TypeOK
<1>3. CallOf(i) = "failed" \/ (CallOf(i) = "running" /\ Obtained(i) = Item)
  BY DEF CallOf, Obtained, UseStep
<1>4. Shared!Finish(i)
  BY <1>1, <1>2, <1>3, OthersSame DEF Shared!Finish, Shared!Item
<1>5. QED
  BY <1>4 DEF Shared!Next

(* The steps of a generated function. *)
LEMMA UseRefines ==
  ASSUME IInv, EagerUse = FALSE, NEW i \in Isolate, Use(i) \/ Generated(i)
  PROVE  [Shared!Next]_(Shared!svars)
<1>1. TypeOK /\ ReadyInv /\ CacheMutex /\ LookupInv
  BY DEF IInv, SpawnInv
<1>2. ASSUME UNCHANGED <<item, ready, missing, cache>>,
             NEW step, Goto(i, step),
             pc[i] \in UseStep \ {"call", "details"}, step \in UseStep \ {"call", "details"},
             pc[i] # "loadEnv" \/ item[i] = "class"
      PROVE  [Shared!Next]_(Shared!svars)
  <2>1. \A j \in Isolate : Same(j)
    BY <1>1, <1>2 DEF Same, TypeOK, CallOf, Obtained
  <2>2. QED
    BY <1>2, <2>1, SharedStutters
<1>3. CASE Use(i)
  <2>1. /\ ready = TRUE /\ UNCHANGED <<ready, missing, cache>>
        /\ CallOf(i) = "none" /\ Obtained(i) = {}
    BY <1>1, <1>3 DEF Use, MayUse, ReadyInv, TypeOK, CallOf, Obtained, UseStep
  <2>2. /\ CallOf(i)' = "running" /\ Obtained(i)' = {}
        /\ \A j \in Isolate \ {i} : pc'[j] = pc[j] /\ item'[j] = item[j]
    BY <1>1, <1>3 DEF Use, TypeOK, CallOf, Obtained, UseStep
  <2>3. Shared!Begin(i)
    BY <1>1, <2>1, <2>2, OthersSame DEF Shared!Begin
  <2>4. QED
    BY <2>3 DEF Shared!Next
<1>4. CASE LoadEnv(i)
  BY <1>1, <1>2, <1>4 DEF LoadEnv, LookupInv, UseStep
<1>5. CASE Check(i)
  <2>1. CASE cache[item[i]] # None
    BY <1>1, <1>5, <2>1, AdvanceRefines DEF Check
  <2>2. CASE cache[item[i]] = None
    BY <1>2, <1>5, <2>2 DEF Check, UseStep
  <2>3. QED
    BY <2>1, <2>2
<1>6. CASE Acquire(i)
  BY <1>2, <1>6 DEF Acquire, UseStep
<1>7. CASE Recheck(i)
  BY <1>2, <1>7 DEF Recheck, UseStep
<1>8. CASE Load(i)
  <2>1. CASE item[i] \in missing
    BY <1>2, <1>8, <2>1 DEF Load, UseStep
  <2>2. CASE item[i] \notin missing
    <3>1. /\ CallOf(i) = "running" /\ Shared!Needs(i, item[i]) /\ item[i] \in Shared!Item
          /\ cache[item[i]] = None
      BY <1>1, <1>8, NeedsItem DEF Load, TypeOK, CacheMutex, Shared!Item
    <3>2. /\ cache' = [cache EXCEPT ![item[i]] = i] /\ UNCHANGED <<ready, missing>>
          /\ \A j \in Isolate : Same(j)
      BY <1>1, <1>8, <2>2 DEF Load, TypeOK, Same, CallOf, Obtained, UseStep
    <3>3. Shared!Find(i, item[i])
      BY <2>2, <3>1, <3>2 DEF Shared!Find, Same
    <3>4. QED
      BY <3>1, <3>3 DEF Shared!Next
  <2>3. QED
    BY <2>1, <2>2
<1>9. CASE Release(i)
  <2>1. CASE cache[item[i]] # None
    BY <1>1, <1>9, <2>1, AdvanceRefines DEF Release
  <2>2. CASE cache[item[i]] = None
    <3>1. item[i] \in missing /\ CallOf(i) = "running" /\ Shared!Needs(i, item[i])
      BY <1>1, <1>9, <2>2, NeedsItem DEF Release, LookupInv
    <3>2. Goto(i, "details") /\ UNCHANGED <<item, ready, missing, cache>>
      BY <1>9, <2>2 DEF Release
    <3>3. QED
      BY <1>1, <3>1, <3>2, FailRefines
  <2>3. QED
    BY <2>1, <2>2
<1>10. CASE CallJava(i)
  <2>1. CallOf(i) = "running" /\ Obtained(i) = Item /\ UNCHANGED <<item, ready, missing, cache>>
    BY <1>10 DEF CallJava, CallOf, Obtained, UseStep
  <2>2. CASE Goto(i, "details")
    BY <1>1, <2>1, <2>2, FailRefines
  <2>3. CASE Goto(i, "idle")
    BY <1>1, <1>10, <2>1, <2>3, FinishRefines DEF CallJava
  <2>4. QED
    BY <1>10, <2>2, <2>3 DEF CallJava
<1>11. CASE GetExceptionDetails(i)
  BY <1>1, <1>11, FinishRefines DEF GetExceptionDetails
<1>12. QED
  BY <1>3, <1>4, <1>5, <1>6, <1>7, <1>8, <1>9, <1>10, <1>11 DEF Generated

LEMMA NextShared ==
  ASSUME EagerUse = FALSE
  PROVE  IInv /\ [Next]_vars => [Shared!Next]_(Shared!svars)
<1> SUFFICES ASSUME IInv, [Next]_vars PROVE [Shared!Next]_(Shared!svars)
  OBVIOUS
<1>1. ASSUME UNCHANGED <<pc, item, ready, missing, cache>>
      PROVE  [Shared!Next]_(Shared!svars)
  <2>1. \A j \in Isolate : Same(j)
    BY <1>1 DEF Same, CallOf, Obtained
  <2>2. QED
    BY <1>1, <2>1, SharedStutters
<1>2. ASSUME NEW i \in Isolate, NEW t \in Thread, Move(i, t)
      PROVE  [Shared!Next]_(Shared!svars)
  BY <1>1, <1>2 DEF Move
<1>3. CASE UNCHANGED vars
  BY <1>1, <1>3 DEF vars
<1>4. QED
  BY <1>2, <1>3, SpawnRefines, UseRefines DEF Next

(* To the isolates the runtime is that of SharedRuntime: the races between     *)
(* spawning, double-checked locking and lookups are not seen, if isolates wait *)
(* until one of them was told "ok".                                            *)
THEOREM RuntimeRefinement ==
  ASSUME EagerUse = FALSE
  PROVE  Spec => RefinesSharedRuntime
<1>1. QED
  BY InitShared, NextShared, RuntimeInvariant, PTL
     DEF Spec, RefinesSharedRuntime, Shared!Spec
=============================================================================
