------------------------------ MODULE JniRuntime ------------------------------
(***************************************************************************)
(* The process-wide state of dartjni.c, shared by every isolate: creating  *)
(* the Java VM (SpawnJvm), attaching threads to it, and the double-checked *)
(* caches of classes and method IDs that the generated C bindings fill.    *)
(*                                                                         *)
(* An isolate runs its events on threads of a pool, one event at a time    *)
(* and on any thread; jniEnv is local to the thread (the generated library *)
(* has a jniEnv of its own, set from that of dartjni: one here).           *)
(***************************************************************************)
EXTENDS Naturals

CONSTANTS
  Isolate,
  Thread,     \* the native threads of the pool
  Spawner,    \* the isolates that call Jni.spawnIfNotExists
  EagerUse,   \* isolates that are told "exists" go on to use JNI at once,
              \* instead of waiting until some isolate was told "ok"
  None        \* nothing cached

ASSUME RuntimeAssumption ==
  /\ Spawner \subseteq Isolate
  /\ EagerUse \in BOOLEAN
  /\ None \notin Isolate

\* What a generated function looks up, in this order, each with a lock of its own.
Item == {"class", "method"}

SpawnStep == {"spawnWait", "spawnCheck", "create", "initLocks", "initExceptions",
              "spawnDone"}
UseStep == {"loadEnv", "check", "lock", "recheck", "load", "unlock", "call", "details"}

VARIABLES
  on,         \* on[i]: the thread isolate i runs on
  env,        \* the threads that are attached, with jniEnv set
  jvm,        \* jni_context.jvm is not NULL
  created,    \* how many Java VMs were created
  spawnLock,  \* "free" or "taken"
  lock,       \* lock[x]: classLoadingLock and methodLoadingLock
  ready,      \* initExceptionHandling has filled exceptionMethods
  pc,         \* pc[i]: where isolate i is in native code, or "idle"
  item,       \* item[i]: what it is looking up
  told,       \* told[i]: the answers SpawnJvm has given to i
  missing,    \* the items that do not exist in Java
  cache,      \* cache[x]: whose lookup the static variable holds, or None
  made        \* made[x]: the isolates that looked x up, each a reference

spawnVars == <<jvm, created, spawnLock, ready, told>>
cacheVars == <<missing, cache, made>>
vars == <<on, env, spawnVars, lock, pc, item, cacheVars>>

Answers == {"ok", "exists", "error"}

TypeOK ==
  /\ on \in [Isolate -> Thread]
  /\ env \subseteq Thread
  /\ jvm \in BOOLEAN
  /\ created \in Nat
  /\ spawnLock \in {"free", "taken"}
  /\ lock \in [Item -> {"free", "taken"}]
  /\ ready \in BOOLEAN
  /\ pc \in [Isolate -> {"idle"} \cup SpawnStep \cup UseStep]
  /\ item \in [Isolate -> Item]
  /\ told \in [Isolate -> SUBSET Answers]
  /\ missing \subseteq Item
  /\ cache \in [Item -> Isolate \cup {None}]
  /\ made \in [Item -> SUBSET Isolate]

Injective(f) == \A i, j \in DOMAIN f : f[i] = f[j] => i = j

\* The mutexes are zero until initialised, which is what pthreads calls free.
Init ==
  /\ on \in {f \in [Isolate -> Thread] : Injective(f)}
  /\ env = {}
  /\ jvm = FALSE
  /\ created = 0
  /\ spawnLock = "free"
  /\ lock = [x \in Item |-> "free"]
  /\ ready = FALSE
  /\ pc = [i \in Isolate |-> "idle"]
  /\ item = [i \in Isolate |-> "class"]
  /\ told = [i \in Isolate |-> {}]
  /\ missing \in {{}, {"class"}, {"method"}}
  /\ cache = [x \in Item |-> None]
  /\ made = [x \in Item |-> {}]

Goto(i, step) == pc' = [pc EXCEPT ![i] = step]
Answer(i, a) == told' = [told EXCEPT ![i] = @ \cup {a}]

\* The next event of an isolate may run on another thread.
Move(i, t) ==
  /\ pc[i] = "idle"
  /\ t \notin {on[j] : j \in Isolate}
  /\ on' = [on EXCEPT ![i] = t]
  /\ UNCHANGED <<env, spawnVars, lock, pc, item, cacheVars>>

-----------------------------------------------------------------------------
(* SpawnJvm *)

\* The first check, without the lock.
Spawn(i) ==
  /\ i \in Spawner
  /\ pc[i] = "idle"
  /\ IF jvm THEN Answer(i, "exists") /\ UNCHANGED pc
            ELSE Goto(i, "spawnWait") /\ UNCHANGED told
  /\ UNCHANGED <<on, env, jvm, created, spawnLock, ready, lock, item, cacheVars>>

SpawnAcquire(i) ==
  /\ pc[i] = "spawnWait"
  /\ spawnLock = "free"
  /\ spawnLock' = "taken"
  /\ Goto(i, "spawnCheck")
  /\ UNCHANGED <<on, env, jvm, created, ready, told, lock, item, cacheVars>>

\* Faulty: no second check.
SpawnCheckSkipped(i) ==
  /\ pc[i] = "spawnCheck"
  /\ Goto(i, "create")
  /\ UNCHANGED <<on, env, spawnVars, lock, item, cacheVars>>

\* The second check: another isolate may have been faster.
SpawnCheck(i) ==
  /\ pc[i] = "spawnCheck"
  /\ IF jvm
     THEN Answer(i, "exists") /\ spawnLock' = "free" /\ Goto(i, "idle")
     ELSE UNCHANGED <<told, spawnLock>> /\ Goto(i, "create")
  /\ UNCHANGED <<on, env, jvm, created, ready, lock, item, cacheVars>>

\* JNI_CreateJavaVM stores into jni_context.jvm and jniEnv.
CreateVM(i) ==
  /\ pc[i] = "create"
  /\ jvm' = TRUE
  /\ created' = created + 1
  /\ env' = env \cup {on[i]}
  /\ Goto(i, "initLocks")
  /\ UNCHANGED <<on, spawnLock, ready, told, lock, item, cacheVars>>

\* JNI_CreateJavaVM fails: its error is returned, with spawnLock still taken.
CreateVMFails(i) ==
  /\ pc[i] = "create"
  /\ Answer(i, "error")
  /\ Goto(i, "idle")
  /\ UNCHANGED <<on, env, jvm, created, spawnLock, ready, lock, item, cacheVars>>

\* initAllLocks: whatever state the mutexes were in, they are free now.
InitAllLocks(i) ==
  /\ pc[i] = "initLocks"
  /\ lock' = [x \in Item |-> "free"]
  /\ Goto(i, "initExceptions")
  /\ UNCHANGED <<on, env, spawnVars, item, cacheVars>>

\* initExceptionHandling: its lookups take each of the two locks in turn.
InitExceptionHandling(i) ==
  /\ pc[i] = "initExceptions"
  /\ \A x \in Item : lock[x] = "free"
  /\ ready' = TRUE
  /\ Goto(i, "spawnDone")
  /\ UNCHANGED <<on, env, jvm, created, spawnLock, told, lock, item, cacheVars>>

\* Faulty: the answer is given before the exception methods are looked up.
SpawnReleaseEarly(i) ==
  /\ pc[i] \in {"initExceptions", "spawnDone"}
  /\ spawnLock' = "free"
  /\ Answer(i, "ok")
  /\ Goto(i, "idle")
  /\ UNCHANGED <<on, env, jvm, created, ready, lock, item, cacheVars>>

SpawnRelease(i) ==
  /\ pc[i] = "spawnDone"
  /\ spawnLock' = "free"
  /\ Answer(i, "ok")
  /\ Goto(i, "idle")
  /\ UNCHANGED <<on, env, jvm, created, ready, lock, item, cacheVars>>

-----------------------------------------------------------------------------
(* A generated C function: load_env, load_class, load_method, the call *)

\* Programs use JNI once they know that a Java VM was spawned.
MayUse(i) ==
  \/ \E j \in Isolate : "ok" \in told[j]
  \/ EagerUse /\ "exists" \in told[i]

Use(i) ==
  /\ pc[i] = "idle"
  /\ MayUse(i)
  /\ Goto(i, "loadEnv")
  /\ item' = [item EXCEPT ![i] = "class"]
  /\ UNCHANGED <<on, env, spawnVars, lock, cacheVars>>

\* Faulty: the environment is looked up once in the process.
LoadEnvOnce(i) ==
  /\ pc[i] = "loadEnv"
  /\ env' = IF env = {} THEN {on[i]} ELSE env
  /\ Goto(i, "check")
  /\ UNCHANGED <<on, spawnVars, lock, item, cacheVars>>

\* load_env and GetJniEnv: attach the thread unless it is attached.
LoadEnv(i) ==
  /\ pc[i] = "loadEnv"
  /\ env' = env \cup {on[i]}
  /\ Goto(i, "check")
  /\ UNCHANGED <<on, spawnVars, lock, item, cacheVars>>

\* On to the next item, or to the call.
Advance(i) ==
  IF item[i] = "class"
  THEN Goto(i, "check") /\ item' = [item EXCEPT ![i] = "method"]
  ELSE Goto(i, "call") /\ UNCHANGED item

\* Faulty: for the method, too, it is the class that is looked at.
CheckClass(i) ==
  /\ pc[i] = "check"
  /\ IF cache["class"] # None THEN Advance(i)
                              ELSE Goto(i, "lock") /\ UNCHANGED item
  /\ UNCHANGED <<on, env, spawnVars, lock, cacheVars>>

\* The first check of load_class_global_ref and load_method, without the lock.
Check(i) ==
  /\ pc[i] = "check"
  /\ IF cache[item[i]] # None THEN Advance(i)
                              ELSE Goto(i, "lock") /\ UNCHANGED item
  /\ UNCHANGED <<on, env, spawnVars, lock, cacheVars>>

\* Faulty: the result of trylock is ignored.
AcquireTrying(i) ==
  /\ pc[i] = "lock"
  /\ lock' = [lock EXCEPT ![item[i]] = "taken"]
  /\ Goto(i, "recheck")
  /\ UNCHANGED <<on, env, spawnVars, item, cacheVars>>

Acquire(i) ==
  /\ pc[i] = "lock"
  /\ lock[item[i]] = "free"
  /\ lock' = [lock EXCEPT ![item[i]] = "taken"]
  /\ Goto(i, "recheck")
  /\ UNCHANGED <<on, env, spawnVars, item, cacheVars>>

\* Faulty: no second check.
RecheckSkipped(i) ==
  /\ pc[i] = "recheck"
  /\ Goto(i, "load")
  /\ UNCHANGED <<on, env, spawnVars, lock, item, cacheVars>>

\* The second check, with the lock.
Recheck(i) ==
  /\ pc[i] = "recheck"
  /\ Goto(i, IF cache[item[i]] # None THEN "unlock" ELSE "load")
  /\ UNCHANGED <<on, env, spawnVars, lock, item, cacheVars>>

\* The lookup; what is missing raises, and nothing is cached.
Load(i) ==
  /\ pc[i] = "load"
  /\ IF item[i] \in missing
     THEN UNCHANGED <<cache, made>>
     ELSE /\ cache' = [cache EXCEPT ![item[i]] = i]
          /\ made' = [made EXCEPT ![item[i]] = @ \cup {i}]
  /\ Goto(i, "unlock")
  /\ UNCHANGED <<on, env, spawnVars, lock, item, missing>>

\* Faulty: after a failed lookup the lock is kept.
ReleaseUnlessMissing(i) ==
  /\ pc[i] = "unlock"
  /\ IF cache[item[i]] = None
     THEN Goto(i, "details") /\ UNCHANGED <<item, lock>>
     ELSE Advance(i) /\ lock' = [lock EXCEPT ![item[i]] = "free"]
  /\ UNCHANGED <<on, env, spawnVars, cacheVars>>

\* Unlock; with nothing cached the function returns the exception.
Release(i) ==
  /\ pc[i] = "unlock"
  /\ lock' = [lock EXCEPT ![item[i]] = "free"]
  /\ IF cache[item[i]] = None
     THEN Goto(i, "details") /\ UNCHANGED item
     ELSE Advance(i)
  /\ UNCHANGED <<on, env, spawnVars, cacheVars>>

\* The Java method returns or throws; a throwable is examined from Dart.
CallJava(i) ==
  /\ pc[i] = "call"
  /\ \E step \in {"idle", "details"} : Goto(i, step)
  /\ UNCHANGED <<on, env, spawnVars, lock, item, cacheVars>>

\* getExceptionDetails, through exceptionMethods.
GetExceptionDetails(i) ==
  /\ pc[i] = "details"
  /\ Goto(i, "idle")
  /\ UNCHANGED <<on, env, spawnVars, lock, item, cacheVars>>

-----------------------------------------------------------------------------

SpawnJvm(i) ==
  \/ SpawnAcquire(i) \/ SpawnCheck(i) \/ CreateVM(i) \/ CreateVMFails(i)
  \/ InitAllLocks(i) \/ InitExceptionHandling(i) \/ SpawnRelease(i)

Generated(i) ==
  \/ LoadEnv(i) \/ Check(i) \/ Acquire(i) \/ Recheck(i) \/ Load(i) \/ Release(i)
  \/ CallJava(i) \/ GetExceptionDetails(i)

Next ==
  \E i \in Isolate :
     \/ Spawn(i) \/ SpawnJvm(i) \/ Use(i) \/ Generated(i)
     \/ \E t \in Thread : Move(i, t)

Spec == Init /\ [][Next]_vars

(***************************************************************************)
(* The operating system runs every thread that is in native code; a thread *)
(* that waits for a mutex that is released again and again gets it in the  *)
(* end (a lookup that fails is repeated by every call; spawnLock is taken  *)
(* at most once by each isolate); a Java method returns.  Programs need    *)
(* not call anything.                                                      *)
(***************************************************************************)
Fairness ==
  \A i \in Isolate :
     /\ WF_vars(SpawnJvm(i))
     /\ WF_vars(Generated(i)) /\ SF_vars(Acquire(i))

FairSpec == Spec /\ Fairness

-----------------------------------------------------------------------------
(* Correctness *)

(***************************************************************************)
(* At most one Java VM is created, however many isolates spawn one.        *)
(***************************************************************************)
AtMostOneJvm == created <= 1

(***************************************************************************)
(* A class or method is looked up once in the process: no global reference *)
(* to a class is overwritten in the cache, and so leaked.                  *)
(***************************************************************************)
LookedUpOnce == \A x \in Item : made[x] \subseteq {cache[x]}

(***************************************************************************)
(* A JNI function is only called on a thread that is attached, although    *)
(* isolates move between threads.                                          *)
(***************************************************************************)
CallsAttached ==
  \A i \in Isolate :
     pc[i] \in {"load", "call", "details", "initLocks", "initExceptions"} =>
       on[i] \in env

(***************************************************************************)
(* While an isolate uses JNI, SpawnJvm has initialised the locks and the   *)
(* methods that getExceptionDetails calls.                                 *)
(***************************************************************************)
InitialisedBeforeUse ==
  \A i \in Isolate : pc[i] \in UseStep => ready

(***************************************************************************)
(* A call of a generated function returns to Dart.                         *)
(***************************************************************************)
UseReturns == \A i \in Isolate : pc[i] \in UseStep ~> pc[i] = "idle"

(***************************************************************************)
(* SpawnJvm answers: with JNI_OK, with an error code of the JNI or with    *)
(* DART_JNI_SINGLETON_EXISTS.                                              *)
(***************************************************************************)
SpawnReturns == \A i \in Isolate : pc[i] \in SpawnStep ~> pc[i] = "idle"

\* No step is possible that Fairness promises: whoever is in native code waits for
\* a lock that is taken.
AtRest ==
  \A i \in Isolate :
    \/ pc[i] = "idle"
    \/ pc[i] = "spawnWait" /\ spawnLock = "taken"
    \/ pc[i] = "initExceptions" /\ \E x \in Item : lock[x] = "taken"
    \/ pc[i] = "lock" /\ lock[item[i]] = "taken"

(***************************************************************************)
(* SpawnJvm, its lookups and those of generated functions take three locks *)
(* and never leave everyone waiting: at rest all calls have returned, but  *)
(* for those of SpawnJvm after a creation that failed, which kept its lock *)
(* (dartjni.c:182).                                                        *)
(***************************************************************************)
OnlyFailureBlocks ==
  AtRest =>
    \A i \in Isolate :
      pc[i] = "idle" \/ (pc[i] = "spawnWait" /\ \E j \in Isolate : "error" \in told[j])

-----------------------------------------------------------------------------
(* Refinement: the steps of SpawnJvm are one initialisation, and the checks, *)
(* locks and lookups of a generated function each find one item.             *)

CallOf(i) ==
  IF pc[i] = "details" THEN "failed"
  ELSE IF pc[i] \in UseStep THEN "running"
  ELSE "none"

\* The items that a generated function is past.
Obtained(i) ==
  IF pc[i] = "call" THEN Item
  ELSE IF pc[i] \in UseStep \ {"details"} /\ item[i] = "method" THEN {"class"}
  ELSE {}

Shared ==
  INSTANCE SharedRuntime WITH up <- ready, missing <- missing, value <- cache,
                              call <- [i \in Isolate |-> CallOf(i)],
                              got <- [i \in Isolate |-> Obtained(i)]

(***************************************************************************)
(* The runtime is initialised once and before its use; a call of a         *)
(* generated function finds the class and the method that were cached for  *)
(* good, and fails for a class or method only if Java does not have it,    *)
(* whatever other isolates do between its checks, locks and lookups.       *)
(***************************************************************************)
RefinesSharedRuntime == Shared!Spec

-----------------------------------------------------------------------------
(* The inductive invariant behind the safety properties *)

HoldsSpawnLock(i) ==
  pc[i] \in {"spawnCheck", "create", "initLocks", "initExceptions", "spawnDone"}

\* One isolate at a time creates the Java VM.
SpawnMutex ==
  /\ \A i \in Isolate : HoldsSpawnLock(i) => spawnLock = "taken"
  /\ \A i, j \in Isolate : HoldsSpawnLock(i) /\ HoldsSpawnLock(j) => i = j

\* What the second check has seen stays true until the Java VM is created.
VmInv ==
  /\ created = IF jvm THEN 1 ELSE 0
  /\ \A i \in Isolate :
       /\ pc[i] = "create" => ~ jvm
       /\ pc[i] \in {"initLocks", "initExceptions", "spawnDone"} => jvm

\* A thread stays attached, and an isolate keeps its thread, during an event.
AttachedInv ==
  \A i \in Isolate :
     pc[i] \in {"initLocks", "initExceptions"} \cup (UseStep \ {"loadEnv"}) =>
       on[i] \in env

\* Whoever was told "ok", or uses JNI, comes after the initialisation.
ReadyInv ==
  /\ ready => jvm
  /\ \A i \in Isolate :
       /\ pc[i] \in {"initLocks", "initExceptions"} => ~ ready
       /\ pc[i] = "spawnDone" \/ "ok" \in told[i] \/ pc[i] \in UseStep => ready

HoldsItemLock(i) == pc[i] \in {"recheck", "load", "unlock"}

\* One isolate at a time looks an item up, and only if nobody has.
CacheMutex ==
  /\ \A i \in Isolate :
       /\ HoldsItemLock(i) => lock[item[i]] = "taken"
       /\ pc[i] = "load" => cache[item[i]] = None
  /\ \A i, j \in Isolate :
       HoldsItemLock(i) /\ HoldsItemLock(j) /\ item[i] = item[j] => i = j

\* A generated function begins with its class; it has found nothing after a lookup
\* only if there is nothing.
LookupInv ==
  \A i \in Isolate :
    /\ pc[i] = "loadEnv" => item[i] = "class"
    /\ pc[i] = "unlock" /\ cache[item[i]] = None => item[i] \in missing

\* A lock is taken only while an isolate holds it that will release it, or, of
\* SpawnJvm's, after a failure.
HolderInv ==
  /\ spawnLock = "taken" =>
       \E i \in Isolate : HoldsSpawnLock(i) \/ "error" \in told[i]
  /\ \A x \in Item : lock[x] = "taken" =>
       \E i \in Isolate : HoldsItemLock(i) /\ item[i] = x

\* Holds whatever isolates do when they are told "exists" ...
SpawnInv == TypeOK /\ SpawnMutex /\ VmInv /\ AttachedInv /\ HolderInv

\* ... and this only if they wait, that is, unless EagerUse.
IInv == SpawnInv /\ ReadyInv /\ CacheMutex /\ LookupInv /\ LookedUpOnce
=============================================================================
