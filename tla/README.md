# A verification of jnigen's runtime

`package:jni` lets Dart call Java, and Java call Dart, through the Java Native
Interface (JNI); `package:jnigen` generates the Dart and C code that does so for
given Java classes. These TLA+ modules model the parts of both where several
threads, two garbage collectors and manual memory management meet, and the part
of the generator whose output has to agree with what it generated before. TLC
checks them on small instances; TLAPS proves the central results for all instances.
Line numbers below are those of the repository, without the prefix `src/`.

## Running

    tlc -workers 2 -config PortProxySafety.cfg MCPortProxy
    tlapm PortProxyProofs.tla

`PROJECT.json` lists every run, what each property guards against (`hazards`), a
fault that breaks it (`mutants`), and the source lines of every definition
(`map`). An operator whose comment starts with "Faulty:" is such a fault and is
used by no specification.

## The system

| Part | State | Operations | Hard behaviour |
| --- | --- | --- | --- |
| Callback protocol: `PortProxy.java`, `PortCleaner.java`, `dartjni.c`, `implement` in `dart_generator.dart` | ports and their queues, `_$impls`, a `CallbackResult` per call, global references | implement, invoke, post, wait, run, answer, clean up, collect, isolate exit | two threads share memory that one of them frees; condition variable; nested calls; GC of the proxy races calls; isolates exit |
| Runtime: `SpawnJvm`, `attach_thread`, `load_*` in `dartjni.[ch]`, C code of `c_generator.dart` | `jni_context`, `jniEnv` per thread, locks, caches | spawn, attach, look up, call, exception details | double-checked locking, failure between lock and unlock, isolates that change threads |
| References: `jreference.dart`, `jobject.dart`, `jfinal_string.dart`, `jvalues.dart` | `_reference`, `_released`, `_jClass`, attached finalizers, the reference table | fromRef, lazy reference, release, toPointer, castTo, finalize, JValueArgs | one owner per reference among four that may delete it; slots are reused |
| Suspend functions: `PortContinuation.java`, async methods of `dart_generator.dart` | a one-shot port, the future | create, call, resume, await, check the type | a resume that comes early or never, an isolate that is gone, other events meanwhile |
| Accessors and `GlobalJniEnv`: `dartjni.c`, `accessors.dart`, `global_jni_env.c`, generated C functions | attachment, pending exception and local references of a thread, global references made | look up, call, get, new, details, throw | every path must fetch the exception and delete its references; attach before use |
| Android: `JniPlugin.java`, `initializeJni`, `setJniActivity` | class loader, context, activity | attach, detach | a reference replaced while read |
| Arrays, collections, strings, buffers | the Java object, a cached length | one JNI call each | bounds, temporaries collected during a call |
| jnigen: Renamer and CGenerator | name counts per class and of all classes, method numbers; the C file | visit a class and its superclass, rename, write, copy `dartjni.h` | names that collide, overrides, order of visits, output that must not change when nothing did |
| jnigen: configuration, summary, other visitors, tools | a tree of class declarations | read, exclude, link, unnest, print | input and output, child processes |

They interact in three ways. Generated Dart code calls generated C code, which
uses the runtime and hands new global references to `JReference`. Java calls a
proxy, whose handler goes through `_invoke` to a Dart isolate and back; what the
isolate returns is a reference taken out of a `JObject` by `toPointer`. The Java
collector tells Dart through `PortCleaner`, the Dart collector tells Java through
the `NativeFinalizer`, which calls `DeleteGlobalRef`.

What makes each part correct: a callback is a synchronous call that leaks and
dangles nothing; the runtime is initialised once, before it is used, and its
caches hold one reference each; every global reference is deleted exactly once,
when no usable handle is left; a C function returns to Dart with no exception
pending and no reference lost; an async method completes with the answer; names
are unique, an override keeps its name, and the C library compiles and is the one
that was committed.

## Modules

| Module | Contents | Status |
| --- | --- | --- |
| `SyncCall` | what a callback promises: a synchronous call | abstract specification |
| `PortProxy` | the callback protocol | checked, proved |
| `PortProxyProofs` | its theorems | proved |
| `PortProxyRestProofs` | the theorem about what may keep waiting (extends `PortProxyProofs`) | proved |
| `SharedRuntime` | what the runtime promises: one initialisation, and lookups for all and for good | abstract specification |
| `JniRuntime` | spawn, attach, caches | checked, proved |
| `JniRuntimeProofs` | its theorems | proved |
| `JReference` | ownership of references | checked, proved |
| `JReferenceProofs` | its theorems | proved |
| `JniCalls` | the C functions as users of the JNI | checked as part of `SuspendCalls`, proved |
| `JniCallsProofs` | its theorems | proved |
| `AsyncCall` | what an async method promises: a future | abstract specification |
| `SuspendCalls` | suspend functions, composed with `JniCalls` (extends it) | checked, proved |
| `SuspendCallsProofs` | its theorems (extends `JniCallsProofs`) | proved |
| `Renamer` | the names of classes, methods and fields | checked, proved |
| `RenamerProofs` | its theorems | proved |
| `CGenerator` | the C library, after `Renamer` (extends it) | checked, proved |
| `CGeneratorProofs` | its theorems (extends `RenamerProofs`) | proved |
| `DartjniHeader` | `dartjni.h` and its committed copy, as tables | data of `MCCGenerator` |
| `GeneratedLibraries` | Java declarations and committed C functions of four libraries, as tables | data of `MCCGenerator` |
| `MC*` | constants and symmetry for TLC | |

### PortProxy

One thread per isolate runs its Dart code; Java threads run none. `stack[t]` is
the calls thread `t` is in, innermost last, so that a method called from Java can
call Java again, and be called in place by it. A call `c` is one
`CallbackResult`; it is never reused, so that a late access to a freed one is
visible. `pc[c]` is the position of the caller in `_invoke` and `_cleanUp`
(`dartjni.c:667-740`), `dart[c]` that of the isolate, with one action for each
statement of `resultFor` (`:653-660`). `lock`, `ready` and `object` are the
fields of the struct; the condition variable is the state `asleep`, and
`SpuriousWakeup` may leave it at any time. `grefs` is the set of live global
references. `queue[s]` is the event queue of an isolate (ports of one isolate
share it); posting to a port that is not open drops the message.
`InvokeRemote`/`InvokeDirect` are the two branches of `:677`; `RunMethod` is
`_$invokeMethod` as `dart_generator.dart:442-459` generates it; `ReceiveClose`
and `ReceiveCall` are the listener (`:480-489`). `Drop`, `Collect` and `Clean`
take a proxy from "reachable" over the collector to `PortCleaner`. `Exit` is an
isolate that ends between two events. Method descriptors, arguments and values
are abstracted to the references that carry them and to whether the method
yielded a value, null or an error.

`AtRest` describes the states in which no step is possible that fairness promises,
and `NothingForgotten` says who still waits in them: only callers, and ports, that
need an isolate which has exited or is in, or behind, a cycle (`Stuck`). It is what
`EveryCallReturns` and `PortCloses` say without the scheduling, so it can be
proved. `JniRuntime` (`OnlyFailureBlocks`) and `SuspendCalls`
(`NoAnswerForgotten`) have such a property too.

### JniRuntime

`pc[i]` is where isolate `i` is: in `SpawnJvm` (`dartjni.c:157-190`, the checks
and each initialisation step an action) or in a generated C function
(`c_generator.dart:219-230`): `load_env`, then for the class and for the method a
check without the lock, the lock, a check under it, the lookup, the unlock
(`dartjni.h:299-338`). The second checks are steps of their own, so that what
they saw would be stale later if the locks did not exclude other isolates. `missing`
is chosen once: a class or method that Java does not have, whose lookup raises and caches nothing. `on[i]` is the thread isolate
`i` runs on; `Move` lets the Dart VM continue it on another one between events.
`created` is how many Java VMs there are; `spawnLock` is only ever freed by the
code, so a failed creation leaves it taken. The generated library's `jniEnv` and
that of `dartjni.c` are both set by `LoadEnv` and are one here. In the states at
rest whoever is in native code waits for a lock that is taken (`AtRest`);
`OnlyFailureBlocks` says that this is `spawnLock` after a failed creation.

`RefinesSharedRuntime` hides the locks: `up` is `ready`, a call of a generated
function runs from `load_env` to its return, and it has an item once it is past the
check that found it in the cache. The step that goes past is `Obtain`, with or
without the lock; the lookup that stores is `Find`; checking, locking and a lookup
that finds nothing are stutters.

### JReference

A handle is a Dart object; `Kind` tells a `JObject`, a `JClass` and a
`JFinalString` (lazy) apart. `live` are the slots in use of the reference table,
and a new reference may take any free slot, which is what makes a double deletion
harmful. `attached[h]` is what the finalizer of `h` will delete: a set, because a
lazy handle attaches when it is first used. `jclass[h]` is the cached class, which
`release` releases first. `java` are references given away by `toPointer`.
`phase`, `temps`, `args` and `runs` are one dynamic call: `JValueArgs` converts
its arguments, each of which registers `_dispose`. A Dart object an operation
works on is `Finalizable` and so outlives the operation, which makes operations
atomic; the calls of `JValueArgs` are not, and anything may happen in between.

A `JFinalString` that is released and cast afterwards (`CastMoveStale`) is a
misuse whose consequences are not held against the code: `miscast` records it and
`UnreleasedIsLive` and `OwnedOnce` exempt what happens then.

Two state predicates say what a program keeps to so that the two faults of the code
below do it no harm: `LoneString` (a string is the only argument of its call) and
`UsedBeforeRelease` (no final string is released before its first use). They are
conditions of theorems; the actions do not know them.

### JniCalls

A C function is the sequence of its steps with the JNI, as `Code(f)` gives it:
`callMethod` is `<<"attach", "call", "check", "global", "return">>`. An isolate
takes them one at a time on `thread[i]`, the thread of the pool that handles its
event (`Handle`, `Park`). `attached`, `pending` and `locals` belong to threads:
whether `jniEnv` is set, whether an exception is pending, which local references
the C code has made. `found`, `valid` and `held` are the local variables of the
function in progress: whether the object looked up exists, whether the result may
be used, the global references in hand. A step that may raise either raises
(`Raise`) or succeeds; which steps may is the set `Raising` less what is `Adverse`.
Returning a result with an exception makes Dart call `getExceptionDetails`
(`ThrowException`, program `throwException`) and throw (`Throw`), as `_check` in
`accessors.dart:14-18` does. A generated function's caches and locks are left to
`JniRuntime`. `Adverse` is what can go wrong that the code is not prepared for:

- `freshLookup`: `getMethodID` and its siblings evaluate `(*jniEnv)->GetMethodID`
  before `_getId` attaches the thread (`dartjni.c:216`);
- `missingField`: a generated accessor does not test the field ID
  (`c_generator.dart:293`);
- `ownConstructor`: `DartException__ctor` and `PortContinuation__ctor` fetch the
  exception twice, and the second time there is none (`dartjni.c:592`);
- `toStringThrows`: `getExceptionDetails` calls `toString` and `printStackTrace`
  without a check (`dartjni.c:517`).

Each was a counterexample first: the code is right but for these four, which are
hazards in `PROJECT.json`. Of two the comments say what should happen: the last
contradicts `dartjni.h:204-206`, every function of the struct clears exceptions
before it returns to Dart, and the third `dartjni.h:175`, a result without an
exception is valid. Of the first no comment or test says anything; what jnigen does to bring about the
second is shown by `renamer_fields`. The run `calls` takes `Adverse` to be empty, so
what it checks says nothing of the four; the theorems say, for any set of them, which
property survives which circumstance.

### SuspendCalls

`stage[c]` is how far the async method of call `c` has come
(`dart_generator.dart:1307-1323`): it makes the continuation, calls Kotlin, awaits
the port, wraps the answer and tests its type; each of these calls C, so that a
stage ends when `JniCalls` returns (`SReturn`, `SThrow`). Between `await` and the
answer the isolate handles other events and may change threads. `coroutine[c]`
suspends or returns in the step in which C calls the Kotlin function; one that
suspended is resumed once, on a thread of Kotlin, at any time from then on
(`Resume`: `_resumeWith`, `dartjni.c:595-605`, makes a global reference and posts
it), before the C function has returned as well. `Exit` closes the ports of an
isolate; a message in them, and its reference, are lost.

`RefinesAsyncCall` maps the stages of the method to a future (`Future`: pending
until the method returns or throws), and the port together with what the method has
received to the reply of the coroutine (`Replied`): posting it is `Reply`, however
early, and taking it out of the port is a stutter. `IsExpected` is the test that
makes the future fail with the coroutine's failure.

`NoAnswerForgotten` is about the states at rest (`AtRest`): no C function can take
its next step (`GoesOn`), no event handler ends, no coroutine is to be resumed, and
no thread is free for an answer that has come. At least one thread exists
(`SuspendAssumption`), or nothing could run.

### Renamer

`_ClassRenamer.visit` (`renamer.dart:154-191`) is recursive: `stack` holds the
classes being visited, since a class visits its superclass before it copies its
counts (`Inherit`). `RenameMethod` takes the number of the method in the
superclass if there is one, and otherwise the next of its name; `RenameField`
always the next. `Programs` is the set of Java programs considered: superclasses,
lists of methods and fields, the classes that come from symbol files and so keep
the numbers of the run that made them (`ImportedNums`). A name is a text and the
numbers after it, so that appending a number is what it is in the code and `foo`
with 1 is `foo1`. The superclass that `Linker` gives to every class is an
assumption.

### CGenerator, DartjniHeader, GeneratedLibraries

`CGenerator` writes the file in the order of the summary: the prelude, then for
each class its variable, methods and fields (`c_generator.dart:96-101`,
`:140-159`). `classAt` and `memberAt` are where those two loops are (`AtNext`
advances them). `FileComplete` says that the finished file has the entries of
every class and member with their final names and no other. Of a function it keeps its name, whether
it takes the object, what it looks up and under which name, which JNI function it calls and in which member of
`jvalue` the result is. `DartjniHeader` is the header as it is copied
(`:104-107`): what it defines, in order, for which platform, and what each
definition uses. `GeneratedLibraries` has, as the repository has them, the Java
declarations (those of `android_utils` are quoted above each member of the
generated Dart code, the others are Java and Kotlin sources) and the functions of
the committed C files; of `simple_package` only the two classes with fields of primitive
types. The model generates the libraries from the declarations and compares.

Two things that the comparison taught: a method that overrides one of a
grandparent, with a class in between that does not, is taken for an overload and
gets a new name (`getSigningSignatures1` of API28, `renamer.dart:206`), and
`equals` and `hashCode` always get a number.

## What the runs show

| Run | Bounds | Result |
| --- | --- | --- |
| `callback_safety` | 2 isolates with a proxy each, 1 Java thread, 2 calls, one isolate may exit | `WaitInv`, the inductive invariant of the proofs (with `IInv` and `TypeOK`), `CellOutlivesResolver`, `CallsFindImplementation`, `ResultRefLive`, `NothingLeftBehind`, `NothingForgotten`; implements `SyncCall` |
| `callback_progress` | 2 isolates that call each other, 2 calls | `EveryCallReturns`, `PortCloses` |
| `runtime` | 2 isolates that both spawn, 3 threads, class or method missing | `IInv`, `AtMostOneJvm`, `LookedUpOnce`, `CallsAttached`, `InitialisedBeforeUse`, `OnlyFailureBlocks`, `UseReturns`; implements `SharedRuntime` |
| `runtime_race` | the same, isolates that are told "exists" go on at once | violates `InitialisedBeforeUse` |
| `runtime_failure` | creation of the Java VM may fail | violates `SpawnReturns` |
| `reference_ownership` | 2 objects, 1 class, 1 final string, 3 slots, calls of at most 1 argument | `IInv` (with `TypeOK`), `OwnedOnce`, `UnreleasedIsLive`, `ClassCacheUsable` |
| `reference_stale_use` | final string, object, class, 3 slots, calls of at most 1 argument | violates `FurtherUsesThrow` |
| `reference_args` | 2 objects, 1 class, calls of at most 2 arguments | violates `UnreleasedIsLive` |
| `calls` | 1 isolate that calls a suspend function and every C function and may exit, a second that takes threads, 2 threads, 1 reference kept | `SInv` (with `STypeOK` and `AnswerKept`), `NoPendingInDart`, `JniUsedLegally`, `ResultValid`, `NothingLost`, `LocalsDeleted`, `AnswerKept`, `NoAnswerForgotten`, `AsyncCompletes`; implements `AsyncCall` |
| `renamer` | 3 classes in a chain or a fork, at most 2 methods each and 1 field in all, the first class imported or not | `IInv` (with `TypeOK` and `ClassesDistinct`), `MembersDistinct`, `OverrideKeepsName`, `NumbersByDeclaration`, `AllNamed` |
| `renamer_fields` | the same | violates `FieldsFound` |
| `generated_c` | four libraries of the repository | `Compiles`, `AsCommitted`, `FileComplete`, `Reproduced` |

Why the bounds are enough for the interesting cases. Two calls are needed for
calls that overlap, for one that is queued behind another, and for a cycle of two
isolates; three, with one isolate, for a nested call while others are queued. One
proxy is enough for the race of null with calls, two for isolates that wait for
each other. Every shared datum of the runtime is reached by two isolates; the
third thread gives one of them somewhere to move. Three slots are one more than
the two handles that a double deletion takes, so a slot can be reused while
another is live. In `calls` isolates share nothing but the threads, and C functions
of two isolates touch only each its own thread and references (the proofs are for
any number), so that one isolate that calls and one that takes threads away from
it meet every case: attached threads that others attached, or did not. `renamer`
has overloads in both orders, a keyword, a member of `JObject`, a field named like
a method, and classes whose superclass comes after them, is imported, or is the
superclass of another; a chain of three is needed for inherited counts of
inherited counts. `generated_c` has no bound: it has 19 classes with 8 to 28
members in the larger ones, and constants, final and static fields, overloads,
constructors, and a chain of three classes in the reverse order of the summary.
Deadlock is checked for references only. The programs of isolates and Java threads, and visitors,
may end; isolates wait in cycles or for one that has exited; after a failed spawn all
wait. The liveness properties say which of these stops are allowed.
Symmetry is used over calls, threads and slots, never with liveness.

### Disagreements

Five runs show the code against its own documentation; `PROJECT.json` quotes both.

1. `SpawnJvm` keeps `spawnLock` when `JNI_CreateJavaVM` fails (`dartjni.c:182`):
   the next `SpawnJvm` never returns. Nothing else in the runtime waits for ever
   (`OnlyFailureBlocks`, proved as `NobodyElseWaits`).
2. `jni_context.jvm` is set before locks and exception handling are initialised
   (`dartjni.c:180-186`): an isolate told `DART_JNI_SINGLETON_EXISTS` may use them.
3. `JValueArgs` registers `_dispose` once per argument (`jvalues.dart:134`): with
   two arguments, one of them a string, that string's reference is deleted twice.
   Ownership holds in every execution in which a string is the only argument of its
   call (`LoneString`; proved as `OneOwner`). In `reference_ownership` that is so
   because calls have one argument; with two and this condition as a CONSTRAINT, TLC
   found no error either, in 760,282 states.
4. `JLazyReference.reference` does not look at `_released` the first time
   (`jreference.dart:104`). A program that releases no final string before its first
   use (`UsedBeforeRelease`) does not notice (`ReleasedForGood`).
5. The C accessor of a field that is renamed in Dart, because it is a keyword or has
   the name of a method, looks the Java field up under its Dart name
   (`c_generator.dart:248`, `:293`); the comment above the Dart accessor and the
   Dart-only bindings use the Java name. The lookup fails, the ID is not tested:
   jnigen brings about `missingField` itself.

Two more are circumstances of `JniCalls`, which no run has switched on; TLC finds
each in the instance of `calls` when `Adverse` is changed.

- `{"toStringThrows"}` violates `NoPendingInDart`: `getExceptionDetails` calls
  `toString` and `printStackTrace` of the exception and tests neither (`dartjni.c:517`,
  `:525`), although it is one of the functions of which `dartjni.h:204-206` says that
  they clear the exception before they return to Dart. If one throws, Dart goes on
  with it pending. No other circumstance does that (`ExceptionsFetched`).
- `{"ownConstructor"}` violates `ResultValid`: `DartException__ctor` and
  `PortContinuation__ctor` call `check_exception` a second time for the result
  (`dartjni.c:592`, `:628`), after the first call has cleared the exception. If the
  constructor threw, that is reported as a valid result, against `dartjni.h:175`.
  Without these two circumstances every failure is reported (`NoSilentFailure`).

Not claims of the documentation, but visible in the properties' exceptions: a
suspend function that returns without suspending never completes its future
(`AsyncCompletes`, `dart_generator.dart:1316`); a new overload below an imported
class may take the name of an inherited one (`MembersDistinct`,
`renamer.dart:177`); the stack trace of every exception leaves two local references
behind (`LocalsDeleted`, `dartjni.c:519`).

### Fairness

`PortProxy`: weak fairness for every thread in native code, for the event loops,
for the methods of the user and for `PortCleaner`, whose thread never ends; strong
fairness for the lock in `resultFor`, because a caller that wakes up spuriously
again and again frees it again and again. None for collectors, finalizers, exits,
spurious wakeups and what programs do of their own accord. `EveryCallReturns`
exempts what no fairness can help: a call whose isolate has exited (`_invoke`
ignores the result of `Dart_PostCObject`, `dartjni.c:703`) or is in, or behind, a
cycle of isolates waiting for each other. `JniRuntime`: weak fairness for
isolates in native code, strong fairness for the locks of the caches, which a
failing lookup takes at every call. `SuspendCalls`: weak fairness for C functions
and the methods that call them; strong fairness for the end of an event handler and for the
delivery of an answer, since an isolate may be given other events again and again;
and a coroutine that is suspended is resumed, which is Kotlin's promise.
`AsyncCompletes` exempts isolates that exit and coroutines that never suspended.
`Renamer` and `CGenerator`: weak fairness for the next step, since a visitor runs
to its end.

## What is proved

`PortProxyProofs` proves, for any sets of isolates, threads, proxies and calls,
with the assumption `ConstantsAssumption` (each proxy has an owner; threads,
calls and proxies are distinct from one another and from `None`):

- `CallbackInvariant`: `Spec => []IInv`; from it `TypeCorrect`, `NoUseAfterFree`,
  `ImplementationPresent`, `ResultNotDangling` and `ReturnedCallIsClean`, which
  are the invariants of `callback_safety`;
- `Refinement`: `Spec => RefinesSyncCall`, the callback protocol implements
  `SyncCall`.

The properties are not inductive. That the caller frees a `CallbackResult` only
when the isolate is done with it needs to know who holds the lock (`LockInv`) and
what `ready` means for the isolate's position (`RendezvousInv`): `ready` is set
and signalled under the lock, and a caller only leaves while it holds it. That
the lookup in `_$impls` succeeds needs `ProxyInv` (a proxy in native code is not
collected, and an uncollected proxy has its port open) and `QueueInv` (each queued
call is still waiting, is queued once, and for its own proxy; a queued null means
that the phantom was cleaned). `AnswerInv` ties the reference delivered to what
the method yielded. `FreshInv` says that calls not yet made have touched nothing.
`IInv` is their conjunction with `TypeOK`; `callback_safety` checks it as part of `WaitInv`.

The proofs use two facts that summarise a step: a step touches one call
(`OnlyTouches`), so the invariants of the others are kept, and a queue changes by
an append or by removal of its head. Each group of actions then has a lemma for
types, for calls, for proxies and for queues. The refinement maps a call to
`requested` until the method has run, to `executed` until `_cleanUp`, and then to
`returned`; every other step stutters.

`PortProxyRestProofs` proves, from the same assumption:

- `WaitInvariant`: `Spec => []WaitInv`, and from it `OnlyStuckCallsWait`
  (`NothingForgotten`).

`IInv` says nothing about the order of frames or about a message that should be
there. `WaitInv` adds, per thread, that the frames of the calls in progress are on its
stack, each once, and that all but the innermost run a method (`StackInv`); per
call, that one which was posted is in the queue until the isolate takes it, and that
a caller which was signalled is awake (`PostedInv`); per proxy, that the null is in
the queue while the port of a cleaned proxy is open (`ClosedInv`). The argument at
rest goes from a caller to its isolate: the isolate is not at its event loop, or its
queue would be empty and the call taken; so it is in a call whose frame is innermost,
and that one waits for a further isolate. The isolates reached in this way are a set
that contains the next isolate of each of its members, all waiting, which is what
`Stuck` asks for.

`JniRuntimeProofs`, for any sets of isolates and threads (`RuntimeAssumption`):

- `SpawnInvariant`: `Spec => []SpawnInv`, whatever isolates do when they are told
  "exists"; from it `OneJvm`, `AttachedCalls` and `NobodyElseWaits`
  (`OnlyFailureBlocks`);
- `RuntimeInvariant`: `Spec => []IInv` if `EagerUse` is false, that is if isolates
  wait for `DART_JNI_OK`; from it `OneLookup` and `InitialisedFirst`. The run
  `runtime_race` shows that the condition is needed;
- `RuntimeRefinement`: `Spec => RefinesSharedRuntime` under the same condition. That
  a call fails only for what Java lacks rests on `LookupInv`: nothing is in the cache
  after a lookup only if the item is missing.

What a second check saw still holds at the store because at most one isolate is
past it: `SpawnMutex` (the creator holds `spawnLock`) and `VmInv` (there is no Java
VM before its store) for `SpawnJvm`; `CacheMutex` for the caches. The latter needs
`ReadyInv`: `initAllLocks` runs once, before any isolate uses a lock, so it never
frees one that is taken. `AttachedInv` says that `jniEnv` of the isolate's thread
is set from `load_env` or `JNI_CreateJavaVM` on, since an isolate changes threads
between events only. `HolderInv` says of each lock that is taken who holds it: the
holder of a cache's lock is on its way to the unlock and waits for nothing, and
`spawnLock` has no holder only after an error.

`JReferenceProofs`, for any sets of handles of any kinds, and slots
(`HandleAssumption`):

- `HandlesInvariant`: `Spec => []HandlesInv`, for calls with any number of
  arguments; from it `ReferenceTypes` and `CachedClassUsable`;
- `ReferenceInvariant`: `Spec /\ []LoneString => []IInv`; from it `OneOwner` and
  `NoDangling`, and `OneArgument`, where calls have at most one argument and the
  condition holds of itself;
- `ReleasedForGood`: `Spec /\ []UsedBeforeRelease => FurtherUsesThrow`;
- `ExactlyOneOwner`: under both conditions every reference has exactly one owner, with
  no exemption for a cast (`NeverMiscast`).

The conditions are on executions, not on constants: they exclude what a program does,
and each operation is proved for any number of arguments and for every kind of
handle. The runs `reference_args` and `reference_stale_use` show that they are
needed. Ownership is not inductive: a finalizer may delete its slot because a reachable handle that is
not released is attached to its own pointer, and a released one to nothing unless
it is lazy (`AttachedInv`), a handle that is not made yet is attached to nothing
(`HandleInv`), a cached class belongs to one object, which alone can release it
(`CachedInv`), and `_dispose` runs at most once for each argument, so once for a string
that is alone (`CallInv`, `LoneString`). Each operation has one proof step for each of these parts. Final strings are in the
proofs too: what one does after its release is exempted by `miscast` only if it
gives a reference away.

`JniCallsProofs`, for any sets of isolates and threads, any functions they call,
any bound on references kept and any `Adverse`:

- `CallsInvariant`: `Spec => []IInv`; from it the five properties, each as far as it
  survives what may go wrong, and `ReferencesNeverOverdrawn` (there are at least the
  global references that isolates have in hand or own, whatever goes wrong, so that
  what is lost then is a leak and never a reference deleted under its owner).

| | `freshLookup` | `missingField` | `ownConstructor` | `toStringThrows` |
| --- | --- | --- | --- | --- |
| `ExceptionsFetched` (`NoPendingInDart`) | survives | survives | survives | breaks |
| `LegalUse` (`JniUsedLegally`) | breaks | breaks | survives | breaks |
| `NoSilentFailure` (`ResultValid`) | survives | survives | breaks | breaks |
| `ReferencesAccounted` (`NothingLost`) | survives | survives | breaks | breaks |
| `ReferencesNeverOverdrawn` (`NothingOverdrawn`) | survives | survives | survives | survives |
| `NoLocalsLeft` (`LocalsDeleted`) | survives | survives | survives | survives |

"Survives" is proved, for all survivors of a property together. "Breaks" was found by
TLC on the instance of `calls`, with `Adverse` changed and the global references
bounded; all sixteen sets agree with the table.

The invariant says what each step finds (`StepInv`), in layers: `FrameInv` holds
whatever happens, `PendingInv`, `FoundInv` and `ResultInv` are about pending
exceptions, IDs and results and each holds without the circumstances that break
it (`Without`): an exception can be pending
only where the next step is one that fetches it, a result that is not valid meets
a step that makes an exception of it, and so on. It holds because of what may follow
what in the functions (`Follows`, proved for each of them by lemmas like `PlainShapes`
over `Code`), so that an action is verified once for all functions. `Apart` (no
two isolates on one thread) keeps a step of one isolate from another's; `ThreadInv`
says what an isolate finds on a thread that it is given.

`SuspendCallsProofs`, for any number of calls as well:

- `SuspendInvariant`: `SSpec => []SInv`; from it `SuspendTypes`, `SuspendSafe` (the
  properties of the table, in the composition) and `AnswerNotLost`;
- `AnswersAwaited`: `SSpec => []NoAnswerForgotten`, unless `Adverse` has `freshLookup`,
  which stops an isolate half way;
- `AsyncRefinement`: `SSpec => RefinesAsyncCall`, the port, the continuation and the
  async method implement the future of `AsyncCall`.

A step of the composition is a step of `JniCalls` or leaves it unchanged, which
keeps `IInv`; the rest is about one call at a time. That the answer is kept
needs that a coroutine begins in the only step of its call that calls Kotlin
(`CoroutineInv`), that the port stays open until the answer was received
(`PortInv`), that the method of one call is active in its isolate (`MethodInv`) and
that it has nothing in hand between two calls of C (`PausedInv`). The refinement
needs besides which stages of the method have an answer, and that a port has one
only of a coroutine that was resumed and while its isolate lives (`DeliveryInv`).
That no method waits in vain needs `BusyInv`: a method that calls C has a function
or its exception in hand, one that calls Kotlin ends with an exception unless a
coroutine has begun (`Unanswered`), and one that awaits has a coroutine. So at rest
no function is in progress, no thread is taken, and a suspended coroutine or an
answer in a port would still have a step.

`RenamerProofs`, for any classes, names and overloads, all programs, and every order
in which the classes are visited:

- `RenamerInvariant`: `Spec => []IInv`; from it `RenamerTypes`, `ClassNamesDistinct`,
  `OverridesKeepNames`, `MemberNamesDistinct` and `NumbersAreDeclarations`;
- `FieldsFoundIfFirst`: exactly which fields the C accessors find in Java: those
  that are the first of their name in their lineage, and no keyword or member of
  `JObject`. The run `renamer_fields` finds one that is not.

None of the properties is inductive by itself: that a name is new depends on the
counts, and those of a class on what its superclasses have, so `CountInv` says that
each number in a lineage is below the count, and `VisitInv` that no lineage grows
once a subclass has its counts, which rests on the order of the stack (`StackInv`:
each class waits for its superclass, of lower rank). `MethodInv` ties the numbers to
the names, and is what an override finds in its superclass. `NumberInv` says that the
counts of a class count the declarations above and before (`CountedMembers`), which
makes `NumbersByDeclaration` provable: a class takes over the counts of a superclass
whose lineage is finished, and each declaration adds one member and one to the count.
Names that `MembersDistinct` leaves out (`Ambiguous`) are those of which one is the
other with a digit added. A `Lineage` is defined as
the smallest closed set, since a proof by induction over superclasses is beyond this
prover; `LineageStep` and `LineageFinished` replace the induction.
`RenamerAssumption` describes what the Java language gives (no cycles, no two members
of one signature), and that no keyword or member of `JObject` ends with a digit.

`CGeneratorProofs`, for any programs, on top of the theorems of `RenamerProofs`:

- `GeneratorRenames`: `GSpec => []IInv`, since each step of the generator is one of
  the Renamer or leaves its variables alone;
- `FileInvariant` (`CursorInv`, `FileInv`) and from it `LibraryComplete`
  (`FileComplete`): the file has exactly what the loops have passed, each entry with
  its final name, since nothing is left to rename when writing begins (`RenamerStops`);
- `GeneratorInvariant` (`GInv`) if the programs are `PlainNames`: no two entries
  define one symbol. A symbol is a class and a member name with a suffix for an
  accessor; those of two classes differ by the class, those of one by the member,
  which `MembersDistinct` and the numbers tell apart;
- `LibraryCompiles` (`Compiles`) if moreover `dartjni.h` is `HeaderComplete`: what
  the functions use is defined before them, on every platform.

`PlainNames` excludes names with which the code does produce a duplicate (`foo`
twice, next to a `foo1`) and superclasses whose counts are unknown because they are
imported; `HeaderComplete` is a statement about one given file. `MCCGenerator` has
TLC evaluate both for the libraries and the header of the repository
(`CommittedPlain`).

Only model-checked, not proved: the liveness properties `UseReturns`,
`EveryCallReturns`, `PortCloses`, `AsyncCompletes`, `AllNamed` and `Reproduced`,
because this prover does not treat liveness; and `AsCommitted`, which compares with
four given files, where the run is the proof. The safety halves of the first four
are proved, as `NobodyElseWaits`, `OnlyStuckCallsWait` and `AnswersAwaited`: where
nothing can go on, everybody has got what the property promises. What they leave to
the runs is that a system with fair steps to take comes to that point, and that
`AtRest` is the same as no fair step being enabled. The latter needs `ENABLED`, which
is out of the prover's reach; TLC found the two to agree in all reachable states of
the instances of the runs, for `SuspendCalls` with any `Adverse` and for `JniRuntime` with and
without `EagerUse`. If `AtRest` held in fewer states than that, the theorems would
say less.

Each property that the code violates has a theorem that says when it does hold, or
what its violation is limited to: `InitialisedFirst`, `NoDangling`, `ReleasedForGood`,
`FieldsFoundIfFirst`, `ExceptionsFetched`, `NoSilentFailure` and, for `SpawnReturns`, `NobodyElseWaits`.

## Plan

1. The composition of `JReference` with `JniCalls`, which hands references over, and
   that the owners of both together are those of the reference table.
2. `Linker` and `Unnester` over small class hierarchies: every type is linked, no
   type refers to an excluded class, `superCount` is that of the whole chain.
3. Android: the activity replaced by the UI thread while isolates read it.
4. Operators checked against reference definitions: lowest common super type
   (`types.dart`), index arithmetic of `JList`, ranges of `JArray`.

## Not modelled

- The vendored headers under `jni/src/include` (`dart_api.h` and the others): the
  interface of the Dart VM, declarations only. What the code uses of it
  (`Dart_PostCObject_DL`, `Dart_CurrentIsolate_DL`) is in `PortProxy`.
- The runners of Flutter examples for Windows and Linux: templates of Flutter.
- The other copies of `dartjni.h`, which are the same file as the one modelled.
- Those of the `GlobalJniEnv` wrappers that check nothing, and exception functions
  of the JNI themselves.
- Arrays, collections, strings and buffers: one Java call per operation.
- Summaries, configuration, filters, tools, CMake, the other visitors: see
  `PROJECT.json` for each.
- Of `Renamer`: names of parameters, names in files of several classes (each file
  has its own prefix). Java names that differ only in the digits at their end are in
  the model, but the properties allow them to get one name.
- Of `CGenerator`: parameters, descriptors and binary names; the ambiguity of
  `A__b` with `c` and `A` with `b__c`.
- Android's class loader, context and activity: who replaces them, and when, is
  decided by the Android runtime outside the repository.
- Lookups that fail now and succeed later; running out of memory in JNI.
- The Java side's own synchronisation: Java threads do not wait for each other.
- `FindClass`'s own local reference and `load_class_local_ref`.
- Identity of isolates by address (`dartjni.c:677`): isolates are never reborn.
- User arenas (`releasedBy`) beyond the plain `release` they call.
