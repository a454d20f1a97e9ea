------------------------------ MODULE JReference ------------------------------
(***************************************************************************)
(* Ownership of JNI global references in Dart (package:jni).               *)
(*                                                                         *)
(* A JReference wraps a global reference.  It is deleted by release(), by  *)
(* the NativeFinalizer attached to the object, by the Java side once       *)
(* toPointer has given it away, or, when it is a string made for the       *)
(* arguments of one call, by JValueArgs.  Deleting a reference frees its   *)
(* slot, which the next NewGlobalRef of any thread may reuse: deleting it  *)
(* twice deletes the reference of somebody else.                           *)
(*                                                                         *)
(* Operations are atomic: Dart objects belong to one isolate, and an       *)
(* object an operation works on is Finalizable, hence not collected under  *)
(* it.  The operations of several isolates interleave, one object at a     *)
(* time, and those of JValueArgs also with the calls in between.           *)
(***************************************************************************)
EXTENDS Naturals

CONSTANTS
  Handle,    \* Dart objects that extend JReference; each is created once
  Kind,      \* [Handle -> ...]: JObject, JClass or JFinalString
  Ref,       \* slots for global references
  MaxArgs,   \* bounds the arguments of one call
  None       \* no handle; the null pointer

ASSUME HandleAssumption ==
  /\ Kind \in [Handle -> {"object", "class", "lazy"}]
  /\ None \notin Handle \cup Ref
  /\ MaxArgs \in Nat

VARIABLES
  live,      \* the slots that hold a global reference
  born,      \* the handles that exist
  ptr,       \* ptr[h]: _reference, for a lazy handle _lazyReference
  released,  \* the handles with _released set
  attached,  \* attached[h]: what the finalizer of h will delete
  jclass,    \* jclass[h]: the cached _jClass
  held,      \* the handles the program can reach by itself
  java,      \* references given to Java by toPointer
  phase,     \* where JValueArgs is: "idle", "filling", "calling", "disposing"
  temps,     \* its createdRefs
  args,      \* the arguments converted, each registered _dispose once
  runs,      \* how often _dispose has run for this call
  miscast    \* history: a string was cast after its release (CastMoveStale)

callVars == <<phase, temps, args, runs>>
handleVars == <<born, ptr, released, attached, jclass, held>>
vars == <<live, handleVars, java, callVars, miscast>>

TypeOK ==
  /\ live \subseteq Ref
  /\ born \subseteq Handle
  /\ ptr \in [Handle -> Ref \cup {None}]
  /\ released \subseteq Handle
  /\ attached \in [Handle -> SUBSET Ref]
  /\ jclass \in [Handle -> Handle \cup {None}]
  /\ held \subseteq Handle
  /\ java \subseteq Ref
  /\ phase \in {"idle", "filling", "calling", "disposing"}
  /\ temps \subseteq Ref
  /\ args \in 0..MaxArgs
  /\ runs \in 0..MaxArgs
  /\ miscast \in BOOLEAN

Init ==
  /\ live = {}
  /\ born = {}
  /\ ptr = [h \in Handle |-> None]
  /\ released = {}
  /\ attached = [h \in Handle |-> {}]
  /\ jclass = [h \in Handle |-> None]
  /\ held = {}
  /\ java = {}
  /\ phase = "idle"
  /\ temps = {}
  /\ args = 0
  /\ runs = 0
  /\ miscast = FALSE

-----------------------------------------------------------------------------
(* Creation *)

Fresh(r) == r \in Ref \ live

\* The getter reference gives ptr[h]; that of an unused lazy handle is FirstUse.
Usable(h) ==
  /\ h \in held /\ h \notin released
  /\ Kind[h] = "lazy" => ptr[h] # None

\* fromRef(p) for a new handle; nothing is attached for the null pointer.
FromRef(h, p) ==
  /\ h \notin born
  /\ born' = born \cup {h}
  /\ ptr' = [ptr EXCEPT ![h] = p]
  /\ attached' = [attached EXCEPT ![h] = {p} \ {None}]

\* A JNI call returned a new global reference; the program wraps and keeps it.
Wrap(h, r) ==
  /\ Kind[h] # "lazy"
  /\ Fresh(r)
  /\ FromRef(h, r)
  /\ live' = live \cup {r}
  /\ held' = held \cup {h}
  /\ UNCHANGED <<released, jclass, java, callVars, miscast>>

\* A null JObject, and a JFinalString, which starts out as the null pointer.
WrapNull(h) ==
  /\ Kind[h] # "class"
  /\ FromRef(h, None)
  /\ held' = held \cup {h}
  /\ UNCHANGED <<live, released, jclass, java, callVars, miscast>>

\* The getter reference of JLazyReference, the first time: it calls
\* lazyReference and attaches the finalizer, before it looks at _released.
FirstUse(h, r) ==
  /\ Kind[h] = "lazy" /\ h \in held /\ ptr[h] = None
  /\ Fresh(r)
  /\ live' = live \cup {r}
  /\ ptr' = [ptr EXCEPT ![h] = r]
  /\ attached' = [attached EXCEPT ![h] = {r}]
  /\ UNCHANGED <<born, released, jclass, held, java, callVars, miscast>>

\* _class: the JClass k of h, made on first need and cached in _jClass.
CacheClass(h, k, r) ==
  /\ Kind[h] # "class" /\ Kind[k] = "class"
  /\ Usable(h) /\ ptr[h] # None /\ jclass[h] = None
  /\ Fresh(r)
  /\ FromRef(k, r)
  /\ live' = live \cup {r}
  /\ jclass' = [jclass EXCEPT ![h] = k]
  /\ UNCHANGED <<released, held, java, callVars, miscast>>

-----------------------------------------------------------------------------
(* Release *)

\* setAsReleased on every handle of S: the finalizers are detached.
SetAsReleased(S) ==
  /\ released' = released \cup S
  /\ attached' = [x \in Handle |-> IF x \in S THEN {} ELSE attached[x]]

\* release() of the handles of S: also delete their references.
FreeHandles(S) ==
  /\ SetAsReleased(S)
  /\ live' = live \ {ptr[x] : x \in S}

CachedClass(h) == {jclass[h]} \ {None}

\* Faulty: the reference is deleted, the finalizer stays attached.
ReleaseAttached(h) ==
  /\ Kind[h] # "lazy" /\ Usable(h)
  /\ CachedClass(h) \cap released = {}
  /\ released' = released \cup {h} \cup CachedClass(h)
  /\ live' = live \ {ptr[x] : x \in {h} \cup CachedClass(h)}
  /\ UNCHANGED <<born, ptr, attached, jclass, held, java, callVars, miscast>>

\* JObject.release and JClass.release: first the cached class, if any.
Release(h) ==
  /\ Kind[h] # "lazy" /\ Usable(h)
  /\ CachedClass(h) \cap released = {}
  /\ FreeHandles({h} \cup CachedClass(h))
  /\ UNCHANGED <<born, ptr, jclass, held, java, callVars, miscast>>

\* release() of a handle given away before, or castTo with releaseOriginal of any
\* released handle: its cached class goes, then the handle itself throws.
ReleaseAgain(h) ==
  /\ h \in held \cap released
  /\ CachedClass(h) # {} /\ CachedClass(h) \cap released = {}
  /\ FreeHandles(CachedClass(h))
  /\ UNCHANGED <<born, ptr, jclass, held, java, callVars, miscast>>

\* JLazyReference.release: leaves the cached class alone.
ReleaseLazy(h) ==
  /\ Kind[h] = "lazy" /\ h \in held \ released
  /\ FreeHandles({h})
  /\ UNCHANGED <<born, ptr, jclass, held, java, callVars, miscast>>

\* Faulty: Java gets the reference, and the handle keeps it.
ToPointerKeeping(h) ==
  /\ Usable(h)
  /\ java' = java \cup ({ptr[h]} \ {None})
  /\ UNCHANGED <<live, handleVars, callVars, miscast>>

\* toPointer: Java owns the reference, if there is one, from now on.
ToPointer(h) ==
  /\ Usable(h)
  /\ SetAsReleased({h})
  /\ java' = java \cup ({ptr[h]} \ {None})
  /\ UNCHANGED <<live, born, ptr, jclass, held, callVars, miscast>>

\* Java deletes what it was given (_cleanUp in dartjni.c).
JavaDelete(r) ==
  /\ r \in java
  /\ java' = java \ {r}
  /\ live' = live \ {r}
  /\ UNCHANGED <<handleVars, callVars, miscast>>

-----------------------------------------------------------------------------
(* castTo *)

\* Faulty: the new handle wraps the reference of the old one.
CastCopyAliasing(h, k, r) ==
  /\ Kind[h] # "class" /\ Kind[k] = "object"
  /\ Usable(h)
  /\ FromRef(k, ptr[h])
  /\ held' = held \cup {k}
  /\ UNCHANGED <<live, released, jclass, java, callVars, miscast>>

\* A new global reference to the same Java object, or to null, in a new handle.
CastCopy(h, k, r) ==
  /\ Kind[h] # "class" /\ Kind[k] = "object"
  /\ Usable(h)
  /\ \/ /\ ptr[h] # None /\ Fresh(r)
        /\ FromRef(k, r)
        /\ live' = live \cup {r}
     \/ /\ ptr[h] = None
        /\ FromRef(k, None)
        /\ UNCHANGED live
  /\ held' = held \cup {k}
  /\ UNCHANGED <<released, jclass, java, callVars, miscast>>

\* Faulty: the original is detached, and not marked as released.
CastMoveKeeping(h, k) ==
  /\ Kind[h] # "class" /\ Kind[k] = "object"
  /\ Usable(h)
  /\ CachedClass(h) \cap released = {}
  /\ k \notin born
  /\ born' = born \cup {k}
  /\ ptr' = [ptr EXCEPT ![k] = ptr[h]]
  /\ released' = released \cup CachedClass(h)
  /\ attached' = [x \in Handle |-> IF x = k THEN {ptr[h]} \ {None}
                                   ELSE IF x \in CachedClass(h) \cup {h} THEN {}
                                   ELSE attached[x]]
  /\ live' = live \ {ptr[x] : x \in CachedClass(h)}
  /\ held' = held \cup {k}
  /\ UNCHANGED <<jclass, java, callVars, miscast>>

\* releaseOriginal: true.  The cached class is released, the new handle takes the
\* reference over, and the original is detached.
CastMove(h, k) ==
  /\ Kind[h] # "class" /\ Kind[k] = "object"
  /\ Usable(h)
  /\ CachedClass(h) \cap released = {}
  /\ k \notin born
  /\ born' = born \cup {k}
  /\ ptr' = [ptr EXCEPT ![k] = ptr[h]]
  /\ released' = released \cup {h} \cup CachedClass(h)
  /\ attached' = [x \in Handle |-> IF x = k THEN {ptr[h]} \ {None}
                                   ELSE IF x \in CachedClass(h) \cup {h} THEN {}
                                   ELSE attached[x]]
  /\ live' = live \ {ptr[x] : x \in CachedClass(h)}
  /\ held' = held \cup {k}
  /\ UNCHANGED <<jclass, java, callVars, miscast>>

\* The same, of a lazy handle that was released before its first use: the getter
\* fetches the reference and attaches it, fromRef attaches it again to a handle
\* nobody gets, because setAsReleased then throws.
CastMoveStale(h, k, r) ==
  /\ Kind[h] = "lazy" /\ Kind[k] = "object"
  /\ h \in held \cap released /\ ptr[h] = None
  /\ CachedClass(h) = {}
  /\ Fresh(r)
  /\ k \notin born
  /\ born' = born \cup {k}
  /\ live' = live \cup {r}
  /\ ptr' = [ptr EXCEPT ![h] = r, ![k] = r]
  /\ attached' = [attached EXCEPT ![h] = {r}, ![k] = {r}]
  /\ miscast' = TRUE
  /\ UNCHANGED <<released, jclass, held, java, callVars>>

-----------------------------------------------------------------------------
(* Garbage collection *)

Reachable(h) == h \in held \/ \E g \in held : jclass[g] = h

Drop(h) ==
  /\ h \in held
  /\ held' = held \ {h}
  /\ UNCHANGED <<live, born, ptr, released, attached, jclass, java, callVars, miscast>>

\* The NativeFinalizer: DeleteGlobalRef on what is attached.
Finalize(h) ==
  /\ ~ Reachable(h)
  /\ attached[h] # {}
  /\ live' = live \ attached[h]
  /\ attached' = [attached EXCEPT ![h] = {}]
  /\ UNCHANGED <<born, ptr, released, jclass, held, java, callVars, miscast>>

-----------------------------------------------------------------------------
(* JValueArgs: the arguments of one call, in the arena of its "using" *)

BeginCall ==
  /\ phase = "idle"
  /\ phase' = "filling"
  /\ UNCHANGED <<live, handleVars, java, temps, args, runs, miscast>>

\* A Dart string becomes a new Java string; _dispose is registered.
AddString(r) ==
  /\ phase = "filling" /\ args < MaxArgs
  /\ Fresh(r)
  /\ live' = live \cup {r}
  /\ temps' = temps \cup {r}
  /\ args' = args + 1
  /\ UNCHANGED <<handleVars, java, phase, runs, miscast>>

\* Any other argument: nothing is created, _dispose is registered all the same.
AddValue ==
  /\ phase = "filling" /\ args < MaxArgs
  /\ args' = args + 1
  /\ UNCHANGED <<live, handleVars, java, phase, temps, runs, miscast>>

\* A released JObject, or one of no supported type: the constructor throws.
AddThrows ==
  /\ phase = "filling" /\ args < MaxArgs
  /\ phase' = "disposing"
  /\ UNCHANGED <<live, handleVars, java, temps, args, runs, miscast>>

Call ==
  /\ phase = "filling"
  /\ phase' = "calling"
  /\ UNCHANGED <<live, handleVars, java, temps, args, runs, miscast>>

\* The call returns or throws: "using" releases the arena.
Return ==
  /\ phase = "calling"
  /\ phase' = "disposing"
  /\ UNCHANGED <<live, handleVars, java, temps, args, runs, miscast>>

\* One registration of _dispose: delete all of createdRefs.
Dispose ==
  /\ phase = "disposing" /\ runs < args
  /\ live' = live \ temps
  /\ runs' = runs + 1
  /\ UNCHANGED <<handleVars, java, phase, temps, args, miscast>>

EndCall ==
  /\ phase = "disposing" /\ runs = args
  /\ phase' = "idle"
  /\ temps' = {}
  /\ args' = 0
  /\ runs' = 0
  /\ UNCHANGED <<live, handleVars, java, miscast>>

-----------------------------------------------------------------------------

Create(h) ==
  \/ WrapNull(h)
  \/ \E r \in Ref : Wrap(h, r) \/ FirstUse(h, r)
  \/ \E k \in Handle, r \in Ref : CacheClass(h, k, r)

GiveUp(h) == Release(h) \/ ReleaseAgain(h) \/ ReleaseLazy(h) \/ ToPointer(h)

CastTo(h) ==
  \E k \in Handle :
     CastMove(h, k) \/ \E r \in Ref : CastCopy(h, k, r) \/ CastMoveStale(h, k, r)

Collect(h) == Drop(h) \/ Finalize(h)

MakeCall ==
  \/ BeginCall \/ AddValue \/ AddThrows \/ Call \/ Return \/ Dispose \/ EndCall
  \/ \E r \in Ref : AddString(r)

Next ==
  \/ \E h \in Handle : Create(h) \/ GiveUp(h) \/ CastTo(h) \/ Collect(h)
  \/ \E r \in Ref : JavaDelete(r)
  \/ MakeCall

Spec == Init /\ [][Next]_vars

-----------------------------------------------------------------------------
(* Correctness *)

\* JValueArgs owns the strings it made until _dispose has run.
CallOwned == IF runs = 0 THEN temps ELSE {}

(***************************************************************************)
(* Every global reference has exactly one owner that will delete it: the   *)
(* finalizer of one handle, Java, or the call in progress.  So none is     *)
(* deleted twice, none leaks, and no owner is left with a dead one; but    *)
(* casting a final string away after its release makes a second owner.     *)
(***************************************************************************)
Owned ==
  /\ \A r \in Ref :
       r \in live <=> r \in java \cup CallOwned \/ \E h \in Handle : r \in attached[h]
  /\ \A g, h \in Handle : g # h => attached[g] \cap attached[h] = {}
  /\ \A h \in Handle : attached[h] \cap (java \cup CallOwned) = {}
  /\ java \cap CallOwned = {}

OwnedOnce == ~miscast => Owned

(***************************************************************************)
(* isReleased tells whether the reference is deleted: the reference of a   *)
(* handle the program can reach, and has not released, is live.            *)
(***************************************************************************)
UnreleasedIsLive ==
  ~miscast => \A h \in Handle :
     Reachable(h) /\ h \notin released /\ ptr[h] # None => ptr[h] \in live

(***************************************************************************)
(* The class cached in an object that is not released is not released, so  *)
(* looking up a method of a usable object never throws                     *)
(* UseAfterReleaseError.                                                   *)
(***************************************************************************)
ClassCacheUsable ==
  \A h \in Handle : jclass[h] \in released => h \in released

(***************************************************************************)
(* Further uses of a released object throw: none of them gives it a        *)
(* reference that it did not have when it was released.                    *)
(***************************************************************************)
FurtherUsesThrow ==
  [][\A h \in released : ptr'[h] = ptr[h]]_vars

-----------------------------------------------------------------------------
(* The inductive invariant behind the safety properties, where a string is the *)
(* only argument of its call                                                  *)

(***************************************************************************)
(* JValueArgs registers _dispose once for each argument, and every run of  *)
(* it deletes all the strings.  This is what a program has to keep to for  *)
(* that to do no harm; the run reference_args shows a program that does    *)
(* not.                                                                    *)
(***************************************************************************)
LoneString == temps # {} => args <= 1

(***************************************************************************)
(* The getter of a final string looks at _released only after it has made  *)
(* the reference.  A program that releases no string before its first use  *)
(* never meets that; the run reference_stale_use shows one that does.      *)
(***************************************************************************)
UsedBeforeRelease ==
  \A h \in released : Kind[h] = "lazy" => ptr[h] # None

\* What is not made yet has nothing; a class has a pointer and caches none;
\* the finalizer deletes at most the pointer.
HandleInv(h) ==
  /\ h \notin born =>
        attached[h] = {} /\ h \notin held \cup released /\ jclass[h] = None
  /\ h \in born /\ Kind[h] = "class" => ptr[h] # None /\ jclass[h] = None
  /\ attached[h] \subseteq {ptr[h]} \ {None}

\* A handle in use is attached; a released one is not, unless it is a string that
\* is used for the first time.
AttachedInv(h) ==
  /\ h \in released /\ Kind[h] # "lazy" => attached[h] = {}
  /\ Reachable(h) /\ h \notin released => attached[h] = {ptr[h]} \ {None}

\* A cached class belongs to one object, and the program cannot reach it itself.
CachedInv(h) ==
  \A k \in CachedClass(h) :
     /\ k \in born \ held /\ Kind[k] = "class"
     /\ k \in released => h \in released
     /\ ptr[h] # None
     /\ \A g \in Handle : jclass[g] = k => g = h

\* What holds of the handles, whatever calls do.
HandlesInv ==
  TypeOK /\ \A h \in Handle : HandleInv(h) /\ AttachedInv(h) /\ CachedInv(h)

\* _dispose runs at the end, at most once for each argument, and there is nothing
\* to delete for none.
CallInv ==
  /\ phase # "disposing" => runs = 0
  /\ phase = "idle" \/ args = 0 => temps = {} /\ args = 0
  /\ runs <= args

\* Ownership needs the invariants of every handle and of the call in progress.
IInv == HandlesInv /\ CallInv /\ OwnedOnce
=============================================================================
