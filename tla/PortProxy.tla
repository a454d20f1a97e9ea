------------------------------ MODULE PortProxy ------------------------------
(***************************************************************************)
(* Java calling into Dart.                                                 *)
(*                                                                         *)
(* A Dart isolate implements a Java interface ("$name.implement"); the     *)
(* Java side is a dynamic proxy whose handler is PortProxy.  A call on the *)
(* proxy made on a thread of another isolate, or on a thread of no         *)
(* isolate, allocates a CallbackResult, posts its address to the port of   *)
(* the implementation and sleeps on the condition variable in it until the *)
(* isolate has stored an answer (resultFor).  A call made on the thread of *)
(* the implementing isolate runs the Dart function directly.  When the     *)
(* proxy becomes unreachable the PortCleaner thread posts null to the port *)
(* and the isolate drops the implementation.                               *)
(***************************************************************************)
EXTENDS Naturals, Sequences, FiniteSets

CONSTANTS
  Isolate,     \* isolates: each has one thread that runs its Dart code
  JavaThread,  \* threads that run Java code and belong to no isolate
  Proxy,       \* the proxies that may be created, each with its own port
  Owner,       \* [Proxy -> Isolate]: the isolate that calls implement
  Call,        \* CallbackResult allocations; bounds the number of calls
  Mortal,      \* the isolates that may exit
  Answer,      \* what a run of a Dart method may yield
  None         \* no thread, no proxy, the null pointer

Thread == Isolate \cup JavaThread

(***************************************************************************)
(* Global references belonging to a call: the method descriptor and the    *)
(* argument array made by _invoke, the object returned by the user's       *)
(* method (orig), the reference handed to Java (copy), and the message     *)
(* string of a DartException, which nothing ever deletes.                  *)
(***************************************************************************)
RefKind == {"descriptor", "args", "orig", "copy", "message"}
GlobalRef == Call \X RefKind

ASSUME ConstantsAssumption ==
  /\ Owner \in [Proxy -> Isolate]
  /\ Mortal \subseteq Isolate
  \* a Java object, null (void methods too), or a thrown error
  /\ Answer \subseteq {"value", "null", "exception"}
  /\ Isolate \cap JavaThread = {}
  /\ None \notin Isolate \cup JavaThread \cup Proxy \cup Call \cup GlobalRef
  /\ None \notin {"value", "null", "exception"}
  /\ Call \cap Proxy = {}

\* Caller side of _invoke and _cleanUp.
CallerStep == {"free", "locked", "checking", "asleep", "waking", "direct",
               "left", "boxed", "done"}
\* Dart side: waiting for the event loop, running, inside resultFor.
DartStep == {"none", "running", "answered", "entered", "stored", "signalled",
             "finished"}

\* A message for an isolate: a call, or null (the call is None).
Event == [proxy : Proxy, call : Call \cup {None}]

VARIABLES
  alive,      \* isolates that have not exited
  queue,      \* queue[s]: events posted to the open ports of isolate s
  port,       \* port[p]: "none", "open" or "closed"
  impls,      \* proxies with an entry in the _$impls map of their isolate
  reach,      \* reach[p]: how far the garbage collector is with the proxy
  stack,      \* stack[t]: the calls thread t is in, innermost last
  caller,     \* caller[c]: the thread that made call c
  target,     \* target[c]: the proxy that was called
  pc,         \* pc[c]: where the calling thread is in _invoke
  dart,       \* dart[c]: where the isolate is with the call
  lock,       \* lock[c]: who holds CallbackResult.lock
  ready,      \* ready[c]: CallbackResult.ready
  object,     \* object[c]: CallbackResult.object, a global reference or None
  answer,     \* answer[c]: what the Dart method yielded for c
  delivered,  \* delivered[c]: what the Java caller gets from c
  grefs       \* the live global references

callVars  == <<caller, target, pc, dart, lock, ready, object, answer,
               delivered, grefs>>
proxyVars == <<alive, queue, port, impls, reach>>
vars == <<proxyVars, stack, callVars>>

Reach == {"unborn", "held", "dropped", "enqueued", "cleaned"}

TypeOK ==
  /\ alive \in SUBSET Isolate
  /\ queue \in [Isolate -> Seq(Event)]
  /\ port \in [Proxy -> {"none", "open", "closed"}]
  /\ impls \in SUBSET Proxy
  /\ reach \in [Proxy -> Reach]
  /\ stack \in [Thread -> Seq(Call)]
  /\ caller \in [Call -> Thread \cup {None}]
  /\ target \in [Call -> Proxy \cup {None}]
  /\ pc \in [Call -> CallerStep]
  /\ dart \in [Call -> DartStep]
  /\ lock \in [Call -> {"free", "caller", "isolate"}]
  /\ ready \in [Call -> BOOLEAN]
  /\ object \in [Call -> GlobalRef \cup {None}]
  /\ answer \in [Call -> Answer \cup {None}]
  /\ delivered \in [Call -> Answer \cup {"null", None}]
  /\ grefs \in SUBSET GlobalRef

Init ==
  /\ alive = Isolate
  /\ queue = [s \in Isolate |-> <<>>]
  /\ port = [p \in Proxy |-> "none"]
  /\ impls = {}
  /\ reach = [p \in Proxy |-> "unborn"]
  /\ stack = [t \in Thread |-> <<>>]
  /\ caller = [c \in Call |-> None]
  /\ target = [c \in Call |-> None]
  /\ pc = [c \in Call |-> "free"]
  /\ dart = [c \in Call |-> "none"]
  /\ lock = [c \in Call |-> "free"]
  /\ ready = [c \in Call |-> FALSE]
  /\ object = [c \in Call |-> None]
  /\ answer = [c \in Call |-> None]
  /\ delivered = [c \in Call |-> None]
  /\ grefs = {}

-----------------------------------------------------------------------------
(* Threads and their stacks *)

Top(t) == stack[t][Len(stack[t])]
Push(t, c) == stack' = [stack EXCEPT ![t] = Append(@, c)]
Pop(t) == stack' = [stack EXCEPT ![t] = SubSeq(@, 1, Len(@) - 1)]
InCall(t, c) == stack[t] # <<>> /\ Top(t) = c

\* Isolate s is executing Dart code: between events, or in an implemented method.
RunsDart(s) ==
  /\ s \in alive
  /\ \/ stack[s] = <<>>
     \/ \E c \in Call :
          InCall(s, c) /\ Owner[target[c]] = s /\ dart[c] = "running"

\* Thread t can make a Java call: a Java thread that is in no call, or Dart code.
CanCall(t) == IF t \in Isolate THEN RunsDart(t) ELSE stack[t] = <<>>

-----------------------------------------------------------------------------
(* Life of a proxy *)

\* $name.implement: a ReceivePort, a registered proxy, an entry in _$impls.
Implement(p) ==
  /\ RunsDart(Owner[p])
  /\ port[p] = "none"
  /\ port' = [port EXCEPT ![p] = "open"]
  /\ reach' = [reach EXCEPT ![p] = "held"]
  /\ impls' = impls \cup {p}
  /\ UNCHANGED <<alive, queue, stack, callVars>>

\* newPortProxy throws (Class.forName fails): the port is open, nothing closes it.
ImplementThrows(p) ==
  /\ RunsDart(Owner[p])
  /\ port[p] = "none"
  /\ port' = [port EXCEPT ![p] = "open"]
  /\ UNCHANGED <<alive, queue, impls, reach, stack, callVars>>

\* Neither Dart nor Java keeps a reference to the proxy any longer.
Drop(p) ==
  /\ reach[p] = "held"
  /\ reach' = [reach EXCEPT ![p] = "dropped"]
  /\ UNCHANGED <<alive, queue, port, impls, stack, callVars>>

\* The frames of _invoke keep the proxy (a parameter of the native method) alive.
InNative(c) == pc[c] \in {"locked", "checking", "asleep", "waking", "direct", "left"}
ReachableIfHeld(p) == reach[p] = "held"  \* faulty: _invoke does not take the proxy
Reachable(p) ==
  \/ reach[p] = "held"
  \/ \E c \in Call : target[c] = p /\ InNative(c)

\* The collector finds the proxy unreachable and enqueues its PortPhantom.
Collect(p) ==
  /\ reach[p] = "dropped"
  /\ ~ Reachable(p)
  /\ reach' = [reach EXCEPT ![p] = "enqueued"]
  /\ UNCHANGED <<alive, queue, port, impls, stack, callVars>>

\* Dart_PostCObject: the event is queued if the port is open, dropped otherwise.
Posted(p, c) ==
  IF port[p] = "open"
  THEN [queue EXCEPT ![Owner[p]] = Append(@, [proxy |-> p, call |-> c])]
  ELSE queue

\* Faulty: the phantom leaves the list, nothing is posted.
CleanSilently(p) ==
  /\ reach[p] = "enqueued"
  /\ reach' = [reach EXCEPT ![p] = "cleaned"]
  /\ UNCHANGED <<alive, queue, port, impls, stack, callVars>>

\* The PortCleaner thread takes the phantom off its queue and list, posts null.
Clean(p) ==
  /\ reach[p] = "enqueued"
  /\ reach' = [reach EXCEPT ![p] = "cleaned"]
  /\ queue' = Posted(p, None)
  /\ UNCHANGED <<alive, port, impls, stack, callVars>>

\* An isolate exits between two events: its ports close, its queue is discarded.
Exit(s) ==
  /\ s \in Mortal \cap alive
  /\ stack[s] = <<>>
  /\ alive' = alive \ {s}
  /\ queue' = [queue EXCEPT ![s] = <<>>]
  /\ port' = [p \in Proxy |-> IF Owner[p] = s THEN "closed" ELSE port[p]]
  /\ impls' = {p \in impls : Owner[p] # s}
  /\ UNCHANGED <<reach, stack, callVars>>

-----------------------------------------------------------------------------
(* PortProxy.invoke on the calling thread *)

\* Both ways into _invoke: a fresh CallbackResult, and two global references.
Enter(t, p, c) ==
  /\ CanCall(t)
  /\ reach[p] = "held"
  /\ pc[c] = "free"
  /\ caller' = [caller EXCEPT ![c] = t]
  /\ target' = [target EXCEPT ![c] = p]
  /\ grefs' = grefs \cup {<<c, "descriptor">>, <<c, "args">>}
  /\ Push(t, c)

\* The isolate of the thread is not the isolate of the proxy.
InvokeRemote(t, p, c) ==
  /\ t # Owner[p]
  /\ Enter(t, p, c)
  /\ pc' = [pc EXCEPT ![c] = "locked"]
  /\ lock' = [lock EXCEPT ![c] = "caller"]
  /\ ready' = [ready EXCEPT ![c] = FALSE]
  /\ object' = [object EXCEPT ![c] = None]
  /\ UNCHANGED <<proxyVars, dart, answer, delivered>>

\* The thread is the one of the proxy's isolate: functionPtr is called in place.
InvokeDirect(t, p, c) ==
  /\ t = Owner[p]
  /\ Enter(t, p, c)
  /\ pc' = [pc EXCEPT ![c] = "direct"]
  /\ dart' = [dart EXCEPT ![c] = "running"]
  /\ UNCHANGED <<proxyVars, lock, ready, object, answer, delivered>>

\* Faulty: the lock is given up once the message is posted.
PostUnlocking(c) ==
  /\ pc[c] = "locked"
  /\ queue' = Posted(target[c], c)
  /\ pc' = [pc EXCEPT ![c] = "checking"]
  /\ lock' = [lock EXCEPT ![c] = "free"]
  /\ UNCHANGED <<alive, port, impls, reach, stack, caller, target, dart, ready,
                 object, answer, delivered, grefs>>

\* Dart_PostCObject, with the lock held and its result ignored.
Post(c) ==
  /\ pc[c] = "locked"
  /\ queue' = Posted(target[c], c)
  /\ pc' = [pc EXCEPT ![c] = "checking"]
  /\ UNCHANGED <<alive, port, impls, reach, stack, caller, target, dart, lock,
                 ready, object, answer, delivered, grefs>>

\* The test of the while loop fails: wait_for gives up the lock and sleeps.
Sleep(c) ==
  /\ pc[c] = "checking"
  /\ ~ ready[c]
  /\ pc' = [pc EXCEPT ![c] = "asleep"]
  /\ lock' = [lock EXCEPT ![c] = "free"]
  /\ UNCHANGED <<proxyVars, stack, caller, target, dart, ready, object, answer,
                 delivered, grefs>>

\* pthread_cond_wait may return without a signal.
SpuriousWakeup(c) ==
  /\ pc[c] = "asleep"
  /\ pc' = [pc EXCEPT ![c] = "waking"]
  /\ UNCHANGED <<proxyVars, stack, caller, target, dart, lock, ready, object,
                 answer, delivered, grefs>>

\* Faulty: if instead of while, a wakeup is taken for an answer.
ReacquireOnce(c) ==
  /\ pc[c] = "waking"
  /\ lock[c] = "free"
  /\ pc' = [pc EXCEPT ![c] = "left"]
  /\ UNCHANGED <<proxyVars, stack, caller, target, dart, lock, ready, object,
                 answer, delivered, grefs>>

\* wait_for returns with the lock held, back to the test of the loop.
Reacquire(c) ==
  /\ pc[c] = "waking"
  /\ lock[c] = "free"
  /\ pc' = [pc EXCEPT ![c] = "checking"]
  /\ lock' = [lock EXCEPT ![c] = "caller"]
  /\ UNCHANGED <<proxyVars, stack, caller, target, dart, ready, object, answer,
                 delivered, grefs>>

\* The loop ends: the lock is released, lock and condition are destroyed.
Leave(c) ==
  /\ pc[c] = "checking"
  /\ ready[c]
  /\ pc' = [pc EXCEPT ![c] = "left"]
  /\ lock' = [lock EXCEPT ![c] = "free"]
  /\ UNCHANGED <<proxyVars, stack, caller, target, dart, ready, object, answer,
                 delivered, grefs>>

\* The Java object a reference denotes.
Deref(ref) == IF ref = None THEN "null" ELSE answer[ref[1]]

\* _invoke returns the array [address of the result, the object].
Box(c) ==
  /\ pc[c] = "left"
  /\ delivered' = [delivered EXCEPT ![c] = Deref(object[c])]
  /\ pc' = [pc EXCEPT ![c] = "boxed"]
  /\ UNCHANGED <<proxyVars, stack, caller, target, dart, lock, ready, object,
                 answer, grefs>>

\* Faulty: the result is freed, the reference in it is not deleted.
CleanUpKeepingRef(c) ==
  /\ pc[c] = "boxed"
  /\ pc' = [pc EXCEPT ![c] = "done"]
  /\ Pop(caller[c])
  /\ UNCHANGED <<proxyVars, caller, target, dart, lock, ready, object, answer,
                 delivered, grefs>>

\* _cleanUp deletes the reference and frees the result; invoke returns or throws.
CleanUp(c) ==
  /\ pc[c] = "boxed"
  /\ grefs' = grefs \ {object[c]}
  /\ pc' = [pc EXCEPT ![c] = "done"]
  /\ Pop(caller[c])
  /\ UNCHANGED <<proxyVars, caller, target, dart, lock, ready, object, answer,
                 delivered>>

-----------------------------------------------------------------------------
(* The isolate *)

\* The listener of the port receives null: remove the entry, close the port.
ReceiveClose(s) ==
  /\ s \in alive /\ stack[s] = <<>> /\ queue[s] # <<>>
  /\ LET e == Head(queue[s]) IN
       /\ e.call = None
       /\ impls' = impls \ {e.proxy}
       /\ port' = [port EXCEPT ![e.proxy] = "closed"]
  /\ queue' = [queue EXCEPT ![s] = Tail(@)]
  /\ UNCHANGED <<alive, reach, stack, callVars>>

\* The listener receives a call; an event for a port closed since is dropped.
ReceiveCall(s) ==
  /\ s \in alive /\ stack[s] = <<>> /\ queue[s] # <<>>
  /\ LET e == Head(queue[s]) IN
       /\ e.call # None
       /\ IF port[e.proxy] = "open"
          THEN /\ Push(s, e.call)
               /\ dart' = [dart EXCEPT ![e.call] = "running"]
          ELSE UNCHANGED <<stack, dart>>
  /\ queue' = [queue EXCEPT ![s] = Tail(@)]
  /\ UNCHANGED <<alive, port, impls, reach, caller, target, pc, lock, ready,
                 object, answer, delivered, grefs>>

\* References made while the method yields a: the boxed copy, and what it is from.
Produced(c, a) ==
  CASE a = "value"     -> {<<c, "orig">>, <<c, "copy">>}
    [] a = "null"      -> {}
    [] a = "exception" -> {<<c, "message">>, <<c, "copy">>}

\* Faulty: toPointer on the user's own reference, without castTo.
BoxedOriginal(c, a) == IF a = "null" THEN None ELSE <<c, "orig">>

Boxed(c, a) == IF a = "null" THEN None ELSE <<c, "copy">>

\* _$invokeMethod: consumes the descriptor, runs the method of the entry in
\* _$impls, boxes what it returns or throws.  A missing entry is a caught error;
\* a method that is not the interface's own (toString, say) yields null.
RunMethod(s, c, a) ==
  /\ s \in alive
  /\ InCall(s, c) /\ Owner[target[c]] = s /\ dart[c] = "running"
  /\ target[c] \notin impls => a # "value"
  /\ answer' = [answer EXCEPT ![c] = a]
  /\ grefs' = (grefs \ {<<c, "descriptor">>}) \cup Produced(c, a)
  /\ IF pc[c] = "direct"
     THEN /\ dart' = [dart EXCEPT ![c] = "finished"]
          /\ object' = [object EXCEPT ![c] = Boxed(c, a)]
          /\ pc' = [pc EXCEPT ![c] = "left"]
     ELSE /\ dart' = [dart EXCEPT ![c] = "answered"]
          /\ UNCHANGED <<object, pc>>
  /\ UNCHANGED <<proxyVars, stack, caller, target, lock, ready, delivered>>

\* The finalizer of the argument array, which nothing releases explicitly.
FinalizeArgs(c) ==
  /\ dart[c] \in {"answered", "entered", "stored", "signalled", "finished"}
  /\ <<c, "args">> \in grefs
  /\ grefs' = grefs \ {<<c, "args">>}
  /\ UNCHANGED <<proxyVars, stack, caller, target, pc, dart, lock, ready, object,
                 answer, delivered>>

\* The user's own reference to the returned object, released at any time.
ReleaseOriginal(c) ==
  /\ <<c, "orig">> \in grefs
  /\ grefs' = grefs \ {<<c, "orig">>}
  /\ UNCHANGED <<proxyVars, stack, caller, target, pc, dart, lock, ready, object,
                 answer, delivered>>

\* resultFor, one action for each of its five statements.
ResultAcquire(c) ==
  /\ dart[c] = "answered"
  /\ lock[c] = "free"
  /\ lock' = [lock EXCEPT ![c] = "isolate"]
  /\ dart' = [dart EXCEPT ![c] = "entered"]
  /\ UNCHANGED <<proxyVars, stack, caller, target, pc, ready, object, answer,
                 delivered, grefs>>

\* Faulty: the lock is released before the condition is signalled.
ResultStoreUnlocking(c) ==
  /\ dart[c] = "entered"
  /\ ready' = [ready EXCEPT ![c] = TRUE]
  /\ object' = [object EXCEPT ![c] = Boxed(c, answer[c])]
  /\ dart' = [dart EXCEPT ![c] = "stored"]
  /\ lock' = [lock EXCEPT ![c] = "free"]
  /\ UNCHANGED <<proxyVars, stack, caller, target, pc, answer, delivered, grefs>>

ResultStore(c) ==
  /\ dart[c] = "entered"
  /\ ready' = [ready EXCEPT ![c] = TRUE]
  /\ object' = [object EXCEPT ![c] = Boxed(c, answer[c])]
  /\ dart' = [dart EXCEPT ![c] = "stored"]
  /\ UNCHANGED <<proxyVars, stack, caller, target, pc, lock, answer, delivered,
                 grefs>>

\* Faulty: the condition is never signalled.
ResultSignalNobody(c) ==
  /\ dart[c] = "stored"
  /\ dart' = [dart EXCEPT ![c] = "signalled"]
  /\ UNCHANGED <<proxyVars, stack, caller, target, pc, lock, ready, object,
                 answer, delivered, grefs>>

ResultSignal(c) ==
  /\ dart[c] = "stored"
  /\ pc' = [pc EXCEPT ![c] = IF @ = "asleep" THEN "waking" ELSE @]
  /\ dart' = [dart EXCEPT ![c] = "signalled"]
  /\ UNCHANGED <<proxyVars, stack, caller, target, lock, ready, object, answer,
                 delivered, grefs>>

ResultRelease(c) ==
  /\ dart[c] = "signalled"
  /\ lock' = [lock EXCEPT ![c] = "free"]
  /\ dart' = [dart EXCEPT ![c] = "finished"]
  /\ Pop(Owner[target[c]])
  /\ UNCHANGED <<proxyVars, caller, target, pc, ready, object, answer, delivered,
                 grefs>>
-----------------------------------------------------------------------------

ProxyLife(p) ==
  Implement(p) \/ ImplementThrows(p) \/ Drop(p) \/ Collect(p) \/ Clean(p)

Invoke(t, p, c) == InvokeRemote(t, p, c) \/ InvokeDirect(t, p, c)

\* The calling thread inside PortProxy.invoke.
CallerStepOf(c) ==
  Post(c) \/ Sleep(c) \/ Reacquire(c) \/ Leave(c) \/ Box(c) \/ CleanUp(c)

Receive(s) == ReceiveClose(s) \/ ReceiveCall(s)

\* The isolate inside the listener, after the method has returned.
ResultFor(c) ==
  ResultAcquire(c) \/ ResultStore(c) \/ ResultSignal(c) \/ ResultRelease(c)

Next ==
  \/ \E p \in Proxy : ProxyLife(p)
  \/ \E s \in Isolate : Exit(s)
  \/ \E t \in Thread, p \in Proxy, c \in Call : Invoke(t, p, c)
  \/ \E c \in Call : CallerStepOf(c) \/ SpuriousWakeup(c)
  \/ \E s \in Isolate : Receive(s)
  \/ \E s \in Isolate, c \in Call, a \in Answer : RunMethod(s, c, a)
  \/ \E c \in Call : ResultFor(c) \/ FinalizeArgs(c) \/ ReleaseOriginal(c)

Spec == Init /\ [][Next]_vars

(***************************************************************************)
(* The operating system runs every runnable thread, an event loop takes    *)
(* its next event, a method of the user's returns, and the PortCleaner     *)
(* thread serves its queue.  A lock that is released again and again, by a *)
(* caller that keeps waking up spuriously, is acquired in the end by the   *)
(* thread that waits for it.  Nothing is assumed of the collector, of      *)
(* finalizers, of the program's own calls, nor of spurious wakeups.        *)
(***************************************************************************)
Fairness ==
  /\ \A c \in Call : WF_vars(CallerStepOf(c)) /\ WF_vars(ResultFor(c))
  /\ \A c \in Call : SF_vars(ResultAcquire(c))
  /\ \A s \in Isolate : WF_vars(Receive(s))
  /\ \A s \in Isolate, c \in Call : WF_vars(\E a \in Answer : RunMethod(s, c, a))
  /\ \A p \in Proxy : WF_vars(Clean(p))

FairSpec == Spec /\ Fairness

-----------------------------------------------------------------------------
(* Correctness *)

Resolving(c) == dart[c] \in {"entered", "stored", "signalled"}
Remote(c) == caller[c] # Owner[target[c]]
Pending(c) == InNative(c) /\ dart[c] \in {"none", "running"}

(***************************************************************************)
(* The CallbackResult is destroyed, and then freed, by the caller; the     *)
(* isolate is never still inside resultFor, about to touch the lock, the   *)
(* condition or the fields of it.                                          *)
(***************************************************************************)
CellOutlivesResolver ==
  \A c \in Call : pc[c] \in {"left", "boxed", "done"} => ~ Resolving(c)

(***************************************************************************)
(* A call that Java is waiting for finds its port open and its entry in    *)
(* _$impls, unless the isolate has exited: null is only ever posted behind *)
(* the last call of the proxy.                                             *)
(***************************************************************************)
CallsFindImplementation ==
  \A c \in Call : Pending(c) /\ Owner[target[c]] \in alive =>
                    target[c] \in impls /\ port[target[c]] = "open"

(***************************************************************************)
(* The reference in CallbackResult.object is live from the time the        *)
(* isolate stores it until _cleanUp deletes it: releasing the user's own   *)
(* reference, or its finalizer, never invalidates it.                      *)
(***************************************************************************)
ResultRefLive ==
  \A c \in Call : ready[c] \/ pc[c] \in {"left", "boxed"} =>
                    (pc[c] # "done" /\ object[c] # None => object[c] \in grefs)

(***************************************************************************)
(* A call that has returned leaves behind no global reference except those *)
(* a Dart finalizer or the user still owns and the exception's message.    *)
(***************************************************************************)
NothingLeftBehind ==
  \A c \in Call : pc[c] = "done" =>
     {r \in grefs : r[1] = c} \subseteq {c} \X {"args", "orig", "message"}

(* Waiting for an isolate: the innermost call of t is pending elsewhere. *)
WaitsFor(t, s) ==
  \E c \in Call : /\ InCall(t, c) /\ caller[c] = t /\ Pending(c)
                  /\ Owner[target[c]] = s /\ s # t

(* Isolates none of which can take another step: each one has exited, or   *)
(* waits for another of them.                                              *)
Stuck(s) ==
  \E S \in SUBSET Isolate :
     s \in S /\ \A x \in S : x \notin alive \/ \E y \in S : WaitsFor(x, y)

(***************************************************************************)
(* Every call returns, unless the isolate it needs has exited or is part   *)
(* of, or behind, a cycle of isolates waiting for one another's answers.   *)
(***************************************************************************)
EveryCallReturns ==
  \A c \in Call :
     pc[c] # "free" ~> \/ pc[c] = "done"
                       \/ \E p \in Proxy : target[c] = p /\ Stuck(Owner[p])

(***************************************************************************)
(* The port of a collected proxy is closed, with the same exception.       *)
(***************************************************************************)
PortCloses ==
  \A p \in Proxy :
     reach[p] = "enqueued" ~> (port[p] = "closed" \/ Stuck(Owner[p]))

(* No step is possible that Fairness promises: no caller can go on, no isolate can  *)
(* take an event, run a method or answer, and PortCleaner has nothing to do.        *)
AtRest ==
  /\ \A c \in Call :
       /\ pc[c] \notin {"locked", "checking", "left", "boxed"} /\ ~ Resolving(c)
       /\ pc[c] = "waking" \/ dart[c] = "answered" => lock[c] # "free"
  /\ \A s \in alive :
       /\ stack[s] = <<>> => queue[s] = <<>>
       /\ \A c \in Call : InCall(s, c) /\ Owner[target[c]] = s => dart[c] # "running"
  /\ \A p \in Proxy : reach[p] # "enqueued"

(***************************************************************************)
(* No call and no port is forgotten: when the machinery comes to rest,     *)
(* every call that has not returned needs an isolate that has exited or is *)
(* part of, or behind, a cycle of isolates waiting for one another, and so *)
(* does every open port of a collected proxy.  No message is lost, no      *)
(* wakeup comes too early for a caller that goes to sleep, and the frames  *)
(* of nested calls come off the stack in the reverse of their order.       *)
(***************************************************************************)
NothingForgotten ==
  AtRest =>
    /\ \A c \in Call : pc[c] \notin {"free", "done"} => Stuck(Owner[target[c]])
    /\ \A p \in Proxy : reach[p] = "cleaned" => port[p] = "closed" \/ Stuck(Owner[p])

(***************************************************************************)
(* Refinement: the machinery of messages, locks and references is a        *)
(* synchronous call.                                                       *)
(***************************************************************************)
Phase(c) ==
  CASE pc[c] = "free" -> "idle"
    [] pc[c] = "done" -> "returned"
    [] pc[c] \notin {"free", "done"} /\ dart[c] \in {"none", "running"} -> "requested"
    [] OTHER -> "executed"

Sync == INSTANCE SyncCall WITH
  open <- impls,
  callee <- target,
  phase <- [c \in Call |-> Phase(c)],
  outcome <- answer,
  received <- [c \in Call |-> IF pc[c] = "done" THEN delivered[c] ELSE None]

RefinesSyncCall == Sync!Spec

-----------------------------------------------------------------------------
(* The inductive invariant behind the safety properties *)

\* A call that has not been made has touched nothing.
FreshInv(c) ==
  pc[c] = "free" =>
     /\ caller[c] = None /\ target[c] = None
     /\ dart[c] = "none" /\ lock[c] = "free"
     /\ \A k \in RefKind : <<c, k>> \notin grefs

\* The lock is held exactly between the statements that take and give it.
LockInv(c) ==
  /\ lock[c] = "caller" <=> pc[c] \in {"locked", "checking"}
  /\ lock[c] = "isolate" <=> Resolving(c)

\* The two sides of the rendezvous: ready means stored, left means resolved.
RendezvousInv(c) ==
  /\ pc[c] # "free" => caller[c] \in Thread /\ target[c] \in Proxy
  /\ pc[c] = "locked" => dart[c] = "none"
  /\ ready[c] => dart[c] \in {"stored", "signalled", "finished"}
  /\ pc[c] = "direct" <=> pc[c] # "free" /\ dart[c] = "running" /\ ~ Remote(c)
  /\ pc[c] \in {"locked", "checking", "asleep", "waking"} =>
        /\ Remote(c)
        /\ dart[c] \in {"stored", "signalled", "finished"} => ready[c]
  /\ pc[c] \in {"left", "boxed", "done"} => dart[c] = "finished"

\* What the caller gets is the answer, through a reference that is live.
AnswerInv(c) ==
  /\ dart[c] \in {"none", "running"} <=> answer[c] = None
  /\ dart[c] \in {"stored", "signalled", "finished"} =>
        object[c] = Boxed(c, answer[c])
  /\ pc[c] \in {"boxed", "done"} => delivered[c] = answer[c]
  /\ <<c, "copy">> \in grefs <=> answer[c] \notin {None, "null"} /\ pc[c] # "done"
  /\ answer[c] # None => <<c, "descriptor">> \notin grefs

\* A proxy with a call in native code is not collected; until it is, and while
\* its isolate lives, its port is open and its implementation registered.
ProxyInv(p) ==
  /\ port[p] = "none" => reach[p] = "unborn" /\ p \notin impls
  /\ reach[p] \in {"held", "dropped", "enqueued"} /\ Owner[p] \in alive =>
        p \in impls /\ port[p] = "open"
  /\ \A c \in Call : target[c] = p /\ InNative(c) => reach[p] \in {"held", "dropped"}

\* Every queued call is still waiting, is queued once, and for its own proxy.
QueueInv(s) ==
  /\ \A k \in 1..Len(queue[s]) :
       LET e == queue[s][k] IN
         /\ Owner[e.proxy] = s
         /\ e.call = None => reach[e.proxy] = "cleaned"
         /\ e.call # None => /\ target[e.call] = e.proxy
                             /\ dart[e.call] = "none"
                             /\ pc[e.call] \in {"checking", "asleep", "waking"}
  /\ \A j, k \in 1..Len(queue[s]) :
       j # k /\ queue[s][j].call # None => queue[s][j].call # queue[s][k].call

IInv ==
  /\ TypeOK
  /\ \A c \in Call :
       FreshInv(c) /\ LockInv(c) /\ RendezvousInv(c) /\ AnswerInv(c)
  /\ \A p \in Proxy : ProxyInv(p)
  /\ \A s \in Isolate : QueueInv(s)

-----------------------------------------------------------------------------
(* What NothingForgotten needs besides *)

\* Thread t has a frame of call c: it made the call, or it runs its method.
Frame(t, c) ==
  \/ caller[c] = t /\ pc[c] \notin {"free", "done"}
  \/ /\ dart[c] \in {"running", "answered", "entered", "stored", "signalled"}
     /\ Remote(c) /\ Owner[target[c]] = t

RunsMethod(t, c) == dart[c] = "running" /\ Owner[target[c]] = t

\* The frames are on the stack, each once, and all but the innermost run a method.
StackInv(t) ==
  /\ \A c \in Call : Frame(t, c) <=> \E k \in 1..Len(stack[t]) : stack[t][k] = c
  /\ \A k \in 1..Len(stack[t]) - 1 : RunsMethod(t, stack[t][k])
  /\ \A j, k \in 1..Len(stack[t]) : stack[t][j] = stack[t][k] => j = k

\* A call that was posted is in the queue until the isolate takes it, and a caller
\* that was signalled is awake.
PostedInv(c) ==
  /\ pc[c] \in {"checking", "asleep", "waking"} /\ dart[c] = "none"
       /\ Owner[target[c]] \in alive =>
          LET q == queue[Owner[target[c]]] IN \E k \in 1..Len(q) : q[k].call = c
  /\ dart[c] \in {"signalled", "finished"} => pc[c] # "asleep"

\* So is the null that closes the port of a proxy.
ClosedInv(p) ==
  reach[p] = "cleaned" /\ port[p] = "open" =>
    LET q == queue[Owner[p]] IN \E k \in 1..Len(q) : q[k] = [proxy |-> p, call |-> None]

WaitInv ==
  /\ IInv
  /\ \A t \in Thread : StackInv(t)
  /\ \A c \in Call : PostedInv(c)
  /\ \A p \in Proxy : ClosedInv(p)
=============================================================================
