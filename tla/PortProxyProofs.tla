---------------------------- MODULE PortProxyProofs ----------------------------
(***************************************************************************)
(* Proofs about PortProxy, for every set of isolates, threads, proxies and *)
(* calls.                                                                  *)
(***************************************************************************)
EXTENDS PortProxy, TLAPS

USE ConstantsAssumption

(* Posting keeps every queue a sequence of events. *)
LEMMA PostedType ==
  ASSUME TypeOK, NEW p \in Proxy, NEW c \in Call \cup {None}
  PROVE  Posted(p, c) \in [Isolate -> Seq(Event)]
<1>1. [proxy |-> p, call |-> c] \in Event
  BY DEF Event
<1>2. \A s \in Isolate : Append(queue[s], [proxy |-> p, call |-> c]) \in Seq(Event)
  BY <1>1 DEF TypeOK
<1>3. QED
  BY <1>2 DEF TypeOK, Posted

(* Entering and leaving a call keeps every stack a sequence of calls. *)
LEMMA PushType ==
  ASSUME TypeOK, NEW t \in Thread, NEW c \in Call, Push(t, c)
  PROVE  stack' \in [Thread -> Seq(Call)]
BY DEF TypeOK, Push

LEMMA PopType ==
  ASSUME TypeOK, NEW t, Pop(t)
  PROVE  stack' \in [Thread -> Seq(Call)]
<1>1. \A u \in Thread : SubSeq(stack[u], 1, Len(stack[u]) - 1) \in Seq(Call)
  BY DEF TypeOK
<1>2. QED
  BY <1>1 DEF TypeOK, Pop

(* A call that has been made has a proxy it was made on. *)
RendezvousTargets == \A c \in Call : pc[c] # "free" => target[c] \in Proxy

(* The type invariant is kept by the life of a proxy. *)
LEMMA ProxyLifeType ==
  ASSUME TypeOK, NEW p \in Proxy, ProxyLife(p)
  PROVE  TypeOK'
<1>1. CASE Implement(p)
  BY <1>1 DEF Implement, TypeOK, callVars, Reach
<1>2. CASE ImplementThrows(p)
  BY <1>2 DEF ImplementThrows, TypeOK, callVars
<1>3. CASE Drop(p)
  BY <1>3 DEF Drop, TypeOK, callVars, Reach
<1>4. CASE Collect(p)
  BY <1>4 DEF Collect, TypeOK, callVars, Reach
<1>5. CASE Clean(p)
  BY <1>5, PostedType DEF Clean, TypeOK, callVars, Reach
<1>6. QED
  BY <1>1, <1>2, <1>3, <1>4, <1>5 DEF ProxyLife

LEMMA ExitType ==
  ASSUME TypeOK, NEW s \in Isolate, Exit(s)
  PROVE  TypeOK'
<1>1. <<>> \in Seq(Event)
  OBVIOUS
<1>2. QED
  BY <1>1 DEF Exit, TypeOK, callVars

LEMMA InvokeType ==
  ASSUME TypeOK, NEW t \in Thread, NEW p \in Proxy, NEW c \in Call, Invoke(t, p, c)
  PROVE  TypeOK'
<1>1. Enter(t, p, c)
  BY DEF Invoke, InvokeRemote, InvokeDirect
<1>2. stack' \in [Thread -> Seq(Call)]
  BY <1>1, PushType DEF Enter
<1>3. grefs' \in SUBSET GlobalRef
  BY <1>1 DEF Enter, TypeOK, GlobalRef, RefKind
<1>4. caller' \in [Call -> Thread \cup {None}] /\ target' \in [Call -> Proxy \cup {None}]
  BY <1>1 DEF Enter, TypeOK
<1>5. CASE InvokeRemote(t, p, c)
  BY <1>5, <1>2, <1>3, <1>4 DEF InvokeRemote, TypeOK, proxyVars, CallerStep
<1>6. CASE InvokeDirect(t, p, c)
  BY <1>6, <1>2, <1>3, <1>4 DEF InvokeDirect, TypeOK, proxyVars, CallerStep, DartStep
<1>7. QED
  BY <1>5, <1>6 DEF Invoke

(* The calling thread inside _invoke and _cleanUp. *)
LEMMA CallerType ==
  ASSUME TypeOK, RendezvousTargets, NEW c \in Call,
         CallerStepOf(c) \/ SpuriousWakeup(c)
  PROVE  TypeOK'
<1>1. CASE Post(c)
  <2>1. target[c] \in Proxy
    BY <1>1 DEF Post, RendezvousTargets
  <2>2. queue' \in [Isolate -> Seq(Event)]
    BY <1>1, <2>1, PostedType DEF Post
  <2>3. QED
    BY <1>1, <2>2 DEF Post, TypeOK, CallerStep
<1>2. CASE Sleep(c)
  BY <1>2 DEF Sleep, TypeOK, CallerStep, proxyVars
<1>3. CASE Reacquire(c)
  BY <1>3 DEF Reacquire, TypeOK, CallerStep, proxyVars
<1>4. CASE Leave(c)
  BY <1>4 DEF Leave, TypeOK, CallerStep, proxyVars
<1>5. CASE Box(c)
  <2>1. Deref(object[c]) \in Answer \cup {"null", None}
    BY DEF Deref, TypeOK, GlobalRef
  <2>2. QED
    BY <1>5, <2>1 DEF Box, TypeOK, CallerStep, proxyVars
<1>6. CASE CleanUp(c)
  <2>1. stack' \in [Thread -> Seq(Call)]
    BY <1>6, PopType DEF CleanUp
  <2>2. QED
    BY <1>6, <2>1 DEF CleanUp, TypeOK, CallerStep, proxyVars
<1>7. CASE SpuriousWakeup(c)
  BY <1>7 DEF SpuriousWakeup, TypeOK, CallerStep, proxyVars
<1>8. QED
  BY <1>1, <1>2, <1>3, <1>4, <1>5, <1>6, <1>7 DEF CallerStepOf

(* The event loop of an isolate. *)
LEMMA ReceiveType ==
  ASSUME TypeOK, NEW s \in Isolate, Receive(s)
  PROVE  TypeOK'
<1>1. Head(queue[s]) \in Event /\ Tail(queue[s]) \in Seq(Event)
  BY DEF TypeOK, Receive, ReceiveClose, ReceiveCall
<1>2. queue' = [queue EXCEPT ![s] = Tail(@)]
  BY DEF Receive, ReceiveClose, ReceiveCall
<1>2a. queue' \in [Isolate -> Seq(Event)]
  BY <1>1, <1>2 DEF TypeOK
<1>3. CASE ReceiveClose(s)
  <2>1. Head(queue[s]).proxy \in Proxy
    BY <1>1 DEF Event
  <2>2. impls' \in SUBSET Proxy /\ port' \in [Proxy -> {"none", "open", "closed"}]
    BY <1>3, <2>1 DEF ReceiveClose, TypeOK
  <2>3. QED
    BY <1>2a, <1>3, <2>2 DEF ReceiveClose, TypeOK, callVars
<1>4. CASE ReceiveCall(s)
  <2>1. Head(queue[s]).call \in Call
    BY <1>1, <1>4 DEF ReceiveCall, Event
  <2>2. stack' \in [Thread -> Seq(Call)]
    BY <1>4, <2>1, PushType DEF ReceiveCall, Thread, TypeOK
  <2>3. dart' \in [Call -> DartStep]
    BY <1>4, <2>1 DEF ReceiveCall, TypeOK, DartStep
  <2>4. QED
    BY <1>2a, <1>4, <2>2, <2>3 DEF ReceiveCall, TypeOK, proxyVars
<1>5. QED
  BY <1>3, <1>4 DEF Receive

(* The implemented method, the finalizer and the user's own release. *)
LEMMA RunMethodType ==
  ASSUME TypeOK, NEW s \in Isolate, NEW c \in Call, NEW a \in Answer,
         RunMethod(s, c, a)
  PROVE  TypeOK'
<1>1. Produced(c, a) \subseteq GlobalRef /\ Boxed(c, a) \in GlobalRef \cup {None}
  BY DEF Produced, Boxed, GlobalRef, RefKind
<1>2. grefs' \subseteq GlobalRef
  BY <1>1 DEF RunMethod, TypeOK
<1>3. answer' \in [Call -> Answer \cup {None}]
  BY DEF RunMethod, TypeOK
<1>4. pc' \in [Call -> CallerStep] /\ dart' \in [Call -> DartStep]
  <2>1. pc' = [pc EXCEPT ![c] = "left"] \/ pc' = pc
    BY DEF RunMethod
  <2>2. \E d \in {"finished", "answered"} : dart' = [dart EXCEPT ![c] = d]
    BY DEF RunMethod
  <2>3. QED
    BY <2>1, <2>2 DEF TypeOK, CallerStep, DartStep
<1>5. object' \in [Call -> GlobalRef \cup {None}]
  <2>1. object' = [object EXCEPT ![c] = Boxed(c, a)] \/ object' = object
    BY DEF RunMethod
  <2>2. object \in [Call -> GlobalRef \cup {None}]
    BY DEF TypeOK
  <2>3. Boxed(c, a) \in GlobalRef \cup {None}
    BY <1>1
  <2>4. CASE object' = [object EXCEPT ![c] = Boxed(c, a)]
    BY <2>2, <2>3, <2>4
  <2>5. QED
    BY <2>1, <2>2, <2>4
<1>6. QED
  BY <1>2, <1>3, <1>4, <1>5 DEF RunMethod, TypeOK, proxyVars

LEMMA ResultType ==
  ASSUME TypeOK, NEW c \in Call,
         ResultFor(c) \/ FinalizeArgs(c) \/ ReleaseOriginal(c)
  PROVE  TypeOK'
<1>1. CASE ResultAcquire(c)
  BY <1>1 DEF ResultAcquire, TypeOK, DartStep, proxyVars
<1>2. CASE ResultStore(c)
  <2>1. Boxed(c, answer[c]) \in GlobalRef \cup {None}
    BY DEF Boxed, GlobalRef, RefKind
  <2>2. QED
    BY <1>2, <2>1 DEF ResultStore, TypeOK, DartStep, proxyVars
<1>3. CASE ResultSignal(c)
  BY <1>3 DEF ResultSignal, TypeOK, DartStep, CallerStep, proxyVars
<1>4. CASE ResultRelease(c)
  <2>1. stack' \in [Thread -> Seq(Call)]
    BY <1>4, PopType DEF ResultRelease
  <2>2. QED
    BY <1>4, <2>1 DEF ResultRelease, TypeOK, DartStep, proxyVars
<1>5. CASE FinalizeArgs(c)
  BY <1>5 DEF FinalizeArgs, TypeOK, proxyVars
<1>6. CASE ReleaseOriginal(c)
  BY <1>6 DEF ReleaseOriginal, TypeOK, proxyVars
<1>7. QED
  BY <1>1, <1>2, <1>3, <1>4, <1>5, <1>6 DEF ResultFor

-----------------------------------------------------------------------------
(* The inductive invariant, one lemma for each part and kind of step *)

CallInv(c) == FreshInv(c) /\ LockInv(c) /\ RendezvousInv(c) /\ AnswerInv(c)
Waiting == {"checking", "asleep", "waking"}

(* A step that leaves the calls alone keeps what the invariant says of them. *)
LEMMA CallsKept ==
  ASSUME NEW c \in Call, CallInv(c), UNCHANGED callVars
  PROVE  CallInv(c)'
BY DEF CallInv, FreshInv, LockInv, RendezvousInv, AnswerInv, callVars, Resolving,
       Remote, Boxed

(* Proxies are kept by a step that touches neither them nor starts a call. *)
LEMMA ProxyKept ==
  ASSUME NEW p \in Proxy, ProxyInv(p), UNCHANGED <<alive, port, impls, reach>>,
         \A c \in Call : (target[c] = p /\ InNative(c))' => target[c] = p /\ InNative(c)
  PROVE  ProxyInv(p)'
BY DEF ProxyInv

(* A queue is kept by a step that leaves it, and the calls in it, waiting. *)
LEMMA QueueKept ==
  ASSUME TypeOK, NEW s \in Isolate, QueueInv(s), queue'[s] = queue[s],
         \A p \in Proxy : reach[p] = "cleaned" => reach'[p] = "cleaned",
         \A c \in Call : dart[c] = "none" /\ pc[c] \in Waiting =>
            target'[c] = target[c] /\ dart'[c] = "none" /\ pc'[c] \in Waiting
  PROVE  QueueInv(s)'
<1>1. \A k \in 1..Len(queue[s]) : queue[s][k] \in Event
  BY DEF TypeOK
<1>2. \A k \in 1..Len(queue[s]) :
         queue[s][k].proxy \in Proxy /\ queue[s][k].call \in Call \cup {None}
  BY <1>1 DEF Event
<1>3. ASSUME NEW k \in 1..Len(queue'[s])
      PROVE  LET e == queue'[s][k] IN
               /\ Owner[e.proxy] = s
               /\ e.call = None => reach'[e.proxy] = "cleaned"
               /\ e.call # None => /\ target'[e.call] = e.proxy
                                   /\ dart'[e.call] = "none"
                                   /\ pc'[e.call] \in {"checking", "asleep", "waking"}
  BY <1>2, <1>3 DEF QueueInv, Waiting
<1>4. \A j, k \in 1..Len(queue'[s]) :
         j # k /\ queue'[s][j].call # None => queue'[s][j].call # queue'[s][k].call
  BY DEF QueueInv
<1>5. QED
  BY <1>3, <1>4 DEF QueueInv

(* Entering _invoke: the call is fresh, so no other invariant knows it. *)
LEMMA InvokeCalls ==
  ASSUME TypeOK, NEW t \in Thread, NEW p \in Proxy, NEW c \in Call, Invoke(t, p, c),
         NEW d \in Call, CallInv(c), CallInv(d)
  PROVE  CallInv(d)'
<1>1. Enter(t, p, c)
  BY DEF Invoke, InvokeRemote, InvokeDirect
<1>2. CASE d # c
  <2>1. /\ caller'[d] = caller[d] /\ target'[d] = target[d] /\ pc'[d] = pc[d]
        /\ dart'[d] = dart[d] /\ lock'[d] = lock[d] /\ ready'[d] = ready[d]
        /\ object'[d] = object[d] /\ answer'[d] = answer[d]
        /\ delivered'[d] = delivered[d]
    BY <1>1, <1>2 DEF Invoke, InvokeRemote, InvokeDirect, Enter, TypeOK
  <2>2. \A k \in RefKind : <<d, k>> \in grefs' <=> <<d, k>> \in grefs
    BY <1>1, <1>2 DEF Enter
  <2>3. QED
    BY <2>1, <2>2 DEF CallInv, FreshInv, LockInv, RendezvousInv, AnswerInv,
                      Resolving, Remote, Boxed, RefKind
<1>3. CASE d = c /\ InvokeRemote(t, p, c)
  BY <1>1, <1>3 DEF InvokeRemote, Enter, CallInv, FreshInv, LockInv, RendezvousInv,
                    AnswerInv, Resolving, Remote, TypeOK, RefKind
<1>4. CASE d = c /\ InvokeDirect(t, p, c)
  BY <1>1, <1>4 DEF InvokeDirect, Enter, CallInv, FreshInv, LockInv, RendezvousInv,
                    AnswerInv, Resolving, Remote, TypeOK, RefKind
<1>5. QED
  BY <1>2, <1>3, <1>4 DEF Invoke

(* Two calls have no variable and no reference in common: what a step does *)
(* to one leaves the invariant of the other alone.                         *)
OnlyTouches(c) ==
  \A d \in Call \ {c} :
     /\ caller'[d] = caller[d] /\ target'[d] = target[d] /\ pc'[d] = pc[d]
     /\ dart'[d] = dart[d] /\ lock'[d] = lock[d] /\ ready'[d] = ready[d]
     /\ object'[d] = object[d] /\ answer'[d] = answer[d]
     /\ delivered'[d] = delivered[d]
     /\ \A k \in RefKind : <<d, k>> \in grefs' <=> <<d, k>> \in grefs

LEMMA OthersKept ==
  ASSUME NEW c \in Call, OnlyTouches(c), NEW d \in Call \ {c}, CallInv(d)
  PROVE  CallInv(d)'
BY DEF OnlyTouches, CallInv, FreshInv, LockInv, RendezvousInv, AnswerInv, Resolving,
       Remote, Boxed, RefKind

(* The calling thread between _invoke and the return of _cleanUp. *)
LEMMA CallerCalls ==
  ASSUME TypeOK, NEW c \in Call, CallerStepOf(c) \/ SpuriousWakeup(c),
         NEW d \in Call, CallInv(c), CallInv(d)
  PROVE  CallInv(d)'
<1>a. object[c] \in {None, <<c, "copy">>} \/ dart[c] # "finished"
  BY DEF CallInv, AnswerInv, Boxed
<1>b. OnlyTouches(c)
  <2>1. CASE CleanUp(c)
    <3>1. object[c] \in {None, <<c, "copy">>}
      BY <1>a, <2>1 DEF CleanUp, CallInv, RendezvousInv
    <3>2. \A e \in Call \ {c} : \A k \in RefKind : <<e, k>> # object[c]
      BY <3>1 DEF GlobalRef
    <3>3. QED
      BY <2>1, <3>2 DEF CleanUp, OnlyTouches, TypeOK
  <2>2. CASE ~ CleanUp(c)
    BY <2>2 DEF CallerStepOf, Post, Sleep, Reacquire, Leave, Box, SpuriousWakeup,
                OnlyTouches, TypeOK
  <2>3. QED
    BY <2>1, <2>2
<1>1. CASE d # c
  BY <1>1, <1>b, OthersKept
<1>2. CASE d = c
  <2> USE <1>2 DEF CallInv, FreshInv, LockInv, RendezvousInv, AnswerInv, Resolving,
                   Remote, Boxed, TypeOK
  <2>1. CASE Post(c)
    BY <2>1 DEF Post
  <2>2. CASE Sleep(c)
    BY <2>2 DEF Sleep
  <2>3. CASE Reacquire(c)
    BY <2>3 DEF Reacquire
  <2>4. CASE Leave(c)
    BY <2>4 DEF Leave
  <2>5. CASE Box(c)
    <3>1. answer[c] # None /\ object[c] = Boxed(c, answer[c])
      BY <2>5 DEF Box
    <3>2. <<c, "copy">> # None
      BY DEF GlobalRef, RefKind
    <3>3. Deref(object[c]) = answer[c]
      BY <3>1, <3>2 DEF Deref
    <3>4. QED
      BY <2>5, <3>1, <3>3 DEF Box
  <2>6. CASE CleanUp(c)
    <3>1. dart[c] = "finished" /\ object[c] = Boxed(c, answer[c])
      BY <2>6 DEF CleanUp
    <3>2. <<c, "copy">> \notin grefs'
      BY <2>6, <3>1 DEF CleanUp
    <3>3. QED
      BY <2>6, <3>1, <3>2 DEF CleanUp
  <2>7. CASE SpuriousWakeup(c)
    BY <2>7 DEF SpuriousWakeup
  <2>8. QED
    BY <2>1, <2>2, <2>3, <2>4, <2>5, <2>6, <2>7 DEF CallerStepOf
<1>3. QED
  BY <1>1, <1>2

(* The isolate runs the method, the event loop hands a call to the listener. *)
LEMMA ReceiveCalls ==
  ASSUME TypeOK, NEW s \in Isolate, QueueInv(s), Receive(s),
         NEW d \in Call, CallInv(d)
  PROVE  CallInv(d)'
<1>1. CASE ReceiveClose(s)
  BY <1>1, CallsKept DEF ReceiveClose
<1>2. CASE ReceiveCall(s)
  <2> DEFINE c == Head(queue[s]).call
  <2>1. Head(queue[s]) \in Event /\ Head(queue[s]) = queue[s][1] /\ 1 \in 1..Len(queue[s])
    BY <1>2 DEF ReceiveCall, TypeOK
  <2>2. c \in Call /\ dart[c] = "none" /\ pc[c] \in Waiting
    BY <1>2, <2>1 DEF ReceiveCall, QueueInv, Event, Waiting
  <2>3. dart' = dart \/ dart' = [dart EXCEPT ![c] = "running"]
    BY <1>2 DEF ReceiveCall
  <2>4. UNCHANGED <<caller, target, pc, lock, ready, object, answer, delivered, grefs>>
    BY <1>2 DEF ReceiveCall
  <2>5. CASE d # c
    BY <2>2, <2>3, <2>4, <2>5, OthersKept DEF OnlyTouches, TypeOK
  <2>6. CASE d = c
    BY <2>2, <2>3, <2>4, <2>6, SMTT(30)
       DEF CallInv, FreshInv, LockInv, RendezvousInv, AnswerInv, Resolving, Remote,
           Boxed, TypeOK, Waiting
  <2>7. QED
    BY <2>5, <2>6
<1>3. QED
  BY <1>1, <1>2 DEF Receive

LEMMA RunMethodCalls ==
  ASSUME TypeOK, NEW s \in Isolate, NEW c \in Call, NEW a \in Answer,
         RunMethod(s, c, a), NEW d \in Call, CallInv(c), CallInv(d)
  PROVE  CallInv(d)'
<1>1. OnlyTouches(c)
  <2>1. \A e \in Call \ {c}, k \in RefKind : <<e, k>> \notin Produced(c, a)
    BY DEF Produced
  <2>2. \A e \in Call \ {c} : /\ pc'[e] = pc[e] /\ dart'[e] = dart[e]
                              /\ object'[e] = object[e]
    BY DEF RunMethod, TypeOK
  <2>3. QED
    BY <2>1, <2>2 DEF RunMethod, OnlyTouches, TypeOK
<1>2. CASE d # c
  BY <1>1, <1>2, OthersKept
<1>3. CASE d = c
  <2>1. a # None /\ a \in {"value", "null", "exception"}
    OBVIOUS
  <2>2. /\ <<c, "copy">> \in grefs' <=> a # "null"
        /\ <<c, "descriptor">> \notin grefs'
    <3>1. <<c, "copy">> \notin grefs
      BY DEF RunMethod, CallInv, AnswerInv
    <3>2. QED
      BY <2>1, <3>1 DEF RunMethod, Produced
  <2>3. answer'[c] = a
    BY DEF RunMethod, TypeOK
  <2>4. CASE pc[c] = "direct"
    BY <1>3, <2>1, <2>2, <2>3, <2>4, SMTT(30)
       DEF RunMethod, CallInv, FreshInv, LockInv, RendezvousInv, AnswerInv, Resolving,
           Remote, TypeOK
  <2>5. CASE pc[c] # "direct"
    BY <1>3, <2>1, <2>2, <2>3, <2>5, SMTT(30)
       DEF RunMethod, CallInv, FreshInv, LockInv, RendezvousInv, AnswerInv, Resolving,
           Remote, TypeOK
  <2>6. QED
    BY <2>4, <2>5
<1>4. QED
  BY <1>2, <1>3

(* resultFor, and the references that are released behind its back. *)
LEMMA ResultCalls ==
  ASSUME TypeOK, NEW c \in Call,
         ResultFor(c) \/ FinalizeArgs(c) \/ ReleaseOriginal(c),
         NEW d \in Call, CallInv(c), CallInv(d)
  PROVE  CallInv(d)'
<1>1. OnlyTouches(c)
  BY DEF ResultFor, ResultAcquire, ResultStore, ResultSignal, ResultRelease,
         FinalizeArgs, ReleaseOriginal, OnlyTouches, TypeOK
<1>2. CASE d # c
  BY <1>1, <1>2, OthersKept
<1>3. CASE d = c
  <2> USE <1>3 DEF CallInv, FreshInv, LockInv, RendezvousInv, AnswerInv, Resolving,
                   Remote, TypeOK
  <2>1. CASE ResultAcquire(c)
    BY <2>1 DEF ResultAcquire, Boxed
  <2>2. CASE ResultStore(c)
    BY <2>2 DEF ResultStore
  <2>3. CASE ResultSignal(c)
    BY <2>3 DEF ResultSignal, Boxed
  <2>4. CASE ResultRelease(c)
    BY <2>4 DEF ResultRelease, Boxed
  <2>5. CASE FinalizeArgs(c)
    BY <2>5 DEF FinalizeArgs, Boxed
  <2>6. CASE ReleaseOriginal(c)
    BY <2>6 DEF ReleaseOriginal, Boxed
  <2>7. QED
    BY <2>1, <2>2, <2>3, <2>4, <2>5, <2>6 DEF ResultFor
<1>4. QED
  BY <1>2, <1>3

-----------------------------------------------------------------------------
(* The part of the invariant about proxies *)

LEMMA ProxyLifeProxies ==
  ASSUME TypeOK, NEW q \in Proxy, ProxyLife(q), NEW p \in Proxy, ProxyInv(p)
  PROVE  ProxyInv(p)'
<1>0. UNCHANGED callVars /\ UNCHANGED alive
  BY DEF ProxyLife, Implement, ImplementThrows, Drop, Collect, Clean
<1>1. \A c \in Call : InNative(c)' = InNative(c) /\ target'[c] = target[c]
  BY <1>0 DEF InNative, callVars
<1>2. CASE Implement(q)
  BY <1>0, <1>1, <1>2 DEF Implement, ProxyInv, TypeOK
<1>3. CASE ImplementThrows(q)
  BY <1>0, <1>1, <1>3 DEF ImplementThrows, ProxyInv, TypeOK
<1>4. CASE Drop(q)
  BY <1>0, <1>1, <1>4 DEF Drop, ProxyInv, TypeOK
<1>5. CASE Collect(q)
  BY <1>0, <1>1, <1>5 DEF Collect, Reachable, ProxyInv, TypeOK
<1>6. CASE Clean(q)
  BY <1>0, <1>1, <1>6 DEF Clean, ProxyInv, TypeOK
<1>7. QED
  BY <1>2, <1>3, <1>4, <1>5, <1>6 DEF ProxyLife

LEMMA ExitProxies ==
  ASSUME TypeOK, NEW s \in Isolate, Exit(s), NEW p \in Proxy, ProxyInv(p)
  PROVE  ProxyInv(p)'
<1>1. \A c \in Call : InNative(c)' = InNative(c) /\ target'[c] = target[c]
  BY DEF Exit, InNative, callVars
<1>2. QED
  BY <1>1 DEF Exit, ProxyInv, TypeOK

LEMMA InvokeProxies ==
  ASSUME TypeOK, NEW t \in Thread, NEW q \in Proxy, NEW c \in Call, Invoke(t, q, c),
         NEW p \in Proxy, ProxyInv(p)
  PROVE  ProxyInv(p)'
<1>1. Enter(t, q, c) /\ UNCHANGED proxyVars
  BY DEF Invoke, InvokeRemote, InvokeDirect
<1>2. reach[q] = "held" /\ \A d \in Call \ {c} : target'[d] = target[d] /\ pc'[d] = pc[d]
  BY <1>1 DEF Enter, Invoke, InvokeRemote, InvokeDirect, TypeOK
<1>3. target'[c] = q
  BY <1>1 DEF Enter, TypeOK
<1>4. QED
  BY <1>1, <1>2, <1>3 DEF ProxyInv, InNative, proxyVars

LEMMA CallProxies ==
  ASSUME TypeOK, NEW c \in Call,
         \/ CallerStepOf(c) \/ SpuriousWakeup(c) \/ ResultFor(c)
         \/ FinalizeArgs(c) \/ ReleaseOriginal(c)
         \/ \E s \in Isolate, a \in Answer : RunMethod(s, c, a),
         NEW p \in Proxy, ProxyInv(p)
  PROVE  ProxyInv(p)'
<1>1. UNCHANGED <<alive, port, impls, reach, target>>
  BY DEF CallerStepOf, Post, Sleep, Reacquire, Leave, Box, CleanUp, SpuriousWakeup,
         ResultFor, ResultAcquire, ResultStore, ResultSignal, ResultRelease,
         FinalizeArgs, ReleaseOriginal, RunMethod, proxyVars
<1>2. \A d \in Call : InNative(d)' => InNative(d)
  BY DEF CallerStepOf, Post, Sleep, Reacquire, Leave, Box, CleanUp, SpuriousWakeup,
         ResultFor, ResultAcquire, ResultStore, ResultSignal, ResultRelease,
         FinalizeArgs, ReleaseOriginal, RunMethod, InNative, TypeOK
<1>3. QED
  BY <1>1, <1>2, ProxyKept

LEMMA ReceiveProxies ==
  ASSUME TypeOK, NEW s \in Isolate, QueueInv(s), Receive(s),
         NEW p \in Proxy, ProxyInv(p)
  PROVE  ProxyInv(p)'
<1>1. \A c \in Call : InNative(c)' = InNative(c) /\ target'[c] = target[c]
  BY DEF Receive, ReceiveClose, ReceiveCall, InNative, callVars
<1>2. Head(queue[s]) \in Event /\ Head(queue[s]) = queue[s][1] /\ 1 \in 1..Len(queue[s])
  BY DEF Receive, ReceiveClose, ReceiveCall, TypeOK
<1>3. CASE ReceiveCall(s)
  BY <1>1, <1>3, ProxyKept DEF ReceiveCall
<1>4. CASE ReceiveClose(s)
  <2>1. reach[Head(queue[s]).proxy] = "cleaned" /\ Head(queue[s]).proxy \in Proxy
    BY <1>2, <1>4 DEF ReceiveClose, QueueInv, Event
  <2>2. QED
    BY <1>1, <1>4, <2>1 DEF ReceiveClose, ProxyInv, TypeOK
<1>5. QED
  BY <1>3, <1>4 DEF Receive

-----------------------------------------------------------------------------
(* The part of the invariant about queues *)

EventInv(s, e) ==
  /\ Owner[e.proxy] = s
  /\ e.call = None => reach[e.proxy] = "cleaned"
  /\ e.call # None => /\ target[e.call] = e.proxy
                      /\ dart[e.call] = "none"
                      /\ pc[e.call] \in Waiting

(* Appending one good event that is not queued yet. *)
LEMMA AppendQueue ==
  ASSUME TypeOK, NEW s \in Isolate, QueueInv(s), NEW e \in Event,
         queue'[s] = Append(queue[s], e), EventInv(s, e)',
         \A k \in 1..Len(queue[s]) : e.call = None \/ queue[s][k].call # e.call,
         \A p \in Proxy : reach[p] = "cleaned" => reach'[p] = "cleaned",
         \A c \in Call : dart[c] = "none" /\ pc[c] \in Waiting =>
            target'[c] = target[c] /\ dart'[c] = "none" /\ pc'[c] \in Waiting
  PROVE  QueueInv(s)'
<1> DEFINE n == Len(queue[s])
<1>1. /\ Len(queue'[s]) = n + 1 /\ n \in Nat
      /\ queue'[s][n + 1] = e
      /\ \A k \in 1..n : queue'[s][k] = queue[s][k]
  BY DEF TypeOK
<1>2. \A k \in 1..n : queue[s][k].proxy \in Proxy /\ queue[s][k].call \in Call \cup {None}
  <2>1. \A k \in 1..n : queue[s][k] \in Event
    BY DEF TypeOK
  <2>2. QED
    BY <2>1 DEF Event
<1>3. ASSUME NEW k \in 1..(n + 1)
      PROVE  EventInv(s, queue[s][k])'
  <2>1. CASE k = n + 1
    BY <1>1, <2>1 DEF EventInv
  <2>2. CASE k \in 1..n
    <3>1. EventInv(s, queue[s][k])
      BY <2>2 DEF QueueInv, EventInv, Waiting
    <3>2. PICK f : f = queue[s][k] /\ f = queue'[s][k]
      BY <1>1, <2>2
    <3>3. f.proxy \in Proxy /\ f.call \in Call \cup {None}
      BY <1>2, <2>2, <3>2
    <3>4. QED
      BY <3>1, <3>2, <3>3 DEF EventInv
  <2>3. QED
    BY <1>1, <2>1, <2>2
<1>4. \A j, k \in 1..(n + 1) :
         j # k /\ queue'[s][j].call # None => queue'[s][j].call # queue'[s][k].call
  <2>1. \A j, k \in 1..n :
           j # k /\ queue[s][j].call # None => queue[s][j].call # queue[s][k].call
    BY DEF QueueInv
  <2>2. QED
    BY <1>1, <2>1
<1>5. QED
  BY <1>1, <1>3, <1>4, SMTT(30) DEF QueueInv, EventInv, Waiting

(* Taking the head off: what is left was queued before it was taken. *)
LEMMA TailQueue ==
  ASSUME TypeOK, NEW s \in Isolate, QueueInv(s), queue[s] # <<>>,
         queue'[s] = Tail(queue[s]), UNCHANGED <<reach, target, pc>>,
         \A c \in Call : c # Head(queue[s]).call => dart'[c] = dart[c]
  PROVE  QueueInv(s)'
<1> DEFINE n == Len(queue[s])
<1>1. /\ n \in Nat \ {0} /\ Len(queue'[s]) = n - 1
      /\ Head(queue[s]) = queue[s][1]
      /\ \A k \in 1..(n - 1) : queue'[s][k] = queue[s][k + 1]
  BY DEF TypeOK
<1>2. \A k \in 1..n : queue[s][k].proxy \in Proxy /\ queue[s][k].call \in Call \cup {None}
  <2>1. \A k \in 1..n : queue[s][k] \in Event
    BY DEF TypeOK
  <2>2. QED
    BY <2>1 DEF Event
<1>3. ASSUME NEW k \in 1..(n - 1)
      PROVE  EventInv(s, queue[s][k])'
  <2>1. k + 1 \in 1..n /\ k + 1 # 1 /\ 1 \in 1..n
    BY <1>1
  <2>2. EventInv(s, queue[s][k + 1])
    BY <2>1 DEF QueueInv, EventInv, Waiting
  <2>3. queue[s][k + 1].call # None => queue[s][k + 1].call # queue[s][1].call
    BY <2>1 DEF QueueInv
  <2>4. queue[s][k + 1].call \in Call \cup {None}
    BY <1>2, <2>1
  <2>5. PICK f : f = queue[s][k + 1] /\ f = queue'[s][k]
    BY <1>1
  <2>6. f.proxy \in Proxy
    BY <1>2, <2>1, <2>5
  <2>7. QED
    BY <1>1, <2>2, <2>3, <2>4, <2>5, <2>6 DEF EventInv
<1>4. \A j, k \in 1..(n - 1) :
         j # k /\ queue'[s][j].call # None => queue'[s][j].call # queue'[s][k].call
  <2>1. \A j, k \in 1..n :
           j # k /\ queue[s][j].call # None => queue[s][j].call # queue[s][k].call
    BY DEF QueueInv
  <2>2. \A j \in 1..(n - 1) : j + 1 \in 1..n
    BY <1>1
  <2>3. QED
    BY <1>1, <2>1, <2>2
<1>5. QED
  BY <1>1, <1>3, <1>4, ZenonT(60) DEF QueueInv, EventInv, Waiting

(* A step of a call that is not waiting unqueued disturbs no queue. *)
LEMMA ProxyLifeQueues ==
  ASSUME TypeOK, NEW p \in Proxy, ProxyInv(p), ProxyLife(p),
         NEW s \in Isolate, QueueInv(s)
  PROVE  QueueInv(s)'
<1>1. UNCHANGED callVars
  BY DEF ProxyLife, Implement, ImplementThrows, Drop, Collect, Clean
<1>2. \A q \in Proxy : reach[q] = "cleaned" => reach'[q] = "cleaned"
  BY DEF ProxyLife, Implement, ImplementThrows, Drop, Collect, Clean, TypeOK, ProxyInv
<1>3. CASE queue'[s] = queue[s]
  BY <1>1, <1>2, <1>3, QueueKept DEF callVars
<1>4. CASE queue'[s] # queue[s]
  <2>1. Clean(p) /\ port[p] = "open" /\ s = Owner[p]
    BY <1>4 DEF ProxyLife, Implement, ImplementThrows, Drop, Collect, Clean, Posted, TypeOK
  <2> DEFINE e == [proxy |-> p, call |-> None]
  <2>2. e \in Event /\ e.call = None /\ e.proxy = p
    BY DEF Event
  <2>3. queue'[s] = Append(queue[s], e)
    BY <2>1 DEF Clean, Posted, TypeOK
  <2>4. EventInv(s, e)'
    BY <2>1, <2>2 DEF EventInv, Clean, TypeOK
  <2> HIDE DEF e
  <2>5. QED
    BY <1>1, <1>2, <2>2, <2>3, <2>4, AppendQueue DEF callVars
<1>5. QED
  BY <1>3, <1>4

LEMMA ExitQueues ==
  ASSUME TypeOK, NEW x \in Isolate, Exit(x), NEW s \in Isolate, QueueInv(s)
  PROVE  QueueInv(s)'
<1>1. CASE s = x
  <2>1. queue'[s] = <<>>
    BY <1>1 DEF Exit, TypeOK
  <2>2. QED
    BY <2>1 DEF QueueInv
<1>2. CASE s # x
  BY <1>2, QueueKept DEF Exit, TypeOK, callVars
<1>3. QED
  BY <1>1, <1>2

LEMMA CallQueues ==
  ASSUME TypeOK, NEW c \in Call, CallInv(c),
         \/ \E t \in Thread, p \in Proxy : Invoke(t, p, c)
         \/ Sleep(c) \/ Reacquire(c) \/ Leave(c) \/ Box(c) \/ CleanUp(c)
         \/ SpuriousWakeup(c) \/ ResultFor(c) \/ FinalizeArgs(c) \/ ReleaseOriginal(c)
         \/ \E x \in Isolate, a \in Answer : RunMethod(x, c, a),
         NEW s \in Isolate, QueueInv(s)
  PROVE  QueueInv(s)'
<1>1. UNCHANGED proxyVars
  BY DEF Invoke, InvokeRemote, InvokeDirect, Sleep, Reacquire, Leave, Box, CleanUp,
         SpuriousWakeup, ResultFor, ResultAcquire, ResultStore, ResultSignal,
         ResultRelease, FinalizeArgs, ReleaseOriginal, RunMethod
<1>2. \A d \in Call \ {c} : target'[d] = target[d] /\ dart'[d] = dart[d] /\ pc'[d] = pc[d]
  BY DEF Invoke, InvokeRemote, InvokeDirect, Enter, Sleep, Reacquire, Leave, Box, CleanUp,
         SpuriousWakeup, ResultFor, ResultAcquire, ResultStore, ResultSignal,
         ResultRelease, FinalizeArgs, ReleaseOriginal, RunMethod, TypeOK
<1>3. dart[c] = "none" /\ pc[c] \in Waiting =>
         target'[c] = target[c] /\ dart'[c] = "none" /\ pc'[c] \in Waiting
  BY DEF Invoke, InvokeRemote, InvokeDirect, Enter, Sleep, Reacquire, Leave, Box, CleanUp,
         SpuriousWakeup, ResultFor, ResultAcquire, ResultStore, ResultSignal,
         ResultRelease, FinalizeArgs, ReleaseOriginal, RunMethod, TypeOK, Waiting,
         CallInv, RendezvousInv
<1>4. QED
  BY <1>1, <1>2, <1>3, QueueKept DEF proxyVars

LEMMA PostQueues ==
  ASSUME TypeOK, NEW c \in Call, CallInv(c), Post(c), NEW s \in Isolate, QueueInv(s)
  PROVE  QueueInv(s)'
<1>0. PICK e : e = [proxy |-> target[c], call |-> c]
  OBVIOUS
<1>1. target[c] \in Proxy /\ dart[c] = "none" /\ pc[c] = "locked"
  BY DEF Post, CallInv, RendezvousInv
<1>2. \A d \in Call : dart[d] = "none" /\ pc[d] \in Waiting =>
         target'[d] = target[d] /\ dart'[d] = "none" /\ pc'[d] \in Waiting
  BY <1>1 DEF Post, TypeOK, Waiting
<1>3. CASE queue'[s] = queue[s]
  BY <1>2, <1>3, QueueKept DEF Post
<1>4. CASE queue'[s] # queue[s]
  <2>1. s = Owner[target[c]] /\ queue'[s] = Append(queue[s], e)
    BY <1>0, <1>1, <1>4 DEF Post, Posted, TypeOK
  <2>2. e \in Event /\ e.call = c /\ e.proxy = target[c] /\ c # None
    BY <1>0, <1>1 DEF Event
  <2>3. EventInv(s, e)'
    BY <1>1, <2>1, <2>2 DEF EventInv, Post, TypeOK, Waiting
  <2>4. \A k \in 1..Len(queue[s]) : queue[s][k].call # e.call
    BY <1>1, <2>2 DEF QueueInv
  <2>5. QED
    BY <1>2, <2>1, <2>2, <2>3, <2>4, AppendQueue, SMTT(30) DEF Post
<1>5. QED
  BY <1>3, <1>4

LEMMA ReceiveQueues ==
  ASSUME TypeOK, NEW x \in Isolate, QueueInv(x), Receive(x),
         NEW s \in Isolate, QueueInv(s)
  PROVE  QueueInv(s)'
<1>1. /\ queue[x] # <<>> /\ queue' = [queue EXCEPT ![x] = Tail(@)]
      /\ UNCHANGED <<reach, target, pc>>
      /\ dart' = dart \/ dart' = [dart EXCEPT ![Head(queue[x]).call] = "running"]
  BY DEF Receive, ReceiveClose, ReceiveCall, callVars
<1>2. CASE s = x
  BY <1>1, <1>2, TailQueue DEF TypeOK
<1>3. CASE s # x
  <2>1. Head(queue[x]) = queue[x][1] /\ 1 \in 1..Len(queue[x])
    BY <1>1 DEF TypeOK
  <2>2. Owner[Head(queue[x]).proxy] = x
    BY <2>1 DEF QueueInv
  <2>3. queue'[s] = queue[s]
    BY <1>1, <1>3 DEF TypeOK
  <2>4. \A k \in 1..Len(queue[s]) : EventInv(s, queue[s][k])
    BY DEF QueueInv, EventInv, Waiting
  <2>5. EventInv(x, Head(queue[x]))
    BY <2>1 DEF QueueInv, EventInv, Waiting
  <2>6. \A k \in 1..Len(queue[s]) : queue[s][k].call # None =>
           queue[s][k].call # Head(queue[x]).call
    BY <1>3, <2>4, <2>5 DEF EventInv
  <2>7. \A k \in 1..Len(queue[s]) : queue[s][k].call \in Call \cup {None}
    <3>1. \A k \in 1..Len(queue[s]) : queue[s][k] \in Event
      BY DEF TypeOK
    <3>2. QED
      BY <3>1 DEF Event
  <2>8. \A k \in 1..Len(queue[s]) : queue[s][k].call # None =>
           dart'[queue[s][k].call] = dart[queue[s][k].call]
    BY <1>1, <2>6, <2>7 DEF TypeOK
  <2>9. QED
    BY <1>1, <2>3, <2>4, <2>8, SMTT(30) DEF QueueInv, EventInv, Waiting
<1>4. QED
  BY <1>2, <1>3

-----------------------------------------------------------------------------
(* The invariant *)

LEMMA IInvParts ==
  IInv <=> /\ TypeOK
           /\ \A c \in Call : CallInv(c)
           /\ \A p \in Proxy : ProxyInv(p)
           /\ \A s \in Isolate : QueueInv(s)
BY DEF IInv, CallInv

LEMMA IInvPartsNext ==
  ASSUME TypeOK', \A c \in Call : CallInv(c)', \A p \in Proxy : ProxyInv(p)',
         \A s \in Isolate : QueueInv(s)'
  PROVE  IInv'
BY DEF IInv, CallInv

LEMMA InitIInv == Init => IInv
<1> SUFFICES ASSUME Init PROVE IInv
  OBVIOUS
<1>1. TypeOK
  <2>1. <<>> \in Seq(Event) /\ <<>> \in Seq(Call)
    OBVIOUS
  <2>2. QED
    BY <2>1 DEF Init, TypeOK, CallerStep, DartStep, Reach, GlobalRef
<1>2. ASSUME NEW c \in Call PROVE CallInv(c)
  BY DEF Init, CallInv, FreshInv, LockInv, RendezvousInv, AnswerInv, Resolving, Remote
<1>3. ASSUME NEW p \in Proxy PROVE ProxyInv(p)
  BY DEF Init, ProxyInv, InNative
<1>4. ASSUME NEW s \in Isolate PROVE QueueInv(s)
  BY DEF Init, QueueInv
<1>5. QED
  BY <1>1, <1>2, <1>3, <1>4, IInvParts

LEMMA NextIInv == IInv /\ [Next]_vars => IInv'
<1> SUFFICES ASSUME IInv, [Next]_vars PROVE IInv'
  OBVIOUS
<1> USE IInvParts, IInvPartsNext
<1>0. RendezvousTargets
  BY DEF RendezvousTargets, CallInv, RendezvousInv
<1>1. ASSUME NEW q \in Proxy, ProxyLife(q) PROVE IInv'
  <2>1. UNCHANGED callVars
    BY <1>1 DEF ProxyLife, Implement, ImplementThrows, Drop, Collect, Clean
  <2>2. QED
    BY <1>1, <2>1, ProxyLifeType, CallsKept, ProxyLifeProxies, ProxyLifeQueues
<1>2. ASSUME NEW x \in Isolate, Exit(x) PROVE IInv'
  <2>1. UNCHANGED callVars
    BY <1>2 DEF Exit
  <2>2. QED
    BY <1>2, <2>1, ExitType, CallsKept, ExitProxies, ExitQueues
<1>3. ASSUME NEW t \in Thread, NEW q \in Proxy, NEW c \in Call, Invoke(t, q, c)
      PROVE IInv'
  BY <1>3, InvokeType, InvokeCalls, InvokeProxies, CallQueues
<1>4. ASSUME NEW c \in Call, CallerStepOf(c) \/ SpuriousWakeup(c) PROVE IInv'
  <2>1. TypeOK'
    BY <1>0, <1>4, CallerType
  <2>2. \A d \in Call : CallInv(d)'
    BY <1>4, CallerCalls
  <2>3. \A p \in Proxy : ProxyInv(p)'
    BY <1>4, CallProxies
  <2>4. \A s \in Isolate : QueueInv(s)'
    BY <1>4, CallQueues, PostQueues DEF CallerStepOf
  <2>5. QED
    BY <2>1, <2>2, <2>3, <2>4
<1>5. ASSUME NEW x \in Isolate, Receive(x) PROVE IInv'
  BY <1>5, ReceiveType, ReceiveCalls, ReceiveProxies, ReceiveQueues
<1>6. ASSUME NEW x \in Isolate, NEW c \in Call, NEW a \in Answer, RunMethod(x, c, a)
      PROVE IInv'
  BY <1>6, RunMethodType, RunMethodCalls, CallProxies, CallQueues
<1>7. ASSUME NEW c \in Call, ResultFor(c) \/ FinalizeArgs(c) \/ ReleaseOriginal(c)
      PROVE IInv'
  BY <1>7, ResultType, ResultCalls, CallProxies, CallQueues
<1>8. CASE UNCHANGED vars
  <2>1. UNCHANGED <<proxyVars, stack, callVars>>
    BY <1>8 DEF vars
  <2>2. TypeOK'
    BY <2>1 DEF TypeOK, proxyVars, callVars
  <2>3. \A c \in Call : CallInv(c)'
    BY <2>1, CallsKept
  <2>4. \A p \in Proxy : ProxyInv(p)'
    BY <2>1 DEF ProxyInv, InNative, proxyVars, callVars
  <2>5. \A s \in Isolate : QueueInv(s)'
    BY <2>1 DEF QueueInv, proxyVars, callVars
  <2>6. QED
    BY <2>2, <2>3, <2>4, <2>5
<1>9. QED
  BY <1>1, <1>2, <1>3, <1>4, <1>5, <1>6, <1>7, <1>8 DEF Next

(***************************************************************************)
(* The inductive invariant of the callback machinery: who holds the lock   *)
(* of a CallbackResult, which stage caller and isolate have reached with   *)
(* respect to one another, what is queued, and which proxies may still be  *)
(* called.                                                                 *)
(***************************************************************************)
THEOREM CallbackInvariant == Spec => []IInv
<1>1. QED
  BY InitIInv, NextIInv, PTL DEF Spec

(* Type correctness. *)
THEOREM TypeCorrect == Spec => []TypeOK
<1>1. IInv => TypeOK
  BY DEF IInv
<1>2. QED
  BY <1>1, CallbackInvariant, PTL

(* resultFor never touches a CallbackResult that _invoke has destroyed. *)
THEOREM NoUseAfterFree == Spec => []CellOutlivesResolver
<1>1. IInv => CellOutlivesResolver
  BY DEF IInv, RendezvousInv, CellOutlivesResolver, Resolving
<1>2. QED
  BY <1>1, CallbackInvariant, PTL

(* A pending call finds its port open and its implementation registered. *)
THEOREM ImplementationPresent == Spec => []CallsFindImplementation
<1>1. IInv => CallsFindImplementation
  <2> SUFFICES ASSUME IInv, NEW c \in Call, Pending(c), Owner[target[c]] \in alive
               PROVE  target[c] \in impls /\ port[target[c]] = "open"
    BY DEF CallsFindImplementation
  <2>1. target[c] \in Proxy
    BY DEF IInv, RendezvousInv, Pending, InNative
  <2>2. reach[target[c]] \in {"held", "dropped"}
    BY <2>1 DEF IInv, ProxyInv, Pending
  <2>3. QED
    BY <2>1, <2>2 DEF IInv, ProxyInv
<1>2. QED
  BY <1>1, CallbackInvariant, PTL

(* The reference that Java reads the result through is live when it does. *)
THEOREM ResultNotDangling == Spec => []ResultRefLive
<1>1. IInv => ResultRefLive
  <2> SUFFICES ASSUME IInv, NEW c \in Call, ready[c] \/ pc[c] \in {"left", "boxed"},
                      pc[c] # "done", object[c] # None
               PROVE  object[c] \in grefs
    BY DEF ResultRefLive
  <2>1. dart[c] \in {"stored", "signalled", "finished"}
    BY DEF IInv, RendezvousInv
  <2>2. object[c] = Boxed(c, answer[c]) /\ answer[c] # None
    BY <2>1 DEF IInv, AnswerInv
  <2>3. answer[c] # "null" /\ object[c] = <<c, "copy">>
    BY <2>2 DEF Boxed
  <2>4. QED
    BY <2>2, <2>3 DEF IInv, AnswerInv
<1>2. QED
  BY <1>1, CallbackInvariant, PTL

(* What a returned call leaves is not for the Java side to release. *)
THEOREM ReturnedCallIsClean == Spec => []NothingLeftBehind
<1>1. IInv => NothingLeftBehind
  <2> SUFFICES ASSUME IInv, NEW c \in Call, pc[c] = "done", NEW r \in grefs, r[1] = c
               PROVE  r \in {c} \X {"args", "orig", "message"}
    BY DEF NothingLeftBehind
  <2>1. PICK k \in RefKind : r = <<c, k>>
    BY DEF IInv, TypeOK, GlobalRef
  <2>2. dart[c] = "finished"
    BY DEF IInv, RendezvousInv
  <2>3. <<c, "copy">> \notin grefs /\ <<c, "descriptor">> \notin grefs
    BY <2>2 DEF IInv, AnswerInv
  <2>4. QED
    BY <2>1, <2>3 DEF RefKind
<1>2. QED
  BY <1>1, CallbackInvariant, PTL

-----------------------------------------------------------------------------
(* Refinement: every step is a step of a synchronous call, or stutters *)

Received(c) == IF pc[c] = "done" THEN delivered[c] ELSE None

\* What a step must leave alone for the abstract specification to stutter.
LEMMA Stutters ==
  ASSUME UNCHANGED <<impls, target, answer>>,
         \A c \in Call : Phase(c)' = Phase(c) /\ Received(c)' = Received(c)
  PROVE  UNCHANGED Sync!svars
BY DEF Sync!svars, Received

LEMMA SamePhase ==
  ASSUME NEW c \in Call, pc'[c] = pc[c], dart'[c] = dart[c], delivered'[c] = delivered[c]
  PROVE  Phase(c)' = Phase(c) /\ Received(c)' = Received(c)
BY DEF Phase, Received

LEMMA InitRefines == Init => Sync!Init
BY DEF Init, Sync!Init, Phase

LEMMA ProxyLifeRefines ==
  ASSUME IInv, NEW p \in Proxy, ProxyLife(p)
  PROVE  [Sync!Next]_(Sync!svars)
<1>0. \A c \in Call : Phase(c)' = Phase(c) /\ Received(c)' = Received(c)
  BY SamePhase DEF ProxyLife, Implement, ImplementThrows, Drop, Collect, Clean, callVars
<1>1. UNCHANGED <<target, answer>>
  BY DEF ProxyLife, Implement, ImplementThrows, Drop, Collect, Clean, callVars
<1>2. CASE Implement(p)
  <2>1. Sync!Open(p)
    BY <1>0, <1>1, <1>2 DEF Implement, Sync!Open, Received
  <2>2. QED
    BY <2>1 DEF Sync!Next
<1>3. CASE ~ Implement(p)
  BY <1>0, <1>1, <1>3, Stutters DEF ProxyLife, ImplementThrows, Drop, Collect, Clean
<1>4. QED
  BY <1>2, <1>3

LEMMA ExitRefines ==
  ASSUME IInv, NEW s \in Isolate, Exit(s)
  PROVE  [Sync!Next]_(Sync!svars)
<1>0. \A c \in Call : Phase(c)' = Phase(c) /\ Received(c)' = Received(c)
  BY SamePhase DEF Exit, callVars
<1>1. Sync!Exit(s)
  BY <1>0 DEF Exit, callVars, Sync!Exit, Received
<1>2. QED
  BY <1>1 DEF Sync!Next

LEMMA InvokeRefines ==
  ASSUME IInv, NEW t \in Thread, NEW p \in Proxy, NEW c \in Call, Invoke(t, p, c)
  PROVE  [Sync!Next]_(Sync!svars)
<1>1. Enter(t, p, c) /\ UNCHANGED <<impls, answer, delivered>>
  BY DEF Invoke, InvokeRemote, InvokeDirect, proxyVars
<1>2. pc[c] = "free" /\ target' = [target EXCEPT ![c] = p]
  BY <1>1 DEF Enter
<1>3. pc'[c] \notin {"free", "done"} /\ dart'[c] \in {"none", "running"}
  BY <1>2 DEF Invoke, InvokeRemote, InvokeDirect, IInv, TypeOK, FreshInv
<1>4. \A d \in Call \ {c} : Phase(d)' = Phase(d) /\ Received(d)' = Received(d)
  BY <1>1, SamePhase DEF Invoke, InvokeRemote, InvokeDirect, IInv, TypeOK
<1>5. Phase(c) = "idle" /\ Phase(c)' = "requested" /\ Received(c)' = Received(c)
  BY <1>2, <1>3 DEF Phase, Received
<1>6. [d \in Call |-> Phase(d)]' = [[d \in Call |-> Phase(d)] EXCEPT ![c] = "requested"]
  BY <1>4, <1>5
<1>7. [d \in Call |-> Received(d)]' = [d \in Call |-> Received(d)]
  BY <1>4, <1>5
<1>8. Sync!Request(c, p)
  BY <1>1, <1>2, <1>5, <1>6, <1>7 DEF Sync!Request, Received
<1>9. QED
  BY <1>8 DEF Sync!Next

LEMMA CallerRefines ==
  ASSUME IInv, NEW c \in Call, CallerStepOf(c) \/ SpuriousWakeup(c)
  PROVE  [Sync!Next]_(Sync!svars)
<1>1. UNCHANGED <<impls, target, answer, dart>>
  BY DEF CallerStepOf, Post, Sleep, Reacquire, Leave, Box, CleanUp, SpuriousWakeup,
         proxyVars
<1>2. \A d \in Call \ {c} : Phase(d)' = Phase(d) /\ Received(d)' = Received(d)
  BY <1>1, SamePhase
     DEF CallerStepOf, Post, Sleep, Reacquire, Leave, Box, CleanUp, SpuriousWakeup,
         IInv, TypeOK
<1>3. CASE CleanUp(c)
  <2>1. dart[c] = "finished" /\ pc[c] = "boxed" /\ delivered[c] = answer[c]
    BY <1>3 DEF CleanUp, IInv, RendezvousInv, AnswerInv
  <2>2. pc'[c] = "done" /\ delivered'[c] = delivered[c]
    BY <1>3 DEF CleanUp, IInv, TypeOK
  <2>3. Phase(c) = "executed" /\ Phase(c)' = "returned" /\ Received(c)' = answer[c]
    BY <1>1, <2>1, <2>2 DEF Phase, Received
  <2>4. [d \in Call |-> Phase(d)]' = [[d \in Call |-> Phase(d)] EXCEPT ![c] = "returned"]
    BY <1>2, <2>3
  <2>5. [d \in Call |-> Received(d)]'
          = [[d \in Call |-> Received(d)] EXCEPT ![c] = answer[c]]
    BY <1>2, <2>3
  <2>6. Sync!Return(c)
    BY <1>1, <2>3, <2>4, <2>5 DEF Sync!Return, Received
  <2>7. QED
    BY <2>6 DEF Sync!Next
<1>4. CASE ~ CleanUp(c)
  <2>1. /\ pc[c] \notin {"free", "done"} /\ pc'[c] \notin {"free", "done"}
    BY <1>4 DEF CallerStepOf, Post, Sleep, Reacquire, Leave, Box, SpuriousWakeup,
                IInv, TypeOK
  <2>2. Phase(c)' = Phase(c) /\ Received(c)' = Received(c)
    BY <1>1, <2>1 DEF Phase, Received
  <2>3. QED
    BY <1>1, <1>2, <2>2, Stutters
<1>5. QED
  BY <1>3, <1>4

LEMMA ReceiveRefines ==
  ASSUME IInv, NEW s \in Isolate, Receive(s)
  PROVE  [Sync!Next]_(Sync!svars)
<1>1. Head(queue[s]) \in Event /\ Head(queue[s]) = queue[s][1] /\ 1 \in 1..Len(queue[s])
  BY DEF Receive, ReceiveClose, ReceiveCall, IInv, TypeOK
<1>2. UNCHANGED <<target, answer, pc, delivered>>
  BY DEF Receive, ReceiveClose, ReceiveCall, callVars
<1>3. CASE ReceiveClose(s)
  <2> DEFINE p == Head(queue[s]).proxy
  <2>1. p \in Proxy /\ reach[p] = "cleaned"
    BY <1>1, <1>3 DEF ReceiveClose, IInv, QueueInv, Event
  <2>2. \A c \in Call : target[c] = p => ~ InNative(c)
    BY <2>1 DEF IInv, ProxyInv
  <2>3. \A c \in Call : pc[c] \in {"boxed", "done"} => dart[c] = "finished"
    BY DEF IInv, RendezvousInv
  <2>4. \A c \in Call : target[c] = p => Phase(c) # "requested"
    BY <2>2, <2>3 DEF Phase, InNative, IInv, TypeOK, CallerStep
  <2>5. \A c \in Call : Phase(c)' = Phase(c) /\ Received(c)' = Received(c)
    BY <1>2, <1>3, SamePhase DEF ReceiveClose, callVars
  <2>6. Sync!Close(p)
    BY <1>2, <1>3, <2>4, <2>5 DEF ReceiveClose, Sync!Close, Received
  <2>7. QED
    BY <2>1, <2>6 DEF Sync!Next
<1>4. CASE ReceiveCall(s)
  <2>1. /\ Head(queue[s]).call \in Call /\ dart[Head(queue[s]).call] = "none"
        /\ \/ dart' = dart
           \/ dart' = [dart EXCEPT ![Head(queue[s]).call] = "running"]
    BY <1>1, <1>4 DEF ReceiveCall, IInv, QueueInv, Event
  <2>2. PICK c \in Call :
          dart[c] = "none" /\ (dart' = dart \/ dart' = [dart EXCEPT ![c] = "running"])
    BY <2>1
  <2>3. \A d \in Call \ {c} : Phase(d)' = Phase(d) /\ Received(d)' = Received(d)
    BY <1>2, <2>2, SamePhase DEF IInv, TypeOK
  <2>4. Phase(c)' = Phase(c) /\ Received(c)' = Received(c)
    <3>1. dart'[c] \in {"none", "running"}
      BY <2>2 DEF IInv, TypeOK
    <3>2. QED
      BY <1>2, <2>2, <3>1 DEF Phase, Received
  <2>5. UNCHANGED impls
    BY <1>4 DEF ReceiveCall
  <2>6. QED
    BY <1>2, <2>3, <2>4, <2>5, Stutters
<1>5. QED
  BY <1>3, <1>4 DEF Receive

LEMMA RunMethodRefines ==
  ASSUME IInv, NEW s \in Isolate, NEW c \in Call, NEW a \in Answer, RunMethod(s, c, a)
  PROVE  [Sync!Next]_(Sync!svars)
<1>1. UNCHANGED <<impls, target, delivered>> /\ answer' = [answer EXCEPT ![c] = a]
  BY DEF RunMethod, proxyVars
<1>2. \A d \in Call \ {c} : Phase(d)' = Phase(d) /\ Received(d)' = Received(d)
  <2>1. \A d \in Call \ {c} : pc'[d] = pc[d] /\ dart'[d] = dart[d]
    BY SMTT(30) DEF RunMethod, IInv, TypeOK
  <2>2. QED
    BY <1>1, <2>1, SamePhase
<1>3. dart[c] = "running" /\ InNative(c)
  BY ZenonT(60) DEF RunMethod, IInv, FreshInv, RendezvousInv, InNative, TypeOK, CallerStep
<1>4. target[c] \in Proxy /\ target[c] \in impls
  <2>1. target[c] \in Proxy /\ reach[target[c]] \in {"held", "dropped"}
    BY <1>3 DEF IInv, RendezvousInv, ProxyInv, InNative
  <2>2. Owner[target[c]] \in alive
    BY DEF RunMethod
  <2>3. QED
    BY <2>1, <2>2 DEF IInv, ProxyInv
<1>5. dart'[c] \in {"finished", "answered"} /\ pc'[c] \notin {"free", "done"}
  BY <1>3, SMTT(30) DEF RunMethod, InNative, IInv, TypeOK
<1>6. Phase(c) = "requested" /\ Phase(c)' = "executed" /\ Received(c)' = Received(c)
  BY <1>1, <1>3, <1>5 DEF Phase, Received, InNative
<1>7. [d \in Call |-> Phase(d)]' = [[d \in Call |-> Phase(d)] EXCEPT ![c] = "executed"]
  BY <1>2, <1>6
<1>8. [d \in Call |-> Received(d)]' = [d \in Call |-> Received(d)]
  BY <1>2, <1>6
<1>9. Sync!Execute(c, a)
  BY <1>1, <1>4, <1>6, <1>7, <1>8 DEF Sync!Execute, Received
<1>10. QED
  BY <1>9 DEF Sync!Next

LEMMA ResultRefines ==
  ASSUME IInv, NEW c \in Call, ResultFor(c) \/ FinalizeArgs(c) \/ ReleaseOriginal(c)
  PROVE  [Sync!Next]_(Sync!svars)
<1>1. UNCHANGED <<impls, target, answer, delivered>>
  BY DEF ResultFor, ResultAcquire, ResultStore, ResultSignal, ResultRelease,
         FinalizeArgs, ReleaseOriginal, proxyVars
<1>2. \A d \in Call \ {c} : Phase(d)' = Phase(d) /\ Received(d)' = Received(d)
  <2>1. \A d \in Call \ {c} : pc'[d] = pc[d] /\ dart'[d] = dart[d]
    BY DEF ResultFor, ResultAcquire, ResultStore, ResultSignal, ResultRelease,
           FinalizeArgs, ReleaseOriginal, IInv, TypeOK
  <2>2. QED
    BY <1>1, <2>1, SamePhase
<1>3. Phase(c)' = Phase(c) /\ Received(c)' = Received(c)
  <2>1. CASE FinalizeArgs(c) \/ ReleaseOriginal(c)
    BY <2>1, SamePhase DEF FinalizeArgs, ReleaseOriginal
  <2>2. CASE ResultFor(c)
    <3>1. dart[c] \notin {"none", "running"} /\ dart'[c] \notin {"none", "running"}
      BY <2>2 DEF ResultFor, ResultAcquire, ResultStore, ResultSignal, ResultRelease,
                  IInv, TypeOK
    <3>2. (pc'[c] = "free" <=> pc[c] = "free") /\ (pc'[c] = "done" <=> pc[c] = "done")
      BY <2>2 DEF ResultFor, ResultAcquire, ResultStore, ResultSignal, ResultRelease,
                  IInv, TypeOK
    <3>3. pc[c] # "free" /\ pc'[c] # "free"
      BY <3>1, <3>2 DEF IInv, FreshInv
    <3>4. CASE pc[c] = "done"
      <4>1. pc'[c] = "done"
        BY <3>2, <3>4
      <4>2. QED
        BY <1>1, <3>4, <4>1 DEF Phase, Received
    <3>5. CASE pc[c] # "done"
      <4>1. pc'[c] # "done"
        BY <3>2, <3>5
      <4>2. Phase(c) = "executed" /\ Phase(c)' = "executed"
        BY <3>1, <3>3, <3>5, <4>1 DEF Phase
      <4>3. Received(c) = None /\ Received(c)' = None
        BY <3>5, <4>1 DEF Received
      <4>4. QED
        BY <4>2, <4>3
    <3>6. QED
      BY <3>4, <3>5
  <2>3. QED
    BY <2>1, <2>2
<1>4. \A d \in Call : Phase(d)' = Phase(d) /\ Received(d)' = Received(d)
  BY <1>2, <1>3
<1>5. QED
  BY <1>1, <1>4, Stutters

LEMMA StepRefines == IInv /\ [Next]_vars => [Sync!Next]_(Sync!svars)
<1> SUFFICES ASSUME IInv, [Next]_vars PROVE [Sync!Next]_(Sync!svars)
  OBVIOUS
<1>1. CASE UNCHANGED vars
  BY <1>1, SamePhase, Stutters DEF vars, proxyVars, callVars
<1>2. QED
  BY <1>1, ProxyLifeRefines, ExitRefines, InvokeRefines, CallerRefines, ReceiveRefines,
     RunMethodRefines, ResultRefines DEF Next

(***************************************************************************)
(* The machinery implements a synchronous call: the method of a registered *)
(* implementation runs exactly once for each call, and the caller gets     *)
(* what that run yielded.                                                  *)
(***************************************************************************)
THEOREM Refinement == Spec => RefinesSyncCall
<1>1. QED
  BY InitRefines, StepRefines, CallbackInvariant, PTL DEF Spec, RefinesSyncCall, Sync!Spec
=============================================================================
