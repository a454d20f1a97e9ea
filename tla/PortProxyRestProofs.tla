-------------------------- MODULE PortProxyRestProofs --------------------------
(***************************************************************************)
(* Proof that PortProxy forgets no call and no port, for every set of      *)
(* isolates, threads, proxies and calls.                                   *)
(***************************************************************************)
EXTENDS PortProxyProofs

USE ConstantsAssumption

OnStack(t, c) == \E k \in 1..Len(stack[t]) : stack[t][k] = c

-----------------------------------------------------------------------------
(* Stacks *)

(* What a step must keep of the frames that it does not push or pop. *)
RunsKept ==
  \A t \in Thread, c \in Call : RunsMethod(t, c) => RunsMethod(t, c)' \/ InCall(t, c)

FramesKept(t, c) ==
  \A u \in Thread, d \in Call : u # t \/ d # c => (Frame(u, d)' <=> Frame(u, d))

(* The innermost frame is not below another. *)
LEMMA BelowTop ==
  ASSUME TypeOK, NEW t \in Thread, StackInv(t), NEW k \in 1..Len(stack[t]) - 1
  PROVE  ~ InCall(t, stack[t][k]) /\ stack[t][k] \in Call
<1>1. stack[t] \in Seq(Call)
  BY DEF TypeOK
<1>2. k \in 1..Len(stack[t]) /\ Len(stack[t]) \in 1..Len(stack[t]) /\ k # Len(stack[t])
  BY <1>1
<1>3. stack[t][k] # stack[t][Len(stack[t])]
  BY <1>2 DEF StackInv
<1>4. QED
  BY <1>1, <1>2, <1>3 DEF InCall, Top

LEMMA RunsBelow ==
  ASSUME TypeOK, RunsKept, NEW t \in Thread, StackInv(t), NEW k \in 1..Len(stack[t]) - 1
  PROVE  dart'[stack[t][k]] = "running" /\ Owner[target'[stack[t][k]]] = t
<1>1. PICK c \in Call : c = stack[t][k] /\ ~ InCall(t, c)
  BY BelowTop
<1>2. RunsMethod(t, c)
  BY <1>1 DEF StackInv
<1>3. RunsMethod(t, c)'
  BY <1>1, <1>2 DEF RunsKept
<1>4. QED
  BY <1>1, <1>3 DEF RunsMethod

(* A step that neither pushes nor pops. *)
LEMMA StackKept ==
  ASSUME TypeOK, RunsKept, NEW t \in Thread, StackInv(t), stack'[t] = stack[t],
         \A d \in Call : Frame(t, d)' <=> Frame(t, d)
  PROVE  StackInv(t)'
<1>1. \A c \in Call : Frame(t, c)' <=> \E k \in 1..Len(stack'[t]) : stack'[t][k] = c
  BY DEF StackInv
<1>2. ASSUME NEW k \in 1..Len(stack'[t]) - 1
      PROVE  dart'[stack'[t][k]] = "running" /\ Owner[target'[stack'[t][k]]] = t
  BY <1>2, RunsBelow
<1>3. \A j, k \in 1..Len(stack'[t]) : stack'[t][j] = stack'[t][k] => j = k
  BY DEF StackInv
<1>4. QED
  BY <1>1, <1>2, <1>3 DEF StackInv, RunsMethod

(* Making a call, or taking one from the queue, in Dart code or in no call at all. *)
LEMMA StackPush ==
  ASSUME TypeOK, RunsKept, NEW t \in Thread, NEW c \in Call, Push(t, c), FramesKept(t, c),
         ~ Frame(t, c), Frame(t, c)',
         stack[t] = <<>> \/ \E e \in Call : InCall(t, e) /\ RunsMethod(t, e)',
         NEW u \in Thread, StackInv(u)
  PROVE  StackInv(u)'
<1>1. CASE u # t
  BY <1>1, StackKept DEF Push, TypeOK, FramesKept
<1>2. CASE u = t
  <2> DEFINE n == Len(stack[t])
  <2>1. stack[t] \in Seq(Call) /\ n \in Nat
    BY DEF TypeOK
  <2>2. stack'[t] = Append(stack[t], c)
    BY DEF Push, TypeOK
  <2>3. /\ Len(stack'[t]) = n + 1 /\ stack'[t][n + 1] = c
        /\ \A k \in 1..n : stack'[t][k] = stack[t][k]
    BY <2>1, <2>2
  <2>4. \A k \in 1..n : stack[t][k] # c
    BY <1>2 DEF StackInv
  <2>5. ASSUME NEW d \in Call
        PROVE  Frame(t, d)' <=> \E k \in 1..Len(stack'[t]) : stack'[t][k] = d
    <3>1. CASE d = c
      <4>1. n + 1 \in 1..Len(stack'[t])
        BY <2>1, <2>3
      <4>2. QED
        BY <2>3, <3>1, <4>1
    <3>2. CASE d # c
      <4>1. Frame(t, d)' <=> \E k \in 1..n : stack[t][k] = d
        BY <1>2, <3>2 DEF FramesKept, StackInv
      <4>2. (\E k \in 1..n : stack[t][k] = d)
              <=> \E k \in 1..Len(stack'[t]) : stack'[t][k] = d
        <5>1. \A k \in 1..n : k \in 1..Len(stack'[t]) /\ stack'[t][k] = stack[t][k]
          BY <2>1, <2>3
        <5>2. \A k \in 1..Len(stack'[t]) : stack'[t][k] = d => k \in 1..n
          BY <2>1, <2>3, <3>2
        <5>3. QED
          BY <5>1, <5>2
      <4>3. QED
        BY <4>1, <4>2
    <3>3. QED
      BY <3>1, <3>2
  <2>6. ASSUME NEW k \in 1..Len(stack'[t]) - 1
        PROVE  dart'[stack'[t][k]] = "running" /\ Owner[target'[stack'[t][k]]] = t
    <3>1. k \in 1..n /\ stack'[t][k] = stack[t][k]
      BY <2>1, <2>3
    <3>2. CASE k = n
      BY <2>1, <3>1, <3>2 DEF InCall, Top, RunsMethod
    <3>3. CASE k # n
      <4>1. k \in 1..Len(stack[t]) - 1
        BY <2>1, <3>1, <3>3
      <4>2. QED
        BY <1>2, <3>1, <4>1, RunsBelow
    <3>4. QED
      BY <3>2, <3>3
  <2>7. \A j, k \in 1..Len(stack'[t]) : stack'[t][j] = stack'[t][k] => j = k
    <3>1. \A j, k \in 1..n : stack[t][j] = stack[t][k] => j = k
      BY <1>2 DEF StackInv
    <3>2. \A k \in 1..Len(stack'[t]) :
            k = n + 1 \/ (k \in 1..n /\ stack'[t][k] # c /\ stack'[t][k] = stack[t][k])
      BY <2>1, <2>3, <2>4
    <3>3. QED
      BY <2>3, <3>1, <3>2
  <2>8. QED
    BY <1>2, <2>5, <2>6, <2>7 DEF StackInv, RunsMethod
<1>3. QED
  BY <1>1, <1>2

(* Leaving a call: its frame is the innermost, since it runs no method. *)
LEMMA StackPop ==
  ASSUME TypeOK, RunsKept, NEW t \in Thread, NEW c \in Call, Pop(t), FramesKept(t, c),
         Frame(t, c), ~ RunsMethod(t, c), ~ Frame(t, c)',
         StackInv(t), NEW u \in Thread, StackInv(u)
  PROVE  StackInv(u)'
<1>1. CASE u # t
  BY <1>1, StackKept DEF Pop, TypeOK, FramesKept
<1>2. CASE u = t
  <2> DEFINE n == Len(stack[t])
  <2>1. stack[t] \in Seq(Call) /\ n \in Nat
    BY DEF TypeOK
  <2>2. PICK i \in 1..n : stack[t][i] = c
    BY DEF StackInv
  <2>3. i = n
    BY <2>1, <2>2 DEF StackInv
  <2>4. stack'[t] = SubSeq(stack[t], 1, n - 1)
    BY DEF Pop, TypeOK
  <2>5. Len(stack'[t]) = n - 1 /\ \A k \in 1..n - 1 : stack'[t][k] = stack[t][k]
    BY <2>1, <2>2, <2>4
  <2>6. \A j, k \in 1..n : stack[t][j] = stack[t][k] => j = k
    BY DEF StackInv
  <2>7. \A k \in 1..n - 1 : stack[t][k] # c
    BY <2>1, <2>2, <2>3, <2>6
  <2>8. ASSUME NEW d \in Call
        PROVE  Frame(t, d)' <=> \E k \in 1..Len(stack'[t]) : stack'[t][k] = d
    <3>1. CASE d = c
      BY <2>5, <2>7, <3>1
    <3>2. CASE d # c
      <4>1. Frame(t, d)' <=> \E k \in 1..n : stack[t][k] = d
        BY <3>2 DEF FramesKept, StackInv
      <4>2. (\E k \in 1..n : stack[t][k] = d)
              <=> \E k \in 1..Len(stack'[t]) : stack'[t][k] = d
        BY <2>1, <2>2, <2>3, <2>5, <3>2
      <4>3. QED
        BY <4>1, <4>2
    <3>3. QED
      BY <3>1, <3>2
  <2>9. ASSUME NEW k \in 1..Len(stack'[t]) - 1
        PROVE  dart'[stack'[t][k]] = "running" /\ Owner[target'[stack'[t][k]]] = t
    <3>1. k \in 1..n - 1 /\ stack'[t][k] = stack[t][k]
      BY <2>1, <2>5
    <3>2. QED
      BY <3>1, RunsBelow
  <2>10. \A j, k \in 1..Len(stack'[t]) : stack'[t][j] = stack'[t][k] => j = k
    BY <2>1, <2>5, <2>6
  <2>11. QED
    BY <1>2, <2>8, <2>9, <2>10 DEF StackInv, RunsMethod
<1>3. QED
  BY <1>1, <1>2

-----------------------------------------------------------------------------
(* The frames that each step pushes and pops *)

StacksInv == \A t \in Thread : StackInv(t)

Serving == {"running", "answered", "entered", "stored", "signalled"}

LEMMA SameFrame ==
  ASSUME NEW c \in Call, caller'[c] = caller[c], target'[c] = target[c],
         pc'[c] \notin {"free", "done"} <=> pc[c] \notin {"free", "done"},
         dart'[c] \in Serving <=> dart[c] \in Serving
  PROVE  \A t \in Thread : Frame(t, c)' <=> Frame(t, c)
BY DEF Frame, Remote, Serving

(* Steps that leave the stacks and the frames alone. *)
LEMMA NoFrames ==
  ASSUME IInv, StacksInv, UNCHANGED stack, RunsKept,
         \A c \in Call : \A t \in Thread : Frame(t, c)' <=> Frame(t, c)
  PROVE  StacksInv'
<1>1. TypeOK
  BY DEF IInv
<1>2. QED
  BY <1>1, StackKept DEF StacksInv

LEMMA NoCalls ==
  ASSUME IInv, StacksInv, UNCHANGED <<stack, caller, target, pc, dart>>
  PROVE  StacksInv'
<1>1. RunsKept
  BY DEF RunsKept, RunsMethod
<1>2. \A c \in Call : \A t \in Thread : Frame(t, c)' <=> Frame(t, c)
  BY SameFrame
<1>3. QED
  BY <1>1, <1>2, NoFrames

(* A thread pushes the frame of a call that it makes in Dart code, or in no call. *)
LEMMA InvokeStack ==
  ASSUME IInv, StacksInv, NEW t \in Thread, NEW p \in Proxy, NEW c \in Call,
         Invoke(t, p, c)
  PROVE  StacksInv'
<1>0. TypeOK /\ FreshInv(c)
  BY DEF IInv
<1>1. Enter(t, p, c) /\ pc'[c] \in {"locked", "direct"}
  BY <1>0 DEF Invoke, InvokeRemote, InvokeDirect, TypeOK
<1>a. None \notin Thread
  BY DEF Thread
<1>2. pc[c] = "free" /\ caller[c] = None /\ dart[c] = "none" /\ Push(t, c)
  BY <1>0, <1>1 DEF Enter, FreshInv
<1>3. caller'[c] = t /\ target'[c] = p
  BY <1>0, <1>1 DEF Enter, TypeOK
<1>4. \/ t = Owner[p] /\ dart'[c] = "running"
      \/ dart'[c] = "none"
  BY <1>0, <1>2 DEF Invoke, InvokeRemote, InvokeDirect, TypeOK
<1>5. \A d \in Call \ {c} : /\ caller'[d] = caller[d] /\ target'[d] = target[d]
                            /\ pc'[d] = pc[d] /\ dart'[d] = dart[d]
  BY <1>0, <1>1 DEF Invoke, InvokeRemote, InvokeDirect, Enter, TypeOK
<1>6. RunsKept
  BY <1>2, <1>5 DEF RunsKept, RunsMethod
<1>7. FramesKept(t, c)
  <2>1. \A u \in Thread : ~ Frame(u, c)
    BY <1>a, <1>2 DEF Frame
  <2>2. \A u \in Thread : u # t => ~ Frame(u, c)'
    BY <1>1, <1>3, <1>4 DEF Frame, Remote
  <2>3. \A d \in Call \ {c} : \A u \in Thread : Frame(u, d)' <=> Frame(u, d)
    BY <1>5, SameFrame
  <2>4. QED
    BY <2>1, <2>2, <2>3 DEF FramesKept
<1>8. ~ Frame(t, c) /\ Frame(t, c)'
  BY <1>a, <1>1, <1>2, <1>3 DEF Frame
<1>9. stack[t] = <<>> \/ \E e \in Call : InCall(t, e) /\ RunsMethod(t, e)'
  <2>1. CASE stack[t] # <<>>
    <3>1. PICK e \in Call : InCall(t, e) /\ Owner[target[e]] = t /\ dart[e] = "running"
      BY <1>1, <2>1 DEF Enter, CanCall, RunsDart
    <3>2. e # c
      BY <1>2, <3>1
    <3>3. QED
      BY <1>5, <3>1, <3>2 DEF RunsMethod
  <2>2. QED
    BY <2>1
<1>10. QED
  BY <1>0, <1>2, <1>6, <1>7, <1>8, <1>9, StackPush DEF StacksInv

(* The caller's frame stays until _cleanUp, where it is the innermost of its thread. *)
LEMMA CallerStack ==
  ASSUME IInv, StacksInv, NEW c \in Call, CallerStepOf(c) \/ SpuriousWakeup(c)
  PROVE  StacksInv'
<1>0. TypeOK /\ FreshInv(c) /\ RendezvousInv(c)
  BY DEF IInv
<1>1. UNCHANGED <<caller, target, dart>> /\ \A d \in Call \ {c} : pc'[d] = pc[d]
  BY <1>0 DEF CallerStepOf, Post, Sleep, Reacquire, Leave, Box, CleanUp, SpuriousWakeup,
              proxyVars, TypeOK
<1>2. RunsKept
  BY <1>1 DEF RunsKept, RunsMethod
<1>3. \A d \in Call \ {c} : \A u \in Thread : Frame(u, d)' <=> Frame(u, d)
  BY <1>1, SameFrame
<1>4. CASE ~ CleanUp(c)
  <2>1. pc'[c] \notin {"free", "done"} /\ pc[c] \notin {"free", "done"} /\ UNCHANGED stack
    BY <1>0, <1>4 DEF CallerStepOf, Post, Sleep, Reacquire, Leave, Box, SpuriousWakeup, TypeOK
  <2>2. \A u \in Thread : Frame(u, c)' <=> Frame(u, c)
    BY <1>1, <2>1, SameFrame
  <2>3. QED
    BY <1>2, <1>3, <2>1, <2>2, NoFrames
<1>5. CASE CleanUp(c)
  <2> DEFINE t == caller[c]
  <2>1. pc[c] = "boxed" /\ pc'[c] = "done" /\ Pop(t)
    BY <1>0, <1>5 DEF CleanUp, TypeOK
  <2>2. t \in Thread /\ dart[c] = "finished"
    BY <1>0, <2>1 DEF RendezvousInv
  <2>3. Frame(t, c) /\ ~ RunsMethod(t, c)
    BY <2>1, <2>2 DEF Frame, RunsMethod
  <2>4. \A u \in Thread : ~ Frame(u, c)'
    BY <1>1, <2>1, <2>2 DEF Frame
  <2>5. \A u \in Thread : Frame(u, c) => u = t
    BY <2>2 DEF Frame
  <2>6. PICK u \in Thread : u = t
    BY <2>2
  <2>7. FramesKept(u, c) /\ ~ Frame(u, c)' /\ Frame(u, c) /\ ~ RunsMethod(u, c) /\ Pop(u)
    BY <1>3, <2>1, <2>3, <2>4, <2>5, <2>6 DEF FramesKept
  <2>8. QED
    BY <1>0, <1>2, <2>7, StackPop DEF StacksInv
<1>6. QED
  BY <1>4, <1>5

(* The event loop of an isolate pushes the frame of the call it takes. *)
LEMMA ReceiveStack ==
  ASSUME IInv, StacksInv, NEW s \in Isolate, Receive(s)
  PROVE  StacksInv'
<1>1. CASE ReceiveClose(s)
  BY <1>1, NoCalls DEF ReceiveClose, callVars
<1>2. CASE ReceiveCall(s)
  <2>0. TypeOK
    BY DEF IInv
  <2>1. /\ s \in alive /\ stack[s] = <<>> /\ queue[s] # <<>> /\ Head(queue[s]).call # None
        /\ Head(queue[s]) \in Event /\ Head(queue[s]) = queue[s][1] /\ 1 \in 1..Len(queue[s])
    BY <1>2, <2>0 DEF ReceiveCall, TypeOK
  <2>2. PICK c \in Call, p \in Proxy :
          /\ c = Head(queue[s]).call /\ p = Head(queue[s]).proxy
          /\ Owner[p] = s /\ target[c] = p /\ dart[c] = "none"
          /\ pc[c] \in {"checking", "asleep", "waking"}
    BY <2>1 DEF IInv, QueueInv, Event
  <2>3. port[p] = "open"
    BY <2>1, <2>2 DEF IInv, ProxyInv, InNative
  <2>4. Push(s, c) /\ dart' = [dart EXCEPT ![c] = "running"] /\ UNCHANGED <<caller, target, pc>>
    BY <1>2, <2>2, <2>3 DEF ReceiveCall
  <2>5. \A d \in Call \ {c} : dart'[d] = dart[d]
    BY <2>0, <2>4 DEF TypeOK
  <2>6. dart'[c] = "running" /\ Remote(c) /\ s \in Thread
    BY <2>0, <2>2, <2>4 DEF TypeOK, IInv, RendezvousInv, Thread
  <2>7. RunsKept
    BY <2>2, <2>4, <2>5 DEF RunsKept, RunsMethod
  <2>8. FramesKept(s, c)
    <3>1. \A d \in Call \ {c} : \A u \in Thread : Frame(u, d)' <=> Frame(u, d)
      BY <2>4, <2>5, SameFrame
    <3>2. \A u \in Thread : u # s => (Frame(u, c)' <=> Frame(u, c))
      BY <2>2, <2>4 DEF Frame, Remote
    <3>3. QED
      BY <3>1, <3>2 DEF FramesKept
  <2>9. ~ Frame(s, c) /\ Frame(s, c)'
    BY <2>2, <2>4, <2>6 DEF Frame, Remote
  <2>10. QED
    BY <2>0, <2>1, <2>4, <2>6, <2>7, <2>8, <2>9, StackPush DEF StacksInv
<1>3. QED
  BY <1>1, <1>2 DEF Receive

(* The method that has returned was that of the innermost frame, which stays. *)
LEMMA RunMethodStack ==
  ASSUME IInv, StacksInv, NEW s \in Isolate, NEW c \in Call, NEW a \in Answer,
         RunMethod(s, c, a)
  PROVE  StacksInv'
<1>0. TypeOK /\ FreshInv(c) /\ RendezvousInv(c)
  BY DEF IInv
<1>1. /\ InCall(s, c) /\ Owner[target[c]] = s /\ dart[c] = "running"
      /\ UNCHANGED <<stack, caller, target>>
  BY DEF RunMethod
<1>2. pc[c] # "free" /\ pc[c] # "done" /\ (pc[c] = "direct" <=> ~ Remote(c))
  BY <1>0, <1>1 DEF FreshInv, RendezvousInv
<1>3. \/ pc[c] = "direct" /\ pc'[c] = "left" /\ dart'[c] = "finished"
      \/ pc[c] # "direct" /\ pc'[c] = pc[c] /\ dart'[c] = "answered"
  BY <1>0 DEF RunMethod, TypeOK
<1>4. \A d \in Call \ {c} : pc'[d] = pc[d] /\ dart'[d] = dart[d]
  BY <1>0 DEF RunMethod, TypeOK
<1>5. RunsKept
  BY <1>1, <1>4 DEF RunsKept, RunsMethod
<1>6. \A u \in Thread : Frame(u, c)' <=> Frame(u, c)
  BY <1>1, <1>2, <1>3 DEF Frame, Remote
<1>7. \A d \in Call : \A u \in Thread : Frame(u, d)' <=> Frame(u, d)
  BY <1>1, <1>4, <1>6, SameFrame
<1>8. QED
  BY <1>1, <1>5, <1>7, NoFrames

(* A call that has been answered, and is not finished, came through the port. *)
LEMMA AnsweredRemote ==
  ASSUME IInv, NEW c \in Call, dart[c] \in {"answered", "entered", "stored", "signalled"}
  PROVE  Remote(c) /\ Owner[target[c]] \in Isolate /\ pc[c] \in {"checking", "asleep", "waking"}
<1>1. pc[c] \in CallerStep /\ pc[c] # "free" /\ target[c] \in Proxy
  BY DEF IInv, FreshInv, RendezvousInv, TypeOK
<1>2. pc[c] \in {"checking", "asleep", "waking"}
  BY <1>1 DEF IInv, RendezvousInv, CallerStep
<1>3. Remote(c)
  BY <1>2 DEF IInv, RendezvousInv
<1>4. Owner[target[c]] \in Isolate
  BY <1>1
<1>5. QED
  BY <1>2, <1>3, <1>4

(* resultFor runs in the innermost frame of the isolate and pops it at its end. *)
LEMMA ResultStack ==
  ASSUME IInv, StacksInv, NEW c \in Call,
         ResultFor(c) \/ FinalizeArgs(c) \/ ReleaseOriginal(c)
  PROVE  StacksInv'
<1>0. TypeOK
  BY DEF IInv
<1>1. CASE FinalizeArgs(c) \/ ReleaseOriginal(c)
  BY <1>1, NoCalls DEF FinalizeArgs, ReleaseOriginal
<1>2. ASSUME ResultFor(c)
      PROVE  /\ UNCHANGED <<caller, target>>
             /\ \A d \in Call \ {c} : pc'[d] = pc[d] /\ dart'[d] = dart[d]
             /\ dart[c] \in {"answered", "entered", "stored", "signalled"}
  BY <1>0, <1>2 DEF ResultFor, ResultAcquire, ResultStore, ResultSignal, ResultRelease, TypeOK
<1>3. ASSUME ResultFor(c) PROVE RunsKept
  BY <1>2, <1>3 DEF RunsKept, RunsMethod
<1>4. ASSUME ResultFor(c)
      PROVE  \A d \in Call \ {c} : \A u \in Thread : Frame(u, d)' <=> Frame(u, d)
  BY <1>2, <1>4, SameFrame
<1>5. CASE ResultAcquire(c) \/ ResultStore(c) \/ ResultSignal(c)
  <2>1. ResultFor(c)
    BY <1>5 DEF ResultFor
  <2>2. /\ dart[c] \in Serving /\ dart'[c] \in Serving /\ UNCHANGED stack
        /\ pc'[c] \notin {"free", "done"} <=> pc[c] \notin {"free", "done"}
    BY <1>0, <1>5 DEF ResultAcquire, ResultStore, ResultSignal, TypeOK, Serving
  <2>3. \A u \in Thread : Frame(u, c)' <=> Frame(u, c)
    BY <1>2, <2>1, <2>2, SameFrame
  <2>4. QED
    BY <1>3, <1>4, <2>1, <2>2, <2>3, NoFrames
<1>6. CASE ResultRelease(c)
  <2> DEFINE t == Owner[target[c]]
  <2>1. ResultFor(c) /\ dart[c] = "signalled" /\ dart'[c] = "finished" /\ pc' = pc /\ Pop(t)
    BY <1>0, <1>6 DEF ResultFor, ResultRelease, TypeOK
  <2>2. Remote(c) /\ t \in Isolate
    BY <2>1, AnsweredRemote
  <2>3. PICK u \in Thread : u = t
    BY <2>2 DEF Thread
  <2>4. Frame(u, c) /\ ~ RunsMethod(u, c) /\ ~ Frame(u, c)'
    BY <1>2, <2>1, <2>2, <2>3 DEF Frame, RunsMethod, Remote
  <2>5. \A v \in Thread : v # u => (Frame(v, c)' <=> Frame(v, c))
    BY <1>2, <2>1, <2>3 DEF Frame
  <2>6. FramesKept(u, c)
    BY <1>4, <2>1, <2>5 DEF FramesKept
  <2>7. RunsKept /\ Pop(u)
    BY <1>3, <2>1, <2>3
  <2>8. QED
    BY <1>0, <2>4, <2>6, <2>7, StackPop DEF StacksInv
<1>7. QED
  BY <1>1, <1>5, <1>6 DEF ResultFor

LEMMA StackNext ==
  ASSUME IInv, StacksInv, [Next]_vars
  PROVE  StacksInv'
<1>1. ASSUME NEW p \in Proxy, ProxyLife(p) PROVE StacksInv'
  BY <1>1, NoCalls DEF ProxyLife, Implement, ImplementThrows, Drop, Collect, Clean, callVars
<1>2. ASSUME NEW s \in Isolate, Exit(s) PROVE StacksInv'
  BY <1>2, NoCalls DEF Exit, callVars
<1>3. CASE UNCHANGED vars
  BY <1>3, NoCalls DEF vars, callVars
<1>4. QED
  BY <1>1, <1>2, <1>3, InvokeStack, CallerStack, ReceiveStack, RunMethodStack, ResultStack DEF Next

-----------------------------------------------------------------------------
(* Queues: what is posted is there until it is taken *)

\* No event that isolate s has in its queue goes.
Kept(s) ==
  \A k \in 1..Len(queue[s]) : \E j \in 1..Len(queue'[s]) : queue'[s][j] = queue[s][k]

PostsInv ==
  (\A c \in Call : PostedInv(c)) /\ (\A p \in Proxy : ClosedInv(p))

LEMMA PostedGrows ==
  ASSUME TypeOK, NEW p \in Proxy, NEW x \in Call \cup {None}, queue' = Posted(p, x)
  PROVE  /\ \A s \in Isolate : Kept(s)
         /\ port[p] = "open" => \E j \in 1..Len(queue'[Owner[p]]) :
                                queue'[Owner[p]][j] = [proxy |-> p, call |-> x]
<1>1. PICK t \in Isolate : t = Owner[p]
  OBVIOUS
<1>2. PICK e : e = [proxy |-> p, call |-> x]
  OBVIOUS
<1>3. e \in Event
  BY <1>2 DEF Event
<1>4. \A s \in Isolate : queue[s] \in Seq(Event)
  BY DEF TypeOK
<1>5. CASE port[p] # "open"
  BY <1>5 DEF Posted, Kept
<1>6. CASE port[p] = "open"
  <2>1. queue'[t] = Append(queue[t], e)
    BY <1>1, <1>2, <1>6 DEF Posted, TypeOK
  <2>2. \A s \in Isolate \ {t} : queue'[s] = queue[s]
    BY <1>1, <1>6 DEF Posted, TypeOK
  <2>3. /\ Len(queue'[t]) = Len(queue[t]) + 1 /\ queue'[t][Len(queue[t]) + 1] = e
        /\ \A k \in 1..Len(queue[t]) : queue'[t][k] = queue[t][k]
        /\ Len(queue[t]) \in Nat
    BY <1>3, <1>4, <2>1
  <2>4. \A s \in Isolate : Kept(s)
    <3>1. Kept(t)
      <4>1. \A k \in 1..Len(queue[t]) : k \in 1..Len(queue'[t])
        BY <2>3
      <4>2. QED
        BY <2>3, <4>1 DEF Kept
    <3>2. \A s \in Isolate \ {t} : Kept(s)
      BY <2>2 DEF Kept
    <3>3. QED
      BY <3>1, <3>2
  <2>5. Len(queue[t]) + 1 \in 1..Len(queue'[t])
    BY <2>3
  <2>6. QED
    BY <1>1, <1>2, <2>3, <2>4, <2>5
<1>7. QED
  BY <1>5, <1>6

(* A call keeps its place while events are only added. *)
LEMMA PostedStays ==
  ASSUME TypeOK, NEW c \in Call, RendezvousInv(c), PostedInv(c), target'[c] = target[c],
         \A s \in Isolate : s \in alive' => s \in alive /\ Kept(s),
         pc'[c] \in Waiting /\ dart'[c] = "none" => pc[c] \in Waiting /\ dart[c] = "none",
         dart'[c] \in {"signalled", "finished"} => pc'[c] # "asleep"
  PROVE  PostedInv(c)'
<1> SUFFICES ASSUME pc'[c] \in Waiting, dart'[c] = "none", Owner[target'[c]] \in alive'
             PROVE  \E k \in 1..Len(queue'[Owner[target'[c]]]) :
                      queue'[Owner[target'[c]]][k].call = c
  BY DEF PostedInv, Waiting
<1>1. pc[c] \in Waiting /\ dart[c] = "none"
  OBVIOUS
<1>2. PICK s \in Isolate : s = Owner[target[c]]
  BY <1>1 DEF Waiting, RendezvousInv
<1>3. s \in alive /\ Kept(s)
  BY <1>2
<1>4. PICK k \in 1..Len(queue[s]) : queue[s][k].call = c
  BY <1>1, <1>2, <1>3 DEF PostedInv, Waiting
<1>5. PICK j \in 1..Len(queue'[s]) : queue'[s][j] = queue[s][k]
  BY <1>3 DEF Kept
<1>6. QED
  BY <1>2, <1>4, <1>5

(* So does the null of a proxy. *)
LEMMA ClosedStays ==
  ASSUME NEW p \in Proxy, ClosedInv(p), port'[p] = "open" => port[p] = "open" /\ Kept(Owner[p]),
         reach'[p] = "cleaned" => reach[p] = "cleaned"
  PROVE  ClosedInv(p)'
<1> SUFFICES ASSUME reach'[p] = "cleaned", port'[p] = "open"
             PROVE  \E k \in 1..Len(queue'[Owner[p]]) :
                      queue'[Owner[p]][k] = [proxy |-> p, call |-> None]
  BY DEF ClosedInv
<1>1. PICK k \in 1..Len(queue[Owner[p]]) : queue[Owner[p]][k] = [proxy |-> p, call |-> None]
  BY DEF ClosedInv
<1>2. QED
  BY <1>1 DEF Kept

LEMMA NothingTaken ==
  ASSUME UNCHANGED queue
  PROVE  \A s \in Isolate : Kept(s)
BY DEF Kept

(* Proxies and exits. *)
LEMMA ProxyLifePosts ==
  ASSUME IInv, PostsInv, NEW p \in Proxy, ProxyLife(p)
  PROVE  PostsInv'
<1>0. TypeOK /\ \A c \in Call : RendezvousInv(c)
  BY DEF IInv
<1>1. /\ \A s \in Isolate : Kept(s)
      /\ Clean(p) /\ port[p] = "open" =>
           \E j \in 1..Len(queue'[Owner[p]]) :
             queue'[Owner[p]][j] = [proxy |-> p, call |-> None]
  <2>1. CASE Clean(p)
    BY <1>0, <2>1, PostedGrows DEF Clean
  <2>2. CASE ~ Clean(p)
    BY <2>2, NothingTaken
       DEF ProxyLife, Implement, ImplementThrows, Drop, Collect
  <2>3. QED
    BY <2>1, <2>2
<1>2. UNCHANGED <<alive, target, pc, dart>>
  BY DEF ProxyLife, Implement, ImplementThrows, Drop, Collect, Clean, callVars
<1>3. \A c \in Call : PostedInv(c)'
  <2> SUFFICES ASSUME NEW c \in Call PROVE PostedInv(c)'
    OBVIOUS
  <2>1. PostedInv(c)
    BY DEF PostsInv
  <2>2. dart[c] \in {"signalled", "finished"} => pc[c] # "asleep"
    BY <2>1 DEF PostedInv
  <2>3. QED
    BY <1>0, <1>1, <1>2, <2>1, <2>2, PostedStays
<1>4. ASSUME NEW q \in Proxy PROVE ClosedInv(q)'
  <2>1. CASE Clean(p) /\ q = p
    BY <1>1, <2>1 DEF Clean, ClosedInv
  <2>2. CASE ~ (Clean(p) /\ q = p)
    <3>1. reach'[q] = "cleaned" => reach[q] = "cleaned"
      BY <1>0, <2>2 DEF ProxyLife, Implement, ImplementThrows, Drop, Collect, Clean, TypeOK
    <3>2. CASE port'[q] = "open" /\ reach[q] = "cleaned"
      <4>1. port[q] = "open"
        BY <1>0, <3>2 DEF ProxyLife, Implement, ImplementThrows, Drop, Collect, Clean, TypeOK,
                          IInv, ProxyInv
      <4>2. Owner[q] \in Isolate
        OBVIOUS
      <4>3. QED
        BY <1>1, <3>1, <4>1, <4>2, ClosedStays DEF PostsInv
    <3>3. CASE ~ (port'[q] = "open" /\ reach[q] = "cleaned")
      BY <3>1, <3>3 DEF ClosedInv
    <3>4. QED
      BY <3>2, <3>3
  <2>3. QED
    BY <2>1, <2>2
<1>5. QED
  BY <1>3, <1>4 DEF PostsInv

LEMMA ExitPosts ==
  ASSUME IInv, PostsInv, NEW x \in Isolate, Exit(x)
  PROVE  PostsInv'
<1>0. TypeOK /\ \A c \in Call : RendezvousInv(c)
  BY DEF IInv
<1>1. \A s \in Isolate \ {x} : Kept(s)
  BY <1>0 DEF Exit, Kept, TypeOK
<1>2. UNCHANGED <<target, pc, dart, reach>> /\ alive' = alive \ {x}
  BY DEF Exit, callVars
<1>3. ASSUME NEW c \in Call PROVE PostedInv(c)'
  <2>1. PostedInv(c)
    BY DEF PostsInv
  <2>2. dart[c] \in {"signalled", "finished"} => pc[c] # "asleep"
    BY <2>1 DEF PostedInv
  <2>3. QED
    BY <1>0, <1>1, <1>2, <2>1, <2>2, PostedStays
<1>4. ASSUME NEW q \in Proxy PROVE ClosedInv(q)'
  <2>1. Owner[q] \in Isolate
    OBVIOUS
  <2>2. port'[q] = "open" => port[q] = "open" /\ Owner[q] # x
    BY DEF Exit
  <2>3. QED
    BY <1>1, <1>2, <2>1, <2>2, ClosedStays DEF PostsInv
<1>5. QED
  BY <1>3, <1>4 DEF PostsInv

(* A call that is made is not posted yet. *)
LEMMA InvokePosts ==
  ASSUME IInv, PostsInv, NEW t \in Thread, NEW p \in Proxy, NEW c \in Call,
         Invoke(t, p, c)
  PROVE  PostsInv'
<1>0. TypeOK /\ \A d \in Call : RendezvousInv(d)
  BY DEF IInv
<1>1. pc'[c] \in {"locked", "direct"}
  BY <1>0 DEF Invoke, InvokeRemote, InvokeDirect, TypeOK
<1>2. \A d \in Call \ {c} : target'[d] = target[d] /\ pc'[d] = pc[d] /\ dart'[d] = dart[d]
  BY <1>0 DEF Invoke, InvokeRemote, InvokeDirect, Enter, TypeOK
<1>3. UNCHANGED <<alive, port, reach, queue>>
  BY DEF Invoke, InvokeRemote, InvokeDirect, proxyVars
<1>4. \A s \in Isolate : Kept(s)
  BY <1>3, NothingTaken
<1>5. ASSUME NEW d \in Call PROVE PostedInv(d)'
  <2>1. CASE d = c
    BY <1>1, <2>1 DEF PostedInv
  <2>2. CASE d # c
    <3>1. PostedInv(d)
      BY DEF PostsInv
    <3>2. dart[d] \in {"signalled", "finished"} => pc[d] # "asleep"
      BY <3>1 DEF PostedInv
    <3>3. QED
      BY <1>0, <1>2, <1>3, <1>4, <2>2, <3>1, <3>2, PostedStays
  <2>3. QED
    BY <2>1, <2>2
<1>6. ASSUME NEW q \in Proxy PROVE ClosedInv(q)'
  <2>1. Owner[q] \in Isolate
    OBVIOUS
  <2>2. QED
    BY <1>3, <1>4, <2>1, ClosedStays DEF PostsInv
<1>7. QED
  BY <1>5, <1>6 DEF PostsInv

(* The caller posts the call while its port is open, and goes to sleep only when *)
(* it has not been answered, with the lock that the isolate needs to answer.     *)
LEMMA CallerPosts ==
  ASSUME IInv, PostsInv, NEW c \in Call, CallerStepOf(c) \/ SpuriousWakeup(c)
  PROVE  PostsInv'
<1>0. TypeOK /\ \A d \in Call : RendezvousInv(d)
  BY DEF IInv
<1>1. /\ UNCHANGED <<alive, port, reach, target, dart>>
      /\ \A d \in Call \ {c} : pc'[d] = pc[d]
  BY <1>0 DEF CallerStepOf, Post, Sleep, Reacquire, Leave, Box, CleanUp, SpuriousWakeup,
              proxyVars, TypeOK
<1>2. \A s \in Isolate : Kept(s)
  <2>1. CASE Post(c)
    <3>1. target[c] \in Proxy
      BY <1>0, <2>1 DEF Post, RendezvousInv
    <3>2. QED
      BY <1>0, <2>1, <3>1, PostedGrows DEF Post
  <2>2. CASE ~ Post(c)
    BY <2>2, NothingTaken
       DEF CallerStepOf, Sleep, Reacquire, Leave, Box, CleanUp, SpuriousWakeup, proxyVars
  <2>3. QED
    BY <2>1, <2>2
<1>3. ASSUME NEW d \in Call \ {c} PROVE PostedInv(d)'
  <2>1. PostedInv(d)
    BY DEF PostsInv
  <2>2. dart[d] \in {"signalled", "finished"} => pc[d] # "asleep"
    BY <2>1 DEF PostedInv
  <2>3. QED
    BY <1>0, <1>1, <1>2, <2>1, <2>2, PostedStays
<1>4. PostedInv(c)'
  <2>0. PostedInv(c)
    BY DEF PostsInv
  <2>1. CASE Post(c)
    <3>1. PICK p \in Proxy : p = target[c]
      BY <1>0, <2>1 DEF Post, RendezvousInv
    <3>2. pc[c] = "locked" /\ pc'[c] = "checking" /\ dart[c] = "none"
      BY <1>0, <2>1 DEF Post, TypeOK, RendezvousInv
    <3>3. Owner[p] \in alive => port[p] = "open"
      BY <3>1, <3>2 DEF IInv, ProxyInv, InNative
    <3>4. port[p] = "open" => \E j \in 1..Len(queue'[Owner[p]]) :
                                queue'[Owner[p]][j] = [proxy |-> p, call |-> c]
      BY <1>0, <2>1, <3>1, PostedGrows DEF Post
    <3>5. Owner[p] \in alive => \E j \in 1..Len(queue'[Owner[p]]) :
                                  queue'[Owner[p]][j].call = c
      BY <3>3, <3>4
    <3>6. QED
      BY <1>1, <3>1, <3>2, <3>5 DEF PostedInv
  <2>2. CASE Sleep(c)
    <3>1. /\ pc[c] = "checking" /\ pc'[c] = "asleep"
          /\ dart[c] \notin {"stored", "signalled", "finished"}
      BY <1>0, <2>2 DEF Sleep, TypeOK, RendezvousInv
    <3>2. QED
      BY <1>0, <1>1, <1>2, <2>0, <3>1, PostedStays DEF Waiting
  <2>3. CASE ~ Post(c) /\ ~ Sleep(c)
    <3>1. pc'[c] # "asleep" /\ (pc'[c] \in Waiting => pc[c] \in Waiting)
      BY <1>0, <2>3 DEF CallerStepOf, Reacquire, Leave, Box, CleanUp, SpuriousWakeup, TypeOK,
                        Waiting
    <3>2. QED
      BY <1>0, <1>1, <1>2, <2>0, <3>1, PostedStays
  <2>4. QED
    BY <2>1, <2>2, <2>3
<1>5. ASSUME NEW q \in Proxy PROVE ClosedInv(q)'
  <2>1. Owner[q] \in Isolate
    OBVIOUS
  <2>2. QED
    BY <1>1, <1>2, <2>1, ClosedStays DEF PostsInv
<1>6. QED
  BY <1>3, <1>4, <1>5 DEF PostsInv

(* An isolate takes the first event; a call whose port is open is not dropped. *)
LEMMA ReceivePosts ==
  ASSUME IInv, PostsInv, NEW x \in Isolate, Receive(x)
  PROVE  PostsInv'
<1>0. TypeOK /\ \A d \in Call : RendezvousInv(d)
  BY DEF IInv
<1>1. /\ UNCHANGED <<alive, reach, target, pc>> /\ x \in alive /\ queue[x] # <<>>
      /\ queue' = [queue EXCEPT ![x] = Tail(@)] /\ queue[x] \in Seq(Event)
  BY <1>0 DEF Receive, ReceiveClose, ReceiveCall, callVars, TypeOK
<1>2. PICK e : e = Head(queue[x])
  OBVIOUS
<1>3. /\ e = queue[x][1] /\ 1 \in 1..Len(queue[x]) /\ e \in Event
      /\ \A k \in 1..Len(queue[x]) :
           k # 1 => k - 1 \in 1..Len(queue'[x]) /\ queue'[x][k - 1] = queue[x][k]
  BY <1>0, <1>1, <1>2 DEF TypeOK
<1>4. \A s \in Isolate : s # x => queue'[s] = queue[s]
  BY <1>0, <1>1 DEF TypeOK
\* Every event but the first of x stays.
<1>5. ASSUME NEW s \in Isolate, NEW k \in 1..Len(queue[s]), s # x \/ queue[s][k] # e
      PROVE  \E j \in 1..Len(queue'[s]) : queue'[s][j] = queue[s][k]
  BY <1>3, <1>4, <1>5
<1>6. /\ \A d \in Call : (dart'[d] = "none" => dart[d] = "none") /\ (e.call = d => dart'[d] # "none")
      /\ \A d \in Call : dart'[d] \in {"signalled", "finished"} => dart'[d] = dart[d]
  <2>1. CASE ReceiveClose(x)
    BY <1>2, <2>1 DEF ReceiveClose, callVars
  <2>2. CASE ReceiveCall(x)
    <3>1. PICK c \in Call, p \in Proxy :
            /\ c = e.call /\ p = e.proxy
            /\ Owner[p] = x /\ target[c] = p
            /\ pc[c] \in {"checking", "asleep", "waking"}
      BY <1>2, <1>3, <2>2 DEF ReceiveCall, IInv, QueueInv, Event
    <3>2. port[p] = "open"
      BY <1>1, <3>1 DEF IInv, ProxyInv, InNative
    <3>3. dart' = [dart EXCEPT ![c] = "running"]
      BY <1>2, <2>2, <3>1, <3>2 DEF ReceiveCall
    <3>4. QED
      BY <1>0, <3>1, <3>3 DEF TypeOK
  <2>3. QED
    BY <2>1, <2>2 DEF Receive
<1>7. ASSUME NEW d \in Call PROVE PostedInv(d)'
  <2>1. PostedInv(d)
    BY DEF PostsInv
  <2>2. dart'[d] \in {"signalled", "finished"} => pc'[d] # "asleep"
    BY <1>1, <1>6, <2>1 DEF PostedInv
  <2>3. ASSUME pc'[d] \in Waiting, dart'[d] = "none", Owner[target'[d]] \in alive'
        PROVE  \E j \in 1..Len(queue'[Owner[target'[d]]]) :
                 queue'[Owner[target'[d]]][j].call = d
    <3>1. dart[d] = "none" /\ e.call # d
      BY <1>6, <2>3
    <3>2. PICK s \in Isolate : s = Owner[target[d]]
      BY <1>0, <1>1, <2>3 DEF Waiting, RendezvousInv
    <3>3. PICK k \in 1..Len(queue[s]) : queue[s][k].call = d
      BY <1>1, <2>1, <2>3, <3>1, <3>2 DEF PostedInv, Waiting
    <3>4. PICK j \in 1..Len(queue'[s]) : queue'[s][j] = queue[s][k]
      BY <1>5, <3>1, <3>3
    <3>5. QED
      BY <1>1, <3>2, <3>3, <3>4
  <2>4. QED
    BY <2>2, <2>3 DEF PostedInv, Waiting
<1>8. ASSUME NEW q \in Proxy PROVE ClosedInv(q)'
  <2>1. ClosedInv(q) /\ Owner[q] \in Isolate
    BY DEF PostsInv
  <2>2. ASSUME reach[q] = "cleaned", port'[q] = "open"
        PROVE  port[q] = "open" /\ e # [proxy |-> q, call |-> None]
    <3>1. CASE ReceiveClose(x)
      BY <1>0, <1>2, <2>2, <3>1 DEF ReceiveClose, TypeOK
    <3>2. CASE ReceiveCall(x)
      BY <1>2, <2>2, <3>2 DEF ReceiveCall
    <3>3. QED
      BY <3>1, <3>2 DEF Receive
  <2>3. ASSUME reach'[q] = "cleaned", port'[q] = "open"
        PROVE  \E j \in 1..Len(queue'[Owner[q]]) :
                 queue'[Owner[q]][j] = [proxy |-> q, call |-> None]
    <3>1. port[q] = "open" /\ reach[q] = "cleaned" /\ e # [proxy |-> q, call |-> None]
      BY <1>1, <2>2, <2>3
    <3>2. PICK k \in 1..Len(queue[Owner[q]]) : queue[Owner[q]][k] = [proxy |-> q, call |-> None]
      BY <2>1, <3>1 DEF ClosedInv
    <3>3. QED
      BY <1>5, <2>1, <3>1, <3>2
  <2>4. QED
    BY <2>3 DEF ClosedInv
<1>9. QED
  BY <1>7, <1>8 DEF PostsInv

(* The rest of what an isolate does takes no event, and signals a caller awake. *)
LEMMA IsolatePosts ==
  ASSUME IInv, PostsInv, NEW c \in Call,
         \/ \E s \in Isolate, a \in Answer : RunMethod(s, c, a)
         \/ ResultFor(c) \/ FinalizeArgs(c) \/ ReleaseOriginal(c)
  PROVE  PostsInv'
<1>0. TypeOK /\ \A d \in Call : RendezvousInv(d)
  BY DEF IInv
<1>1. /\ UNCHANGED <<alive, port, reach, queue, target>>
      /\ \A d \in Call \ {c} : pc'[d] = pc[d] /\ dart'[d] = dart[d]
  BY <1>0 DEF RunMethod, ResultFor, ResultAcquire, ResultStore, ResultSignal, ResultRelease,
              FinalizeArgs, ReleaseOriginal, proxyVars, TypeOK
<1>2. \A s \in Isolate : Kept(s)
  BY <1>1, NothingTaken
<1>3. PostedInv(c)
  BY DEF PostsInv
<1>4. /\ dart'[c] = "none" => dart[c] = "none"
      /\ pc'[c] \in Waiting => pc[c] \in Waiting
      /\ dart'[c] \in {"signalled", "finished"} => pc'[c] # "asleep"
  <2>1. CASE FinalizeArgs(c) \/ ReleaseOriginal(c)
    BY <1>3, <2>1 DEF FinalizeArgs, ReleaseOriginal, PostedInv
  <2>2. CASE \E s \in Isolate, a \in Answer : RunMethod(s, c, a)
    BY <1>0, <2>2 DEF RunMethod, TypeOK, Waiting
  <2>3. CASE ResultFor(c)
    BY <1>0, <1>3, <2>3 DEF ResultFor, ResultAcquire, ResultStore, ResultSignal, ResultRelease,
                            TypeOK, PostedInv, Waiting
  <2>4. QED
    BY <2>1, <2>2, <2>3
<1>5. ASSUME NEW d \in Call PROVE PostedInv(d)'
  <2>1. PostedInv(d)
    BY DEF PostsInv
  <2>2. dart[d] \in {"signalled", "finished"} => pc[d] # "asleep"
    BY <2>1 DEF PostedInv
  <2>3. QED
    BY <1>0, <1>1, <1>2, <1>4, <2>1, <2>2, PostedStays
<1>6. ASSUME NEW q \in Proxy PROVE ClosedInv(q)'
  <2>1. Owner[q] \in Isolate
    OBVIOUS
  <2>2. QED
    BY <1>1, <1>2, <2>1, ClosedStays DEF PostsInv
<1>7. QED
  BY <1>5, <1>6 DEF PostsInv

LEMMA PostsNext ==
  ASSUME IInv, PostsInv, [Next]_vars
  PROVE  PostsInv'
<1>1. CASE UNCHANGED vars
  BY <1>1 DEF vars, proxyVars, callVars, PostsInv, PostedInv, ClosedInv
<1>2. QED
  BY <1>1, ProxyLifePosts, ExitPosts, InvokePosts, CallerPosts, ReceivePosts, IsolatePosts
     DEF Next

-----------------------------------------------------------------------------

(* What is at rest. *)
LEMMA RestIsStuck == WaitInv => NothingForgotten
<1> SUFFICES ASSUME WaitInv, AtRest
             PROVE  /\ \A c \in Call : pc[c] \notin {"free", "done"} => Stuck(Owner[target[c]])
                    /\ \A p \in Proxy : reach[p] = "cleaned" =>
                         port[p] = "closed" \/ Stuck(Owner[p])
  BY DEF NothingForgotten
<1>0. TypeOK /\ IInv
  BY DEF WaitInv, IInv
\* A caller is asleep, or runs the method itself.
<1>1. ASSUME NEW c \in Call, pc[c] \notin {"free", "done"}
      PROVE  \/ pc[c] = "asleep" /\ Remote(c) /\ Pending(c)
             \/ dart[c] = "running" /\ caller[c] = Owner[target[c]]
  <2>1. pc[c] \in {"asleep", "waking", "direct"}
    BY <1>0, <1>1 DEF AtRest, TypeOK, CallerStep
  <2>2. lock[c] = "free"
    <3>1. lock[c] # "caller" /\ lock[c] # "isolate"
      BY <1>0, <2>1 DEF IInv, LockInv, AtRest
    <3>2. QED
      BY <1>0, <3>1 DEF TypeOK
  <2>3. pc[c] # "waking" /\ dart[c] # "answered" /\ ~ Resolving(c)
    BY <2>2 DEF AtRest
  <2>4. CASE pc[c] = "direct"
    BY <1>0, <2>4 DEF IInv, RendezvousInv, Remote
  <2>5. CASE pc[c] = "asleep"
    <3>1. dart[c] # "finished" /\ Remote(c)
      BY <1>0, <2>5 DEF WaitInv, PostedInv, IInv, RendezvousInv
    <3>2. dart[c] \in {"none", "running"}
      BY <1>0, <2>3, <3>1 DEF TypeOK, DartStep, Resolving
    <3>3. QED
      BY <2>5, <3>1, <3>2 DEF Pending, InNative
  <2>6. QED
    BY <2>1, <2>3, <2>4, <2>5
\* An isolate that is not between events has called another one.
<1>2. ASSUME NEW s \in alive, stack[s] # <<>>
      PROVE  \E y \in Isolate : WaitsFor(s, y)
  <2>1. s \in Isolate /\ s \in Thread /\ stack[s] \in Seq(Call)
    BY <1>0 DEF TypeOK, Thread
  <2>2. Len(stack[s]) \in 1..Len(stack[s]) /\ Top(s) \in Call
    BY <1>2, <2>1 DEF Top
  <2>3. PICK c \in Call : c = Top(s)
    BY <2>2
  <2>4. InCall(s, c) /\ Frame(s, c)
    BY <1>2, <2>1, <2>2, <2>3 DEF InCall, Top, WaitInv, StackInv
  <2>5. dart[c] # "running" \/ Owner[target[c]] # s
    BY <2>4 DEF AtRest
  <2>6. caller[c] = s /\ pc[c] \notin {"free", "done"}
    <3>1. SUFFICES ASSUME dart[c] \in {"answered", "entered", "stored", "signalled"}
                   PROVE  FALSE
      BY <2>4, <2>5, <3>1 DEF Frame
    <3>2. pc[c] \in {"checking", "asleep", "waking"}
      BY <1>0, <3>1, AnsweredRemote
    <3>3. dart[c] = "answered" /\ pc[c] = "asleep" /\ Pending(c)
      BY <1>1, <3>1, <3>2 DEF AtRest, Resolving
    <3>4. QED
      BY <3>3 DEF Pending
  <2>7. Remote(c) /\ Pending(c)
    BY <1>1, <2>5, <2>6
  <2>8. Owner[target[c]] \in Isolate
    <3>1. target[c] \in Proxy
      BY <1>0, <2>6 DEF IInv, RendezvousInv
    <3>2. QED
      BY <3>1
  <2>9. WaitsFor(s, Owner[target[c]])
    BY <2>4, <2>6, <2>7 DEF WaitsFor, Remote
  <2>10. QED
    BY <2>8, <2>9
\* All of these, and those that have exited, are stuck.
<1> DEFINE S == {x \in Isolate : x \notin alive \/ \E y \in Isolate : WaitsFor(x, y)}
\* The isolate of a call that waits has something on its stack, if it lives.
<1>3. ASSUME NEW c \in Call, pc[c] \notin {"free", "done"} PROVE Owner[target[c]] \in S
  <2>1. target[c] \in Proxy
    BY <1>0, <1>3 DEF IInv, RendezvousInv
  <2>2. PICK s \in Isolate : s = Owner[target[c]]
    BY <2>1
  <2>3. s \in Thread /\ stack[s] \in Seq(Call)
    BY <1>0 DEF Thread, TypeOK
  <2>4. CASE s \in alive /\ dart[c] = "none"
    <3>1. pc[c] = "asleep"
      BY <1>1, <1>3, <2>4
    <3>2. queue[s] # <<>>
      <4>1. PICK k \in 1..Len(queue[s]) : TRUE
        BY <2>2, <2>4, <3>1 DEF WaitInv, PostedInv
      <4>2. QED
        BY <4>1
    <3>3. stack[s] # <<>>
      BY <2>4, <3>2 DEF AtRest
    <3>4. QED
      BY <1>2, <2>2, <2>4, <3>3
  <2>5. CASE s \in alive /\ dart[c] # "none"
    <3>1. dart[c] = "running"
      BY <1>1, <1>3, <2>5 DEF Pending
    <3>2. Frame(s, c)
      BY <1>1, <1>3, <2>2, <3>1 DEF Frame
    <3>3. PICK k \in 1..Len(stack[s]) : stack[s][k] = c
      BY <2>3, <3>2 DEF WaitInv, StackInv
    <3>4. stack[s] # <<>>
      BY <3>3
    <3>5. QED
      BY <1>2, <2>2, <2>5, <3>4
  <2>6. QED
    BY <2>2, <2>4, <2>5
<1>4. \A x \in S : x \notin alive \/ \E y \in S : WaitsFor(x, y)
  <2> SUFFICES ASSUME NEW x \in S, x \in alive PROVE \E y \in S : WaitsFor(x, y)
    OBVIOUS
  <2>1. PICK y \in Isolate : WaitsFor(x, y)
    OBVIOUS
  <2>2. PICK c \in Call : Pending(c) /\ Owner[target[c]] = y
    BY <2>1 DEF WaitsFor
  <2>3. y \in S
    BY <1>3, <2>2 DEF Pending, InNative
  <2>4. QED
    BY <2>1, <2>3
<1>5. \A s \in S : Stuck(s)
  <2>1. S \in SUBSET Isolate
    OBVIOUS
  <2>2. QED
    BY <1>4, <2>1 DEF Stuck
<1>6. ASSUME NEW p \in Proxy, reach[p] = "cleaned", port[p] # "closed"
      PROVE  Owner[p] \in S
  <2>1. port[p] = "open"
    BY <1>0, <1>6 DEF TypeOK, IInv, ProxyInv
  <2>2. PICK k \in 1..Len(queue[Owner[p]]) : TRUE
    BY <1>6, <2>1 DEF WaitInv, ClosedInv
  <2>3. queue[Owner[p]] # <<>> /\ Owner[p] \in Isolate
    BY <2>2
  <2>4. Owner[p] \in alive => stack[Owner[p]] # <<>>
    BY <2>3 DEF AtRest
  <2>5. QED
    BY <1>2, <2>3, <2>4
<1>7. QED
  BY <1>3, <1>5, <1>6

LEMMA InitWaitInv == Init => WaitInv
<1> SUFFICES ASSUME Init PROVE WaitInv
  OBVIOUS
<1>1. IInv
  BY InitIInv
<1>2. \A t \in Thread : StackInv(t)
  <2> SUFFICES ASSUME NEW t \in Thread PROVE StackInv(t)
    OBVIOUS
  <2>1. Len(stack[t]) = 0 /\ \A c \in Call : pc[c] = "free" /\ dart[c] = "none"
    BY DEF Init
  <2>2. 1..Len(stack[t]) = {} /\ 1..Len(stack[t]) - 1 = {}
    BY <2>1
  <2>3. QED
    BY <2>1, <2>2 DEF StackInv, Frame
<1>3. (\A c \in Call : PostedInv(c)) /\ (\A p \in Proxy : ClosedInv(p))
  BY DEF Init, PostedInv, ClosedInv
<1>4. QED
  BY <1>1, <1>2, <1>3 DEF WaitInv

LEMMA NextWaitInv == WaitInv /\ [Next]_vars => WaitInv'
<1> SUFFICES ASSUME WaitInv, [Next]_vars PROVE WaitInv'
  OBVIOUS
<1>1. IInv /\ StacksInv /\ PostsInv
  BY DEF WaitInv, StacksInv, PostsInv
<1>2. IInv'
  BY <1>1, NextIInv
<1>3. StacksInv' /\ PostsInv'
  BY <1>1, StackNext, PostsNext
<1>4. QED
  BY <1>2, <1>3 DEF WaitInv, StacksInv, PostsInv

(* The inductive invariant: besides IInv, the frames of the calls in progress are  *)
(* on the stacks of their threads, well nested, and each call that was posted, and *)
(* each null, is in its queue until it is taken.                                   *)
THEOREM WaitInvariant == Spec => []WaitInv
<1>1. QED
  BY InitWaitInv, NextWaitInv, PTL DEF Spec

(* The callback machinery comes to rest only when every call has returned and the  *)
(* port of every collected proxy is closed, those excepted that need an isolate    *)
(* which has exited or waits in, or behind, a cycle of isolates: what              *)
(* EveryCallReturns and PortCloses promise, without the scheduling.                *)
THEOREM OnlyStuckCallsWait == Spec => []NothingForgotten
<1>1. QED
  BY RestIsStuck, WaitInvariant, PTL

=============================================================================
