--------------------------- MODULE SuspendCallsProofs ---------------------------
(***************************************************************************)
(* Proofs about SuspendCalls, for any isolates, threads and calls, whether *)
(* or not suspend functions suspend: the C functions keep what             *)
(* JniCallsProofs shows of them, and no answer is lost.                    *)
(***************************************************************************)
EXTENDS SuspendCalls, JniCallsProofs

USE ConstantsAssumption, SuspendAssumption

-----------------------------------------------------------------------------
(* The C functions. *)

LEMMA ProceedInv ==
  ASSUME IInv, NEW c \in Call, NEW s \in Stage, NEW f \in Function \ Lookup,
         Proceed(c, s, f)
  PROVE  IInv'
<1>1. Caller[c] \in Isolate /\ f \in Program /\ f # "throwException"
  BY DEF Program, Function
<1>2. /\ fn[Caller[c]] = None /\ held[Caller[c]] = {} /\ Begin(Caller[c], f)
      /\ thread[Caller[c]] \in Thread
  BY <1>1 DEF Proceed, Free, IInv, TypeOK
<1>3. QED
  BY <1>1, <1>2, BeginInv

(* Whatever the composition does, the C functions keep their invariant. *)
LEMMA SNextCalls ==
  ASSUME IInv, [SNext]_allVars
  PROVE  IInv'
<1>. USE DEF Stage
<1>1. ASSUME NEW c \in Call, Start(c) PROVE IInv'
  BY <1>1, ProceedInv DEF Start, Function, Lookup
<1>2. ASSUME NEW c \in Call, CallKotlin(c) PROVE IInv'
  BY <1>2, ProceedInv DEF CallKotlin, Function, Lookup
<1>3. ASSUME NEW c \in Call, NEW t \in Thread, Receive(c, t) PROVE IInv'
  BY <1>3, HandleInv DEF Receive
<1>4. ASSUME NEW c \in Call, CheckType(c) PROVE IInv'
  BY <1>4, ProceedInv DEF CheckType, Function, Lookup
<1>5. ASSUME NEW i \in Isolate, NEW f \in Entry[i], SEnter(i, f) PROVE IInv'
  BY <1>5, NextInv DEF SEnter, Next
<1>6. ASSUME UNCHANGED vars PROVE IInv'
  BY <1>6, NextInv
<1>7. ASSUME NEW i \in Isolate,
             SPark(i) \/ SCStep(i) \/ SReturn(i) \/ SThrowException(i) \/ SThrow(i)
               \/ SRelease(i) \/ \E t \in Thread : SHandle(i, t)
      PROVE  IInv'
  BY <1>7, ParkInv, CStepInv, ReturnInv, ThrowExceptionInv, ThrowInv, ReleaseInv, HandleInv
     DEF SPark, SCStep, SReturn, SThrowException, SThrow, SRelease, SHandle
<1>8. QED
  BY <1>1, <1>2, <1>3, <1>4, <1>5, <1>6, <1>7 DEF SNext, Method, Resume, Exit, allVars

-----------------------------------------------------------------------------
(* Types. *)

\* An action of the async methods, of Kotlin or of the isolates' end.
Protocol(c) ==
  \/ Method(c)
  \/ \E a \in {"value", "failure"} : Resume(c, a)

LEMMA ProtocolTypes ==
  ASSUME STypeOK, NEW c \in Call, Protocol(c)
  PROVE  STypeOK' \/ ~ TypeOK'
<1>. USE DEF STypeOK, Stage
<1>1. CASE Start(c)
  BY <1>1 DEF Start, Proceed
<1>2. CASE CallKotlin(c)
  BY <1>2 DEF CallKotlin, Proceed
<1>3. ASSUME NEW t \in Thread, Receive(c, t) PROVE STypeOK' \/ ~ TypeOK'
  BY <1>3 DEF Receive
<1>4. CASE CheckType(c)
  BY <1>4 DEF CheckType, Proceed
<1>5. ASSUME NEW a \in {"value", "failure"}, Resume(c, a) PROVE STypeOK' \/ ~ TypeOK'
  <2>1. UNCHANGED <<stage, current, port, answer, dropped, gone>>
    BY <1>5 DEF Resume
  <2>2. coroutine' \in [Call -> {"none", "suspended", "resumed", "returned"}]
    BY <1>5 DEF Resume
  <2>3. inbox' \in [Call -> {"value", "failure", None}]
    BY <1>5 DEF Resume
  <2>4. answerRef' \in [Call -> {"none", "live", "owned", "lost"}]
    BY <1>5 DEF Resume
  <2>5. QED
    BY <2>1, <2>2, <2>3, <2>4
<1>6. QED
  BY <1>1, <1>2, <1>3, <1>4, <1>5 DEF Protocol, Method

LEMMA IsolateTypes ==
  ASSUME STypeOK, IInv, NEW i \in Isolate,
         SCStep(i) \/ SReturn(i) \/ SThrow(i) \/ Exit(i)
  PROVE  STypeOK' \/ ~ TypeOK'
<1>. USE DEF STypeOK
<1>1. CASE SCStep(i)
  BY <1>1 DEF SCStep
<1>2. CASE SReturn(i)
  <2>1. CASE UNCHANGED svars
    BY <1>2, <2>1 DEF svars
  <2>2. CASE ~ UNCHANGED svars
    <3>1. current[i] \in Call /\ "exception" \notin held[i]
      BY <1>2, <2>2 DEF SReturn
    <3>2. Cardinality(held[i]) \in Nat
      <4>1. fn[i] # None /\ Op(i) = "return"
        BY <1>2 DEF SReturn, Return, At
      <4>2. held[i] = {} \/ held[i] = {"result"}
        <5>1. StepInv(i, thread[i])
          BY <4>1, AtStep
        <5>2. QED
          BY <3>1, <4>1, <5>1 DEF StepInv, FrameInv
      <4>3. QED
        <5>1. CASE held[i] = {}
          BY <5>1, HeldSizes
        <5>2. CASE held[i] = {"result"}
          BY <5>2, HeldSizes
        <5>3. QED
          BY <4>2, <5>1, <5>2
    <3>3. stage' \in [Call -> Stage]
      BY <1>2, <3>1 DEF SReturn, After, Stage, svars
    <3>4. dropped' \in [Isolate -> Nat] /\ answerRef' \in [Call -> {"none", "live", "owned", "lost"}]
      BY <1>2, <3>1, <3>2 DEF SReturn, svars
    <3>5. current' \in [Isolate -> Call \cup {None}]
      BY <1>2, <3>1 DEF SReturn, svars
    <3>6. UNCHANGED <<port, inbox, answer, coroutine, gone>>
      BY <1>2, <3>1 DEF SReturn
    <3>7. QED
      BY <3>3, <3>4, <3>5, <3>6
  <2>3. QED
    BY <2>1, <2>2
<1>3. CASE SThrow(i)
  BY <1>3 DEF SThrow, svars, Stage
<1>4. CASE Exit(i)
  BY <1>4 DEF Exit
<1>5. QED
  BY <1>1, <1>2, <1>3, <1>4

LEMMA SNextTypes ==
  ASSUME STypeOK, IInv, [SNext]_allVars
  PROVE  STypeOK'
<1>1. TypeOK'
  BY SNextCalls DEF IInv
<1>2. ASSUME UNCHANGED svars PROVE STypeOK'
  BY <1>1, <1>2 DEF svars, STypeOK
<1>3. QED
  BY <1>1, <1>2, ProtocolTypes, IsolateTypes
     DEF SNext, Protocol, SHandle, SPark, SEnter, SThrowException, SRelease, allVars

-----------------------------------------------------------------------------
(* No answer is lost. *)

Answers == MethodInv /\ PausedInv /\ CoroutineInv /\ PortInv /\ AnswerKept

LEMMA StartAnswers ==
  ASSUME SInv, NEW c \in Call, Start(c)
  PROVE  Answers'
<1>1. /\ stage' = [stage EXCEPT ![c] = "making"] /\ stage[c] = "idle"
      /\ current' = [current EXCEPT ![Caller[c]] = c] /\ current[Caller[c]] = None
      /\ port' = [port EXCEPT ![c] = "open"]
      /\ UNCHANGED <<thread, inbox, answer, coroutine, answerRef, gone>>
      /\ thread[Caller[c]] # None
      /\ fn' = [fn EXCEPT ![Caller[c]] = "PortContinuation__ctor"]
      /\ pc' = [pc EXCEPT ![Caller[c]] = 1]
  BY DEF Start, Proceed, Begin, Free
<1>2. coroutine[c] = "none"
  BY <1>1 DEF SInv, CoroutineInv
<1>3. MethodInv'
  BY <1>1 DEF SInv, STypeOK, MethodInv, Active
<1>4. CoroutineInv'
  <2>1. ASSUME NEW d \in Call, stage'[d] = "calling" PROVE Caller[d] # Caller[c] /\ stage[d] = "calling"
    BY <1>1, <2>1 DEF SInv, STypeOK, MethodInv, Active
  <2>2. QED
    BY <1>1, <1>2, <2>1 DEF SInv, STypeOK, TypeOK, CoroutineInv, Op
<1>5. PortInv' /\ AnswerKept'
  BY <1>1, <1>2 DEF SInv, STypeOK, PortInv, AnswerKept
<1>6. PausedInv'
  <2>1. ASSUME NEW d \in Call, stage'[d] \in {"made", "received", "resolved"}
        PROVE  Caller[d] # Caller[c] /\ stage[d] = stage'[d]
    BY <1>1, <2>1 DEF SInv, STypeOK, MethodInv, Active
  <2>2. held' = held
    BY DEF Start, Proceed, Begin
  <2>3. QED
    BY <1>1, <2>1, <2>2 DEF SInv, STypeOK, TypeOK, PausedInv
<1>7. QED
  BY <1>3, <1>4, <1>5, <1>6 DEF Answers

\* The method of c begins another call of C.
LEMMA GoOnAnswers ==
  ASSUME SInv, NEW c \in Call, CallKotlin(c) \/ CheckType(c)
  PROVE  Answers'
<1>1. PICK s \in {"calling", "resolving", "testing"}, f \in Function : Proceed(c, s, f)
  BY DEF CallKotlin, CheckType, Function
<1>2. /\ stage' = [stage EXCEPT ![c] = s]
      /\ stage[c] \in {"made", "received", "resolved"}
      /\ s = "calling" => stage[c] = "made"
      /\ UNCHANGED <<thread, current, port, inbox, answer, coroutine, answerRef, gone>>
      /\ fn' = [fn EXCEPT ![Caller[c]] = f]
      /\ pc' = [pc EXCEPT ![Caller[c]] = 1]
  <2>1. CASE CallKotlin(c)
    BY <1>1, <2>1 DEF CallKotlin, Proceed, Begin, SInv, STypeOK
  <2>2. CASE CheckType(c)
    BY <1>1, <2>2 DEF CheckType, Proceed, Begin, SInv, STypeOK
  <2>3. QED
    BY <2>1, <2>2
<1>3. MethodInv'
  BY <1>1, <1>2 DEF SInv, STypeOK, MethodInv, Active
<1>4. CoroutineInv'
  <2>1. ASSUME NEW d \in Call, d # c, stage'[d] = "calling"
        PROVE  Caller[d] # Caller[c] /\ stage[d] = "calling"
    BY <1>2, <2>1 DEF SInv, STypeOK, MethodInv, Active
  <2>2. stage'[c] = "calling" => coroutine[c] = "none"
    BY <1>2 DEF SInv, STypeOK, CoroutineInv
  <2>3. QED
    BY <1>2, <2>1, <2>2 DEF SInv, STypeOK, TypeOK, CoroutineInv, Op
<1>5. PortInv' /\ AnswerKept'
  BY <1>1, <1>2 DEF SInv, STypeOK, PortInv, AnswerKept
<1>6. PausedInv'
  <2>1. ASSUME NEW d \in Call, stage'[d] \in {"made", "received", "resolved"}
        PROVE  Caller[d] # Caller[c] /\ stage[d] = stage'[d]
    BY <1>2, <2>1 DEF SInv, STypeOK, MethodInv, Active
  <2>2. held' = held
    BY <1>1 DEF Proceed, Begin
  <2>3. QED
    BY <1>2, <2>1, <2>2 DEF SInv, STypeOK, TypeOK, PausedInv
<1>7. QED
  BY <1>3, <1>4, <1>5, <1>6 DEF Answers

LEMMA ReceiveAnswers ==
  ASSUME SInv, NEW c \in Call, NEW t \in Thread, Receive(c, t)
  PROVE  Answers'
<1>1. thread[Caller[c]] = None /\ current[Caller[c]] = None
  BY DEF Receive, Handle, SInv, STypeOK, MethodInv
<1>2. /\ thread' = [thread EXCEPT ![Caller[c]] = t] /\ t # None
      /\ UNCHANGED <<fn, pc, coroutine, answerRef, gone>>
  BY DEF Receive, Handle
<1>3. MethodInv'
  BY <1>1, <1>2 DEF Receive, SInv, STypeOK, TypeOK, MethodInv, Active
<1>4. CoroutineInv'
  BY <1>2 DEF Receive, SInv, STypeOK, CoroutineInv, Op
<1>5. PortInv' /\ AnswerKept'
  BY <1>2 DEF Receive, SInv, STypeOK, PortInv, AnswerKept
<1>6. PausedInv'
  <2>1. fn[Caller[c]] = None /\ held[Caller[c]] = {} /\ held' = held
    <3>1. fn[Caller[c]] = None
      BY <1>1 DEF SInv, STypeOK, TypeOK
    <3>2. held[Caller[c]] = {}
      <4>1. DartInv(Caller[c])
        BY <3>1 DEF SInv, IInv, IsolateInv
      <4>2. QED
        BY <1>1, <4>1 DEF SInv, STypeOK, TypeOK, DartInv
    <3>3. QED
      BY <3>1, <3>2 DEF Receive, Handle
  <2>2. QED
    BY <1>2, <2>1 DEF Receive, SInv, STypeOK, PausedInv
<1>7. QED
  BY <1>3, <1>4, <1>5, <1>6 DEF Answers

LEMMA ResumeAnswers ==
  ASSUME SInv, NEW c \in Call, NEW a \in {"value", "failure"}, Resume(c, a)
  PROVE  Answers'
<1>1. answer[c] = None /\ stage[c] # "idle"
  BY DEF Resume, SInv, STypeOK, PortInv, CoroutineInv
<1>2. port[c] = "open" \/ Caller[c] \in gone
  BY <1>1 DEF SInv, PortInv
<1>3. MethodInv' /\ PausedInv' /\ CoroutineInv'
  BY DEF Resume, vars, SInv, STypeOK, MethodInv, PausedInv, CoroutineInv, Op
<1>4. PortInv' /\ AnswerKept'
  <2>1. UNCHANGED <<stage, port, answer, gone>> /\ coroutine' = [coroutine EXCEPT ![c] = "resumed"]
    BY DEF Resume
  <2>2. CASE port[c] = "open"
    <3>1. inbox' = [inbox EXCEPT ![c] = a] /\ answerRef' = [answerRef EXCEPT ![c] = "live"] /\ a # None
      BY <2>2 DEF Resume, SInv, STypeOK
    <3>2. PortInv'
      BY <2>1, <3>1 DEF SInv, STypeOK, PortInv
    <3>3. AnswerKept'
      BY <2>1, <3>1 DEF SInv, STypeOK, AnswerKept
    <3>4. QED
      BY <3>2, <3>3
  <2>3. CASE port[c] # "open"
    <3>1. inbox' = inbox /\ answerRef' = [answerRef EXCEPT ![c] = "lost"] /\ Caller[c] \in gone
      BY <1>2, <2>3 DEF Resume
    <3>2. PortInv'
      BY <2>1, <3>1 DEF SInv, STypeOK, PortInv
    <3>3. AnswerKept'
      BY <2>1, <3>1 DEF SInv, STypeOK, AnswerKept
    <3>4. QED
      BY <3>2, <3>3
  <2>4. QED
    BY <2>2, <2>3
<1>5. QED
  BY <1>3, <1>4 DEF Answers

\* Where a function of C goes once it has called Java.
LEMMA AfterCall ==
  ASSUME IInv, NEW i \in Isolate, CStep(i)
  PROVE  /\ Op(i) \notin Before => Op(i)' \notin Before
         /\ Succeeds(i, {"call"}) => Op(i)' \notin Before
<1>1. fn[i] # None /\ Op(i) \notin {"return", "throw"}
  BY CStepFrame DEF CStep, Attach, ReadTable, Raise, Load, LookUp, MakeGlobal, Invoke,
     Describe, Check, Test, GlobalResult, Details, Succeeds, At, NeedsNoException
<1>2. Follows(Code(fn[i]), pc[i])
  BY <1>1, AtStep
<1>3. Op(i) # "test" => Advance(i)
  BY DEF CStep, Attach, ReadTable, Raise, Load, LookUp, MakeGlobal, Invoke, Describe,
         Check, Test, GlobalResult, Details, At
<1>4. Op(i) # "test" => Op(i)' = NextOp(i)
  BY <1>1, <1>3, Advanced
<1>5. /\ Op(i) \in {"check", "global", "toString", "details"} \cup Describing
           => NextOp(i) \notin Before
      /\ Op(i) = "call" => NextOp(i) \notin Before
  BY <1>2 DEF Follows, Op, NextOp, Before, Describing
<1>6. Op(i) \in Before \cup {"check", "global", "toString", "details"} \cup Describing
  BY DEF CStep, Attach, ReadTable, Raise, Load, LookUp, MakeGlobal, Invoke, Describe,
         Check, Test, GlobalResult, Details, Succeeds, At, NeedsNoException, Before,
         Describing
<1>7. QED
  BY <1>4, <1>5, <1>6 DEF Succeeds, At, Before

LEMMA CAnswers ==
  ASSUME SInv, NEW i \in Isolate, SCStep(i)
  PROVE  Answers'
<1>0. CStep(i) /\ IInv
  BY DEF SCStep, SInv
<1>1. /\ UNCHANGED <<stage, current, port, inbox, answer, answerRef, gone, thread, fn>>
      /\ \A j \in Isolate : j # i => pc'[j] = pc[j]
  BY <1>0, CStepFrame DEF SCStep
<1>2. \/ UNCHANGED coroutine
      \/ /\ current[i] # None
         /\ stage[current[i]] = "calling"
         /\ Succeeds(i, {"call"})
         /\ \E how \in {"suspended", "returned"} :
              coroutine' = [coroutine EXCEPT ![current[i]] = how]
  BY DEF SCStep
<1>3. MethodInv' /\ PausedInv'
  <2>1. fn[i] # None /\ \A j \in Isolate : j # i => held'[j] = held[j]
    BY <1>0, CStepFrame
  <2>2. QED
    BY <1>1, <2>1 DEF SInv, STypeOK, MethodInv, PausedInv
<1>4. CASE UNCHANGED coroutine
  <2>1. CoroutineInv'
    <3>1. \A d \in Call : Caller[d] # i => Op(Caller[d])' = Op(Caller[d])
      BY <1>1 DEF Op
    <3>2. Op(i) \notin Before => Op(i)' \notin Before
      BY <1>0, AfterCall
    <3>3. QED
      BY <1>1, <1>4, <3>1, <3>2 DEF SInv, CoroutineInv
  <2>2. PortInv' /\ AnswerKept'
    BY <1>1, <1>4 DEF SInv, PortInv, AnswerKept
  <2>3. QED
    BY <1>3, <2>1, <2>2 DEF Answers
<1>5. ASSUME NEW c \in Call, NEW how \in {"suspended", "returned"},
             current[i] = c, stage[c] = "calling", Succeeds(i, {"call"}),
             coroutine' = [coroutine EXCEPT ![c] = how]
      PROVE  Answers'
  <2>1. Caller[c] = i /\ fn[i] # None
    BY <1>5 DEF SInv, STypeOK, MethodInv, Succeeds, At
  <2>2. coroutine[c] = "none"
    BY <1>5, <2>1 DEF SInv, STypeOK, CoroutineInv, Succeeds, At, Before
  <2>3. \A d \in Call : stage[d] = "calling" /\ d # c => Caller[d] # i
    BY <1>5 DEF SInv, STypeOK, MethodInv, Active
  <2>4. Op(i)' \notin Before
    BY <1>0, <1>5, AfterCall
  <2>5. \A d \in Call : Caller[d] # i => Op(Caller[d])' = Op(Caller[d])
    BY <1>1 DEF Op
  <2>6. CoroutineInv'
    BY <1>1, <1>5, <2>1, <2>3, <2>4, <2>5 DEF SInv, STypeOK, CoroutineInv
  <2>7. PortInv' /\ AnswerKept'
    BY <1>1, <1>5, <2>2 DEF SInv, STypeOK, PortInv, AnswerKept
  <2>8. QED
    BY <1>3, <2>6, <2>7 DEF Answers
<1>6. QED
  BY <1>2, <1>4, <1>5 DEF SInv, STypeOK

\* A function of C ends, for its method or for no method.
LEMMA EndAnswers ==
  ASSUME SInv, NEW i \in Isolate, SReturn(i) \/ SThrow(i)
  PROVE  Answers'
<1>1. /\ fn' = [fn EXCEPT ![i] = None] /\ UNCHANGED <<thread, pc>>
      /\ UNCHANGED <<port, inbox, answer, coroutine, gone>>
      /\ fn[i] # None
  BY DEF SReturn, SThrow, Return, Throw, At, svars
<1>2. CASE UNCHANGED svars
  <2>1. CoroutineInv'
    BY <1>1, <1>2 DEF svars, SInv, STypeOK, TypeOK, CoroutineInv, Op
  <2>2. MethodInv' /\ PortInv' /\ AnswerKept'
    BY <1>1, <1>2 DEF svars, SInv, MethodInv, PortInv, AnswerKept
  <2>3. PausedInv'
    <3>1. \A j \in Isolate : j # i => held'[j] = held[j] /\ fn'[j] = fn[j]
      BY DEF SReturn, SThrow, Return, Throw, SInv, STypeOK, TypeOK
    <3>2. QED
      BY <1>1, <1>2, <3>1 DEF svars, SInv, PausedInv
  <2>4. QED
    BY <2>1, <2>2, <2>3 DEF Answers
<1>3. CASE ~ UNCHANGED svars
  <2>. DEFINE c == current[i]
  <2>1. c \in Call /\ Caller[c] = i /\ stage[c] \in Active
    BY <1>3 DEF SReturn, SThrow, SInv, STypeOK, MethodInv
  <2>2. stage[c] \notin {"made", "received", "resolved"}
    BY <1>1, <2>1 DEF SInv, PausedInv
  <2>3. PICK s \in {"made", "awaiting", "resolved", "done", "failed", "threw"} :
          /\ stage' = [stage EXCEPT ![c] = s]
          /\ s = "made" => stage[c] = "making"
          /\ IF s \in {"made", "resolved"} THEN current' = current /\ held'[i] = {}
               ELSE current' = [current EXCEPT ![i] = None]
          /\ \A d \in Call : d # c => answerRef'[d] = answerRef[d]
          /\ answerRef'[c] = "lost" => s \in {"failed", "threw"} \/ answerRef[c] = "lost"
    <3>1. CASE SReturn(i)
      <4>1. stage[c] \in {"making", "calling", "resolving", "testing"}
        BY <2>1, <2>2 DEF Active
      <4>2. held'[i] = {}
        BY <1>3, <3>1 DEF SReturn, Return, SInv, STypeOK, TypeOK
      <4>3. CASE stage[c] = "testing"
        BY <1>3, <2>1, <3>1, <4>3 DEF SReturn, After, SInv, STypeOK
      <4>4. CASE stage[c] = "calling"
        BY <1>3, <2>1, <3>1, <4>4 DEF SReturn, After, SInv, STypeOK
      <4>5. CASE stage[c] \in {"making", "resolving"}
        BY <1>3, <2>1, <3>1, <4>2, <4>5 DEF SReturn, After, SInv, STypeOK
      <4>6. QED
        BY <4>1, <4>3, <4>4, <4>5
    <3>2. CASE SThrow(i)
      BY <1>3, <2>1, <3>2 DEF SThrow, SInv, STypeOK
    <3>3. QED
      BY <3>1, <3>2
  <2>4. \A j \in Isolate : j # i => held'[j] = held[j]
    BY DEF SReturn, SThrow, Return, Throw, SInv, STypeOK, TypeOK
  <2>5. \A d \in Call : (d # c /\ Caller[d] = i) => stage[d] \notin Active
    BY <2>1 DEF SInv, STypeOK, MethodInv
  <2>6. MethodInv'
    BY <1>1, <2>1, <2>3, <2>5 DEF SInv, STypeOK, MethodInv, Active
  <2>7. PausedInv'
    BY <1>1, <2>1, <2>3, <2>4, <2>5 DEF SInv, STypeOK, TypeOK, PausedInv, Active
  <2>8. CoroutineInv'
    <3>1. stage'[c] = "made" => coroutine[c] = "none"
      BY <2>1, <2>2, <2>3 DEF SInv, CoroutineInv
    <3>2. QED
      BY <1>1, <2>1, <2>3, <2>5, <3>1 DEF SInv, STypeOK, TypeOK, CoroutineInv, Op, Active
  <2>9. PortInv' /\ AnswerKept'
    BY <1>1, <2>1, <2>3 DEF SInv, STypeOK, PortInv, AnswerKept, Active
  <2>10. QED
    BY <2>6, <2>7, <2>8, <2>9 DEF Answers
<1>4. QED
  BY <1>2, <1>3

\* A step that is not of an async method leaves its isolate alone.
LEMMA QuietAnswers ==
  ASSUME SInv, UNCHANGED svars,
         \A i \in Isolate : current[i] # None =>
           thread'[i] = thread[i] /\ fn'[i] = fn[i] /\ pc'[i] = pc[i] /\ held'[i] = held[i]
  PROVE  Answers'
<1>1. MethodInv' /\ PortInv' /\ AnswerKept'
  BY DEF svars, SInv, STypeOK, MethodInv, PortInv, AnswerKept
<1>2. ASSUME NEW c \in Call, stage[c] \in Active PROVE current[Caller[c]] # None
  BY <1>2 DEF SInv, MethodInv
<1>3. PausedInv'
  BY <1>2 DEF svars, SInv, STypeOK, PausedInv, Active
<1>4. CoroutineInv'
  BY <1>2 DEF svars, SInv, STypeOK, CoroutineInv, Op, Active
<1>5. QED
  BY <1>1, <1>3, <1>4 DEF Answers

LEMMA ThrowExceptionAnswers ==
  ASSUME SInv, NEW i \in Isolate, SThrowException(i)
  PROVE  Answers'
<1>1. /\ fn[i] = None /\ held[i] # {} /\ UNCHANGED <<thread, held>> /\ UNCHANGED svars
      /\ fn' = [fn EXCEPT ![i] = "throwException"] /\ pc' = [pc EXCEPT ![i] = 1]
  BY DEF SThrowException, ThrowException, Begin
<1>2. MethodInv' /\ PortInv' /\ AnswerKept'
  BY <1>1 DEF svars, SInv, STypeOK, MethodInv, PortInv, AnswerKept
<1>3. PausedInv'
  BY <1>1 DEF svars, SInv, STypeOK, TypeOK, PausedInv
<1>4. CoroutineInv'
  <2>1. Op(i)' = "toString"
    BY <1>1, ThrowShape DEF Op, SInv, STypeOK, TypeOK
  <2>2. QED
    BY <1>1, <2>1 DEF svars, SInv, STypeOK, TypeOK, CoroutineInv, Op, Before
<1>5. QED
  BY <1>2, <1>3, <1>4 DEF Answers

LEMMA ExitAnswers ==
  ASSUME SInv, NEW i \in Isolate, Exit(i)
  PROVE  Answers'
<1>1. UNCHANGED <<vars, stage, current, answer, coroutine>> /\ gone' = gone \cup {i}
  BY DEF Exit
<1>2. MethodInv' /\ PausedInv' /\ CoroutineInv'
  BY <1>1 DEF vars, SInv, STypeOK, MethodInv, PausedInv, CoroutineInv, Op
<1>3. PortInv' /\ AnswerKept'
  BY <1>1 DEF Exit, SInv, STypeOK, PortInv, AnswerKept
<1>4. QED
  BY <1>2, <1>3 DEF Answers

LEMMA SNextAnswers ==
  ASSUME SInv, [SNext]_allVars
  PROVE  Answers'
<1>. USE DEF SInv, STypeOK, TypeOK
<1>1. ASSUME NEW i \in Isolate, NEW t \in Thread, SHandle(i, t) PROVE Answers'
  BY <1>1, QuietAnswers DEF SHandle, Handle, MethodInv
<1>2. ASSUME NEW i \in Isolate, SPark(i) PROVE Answers'
  BY <1>2, QuietAnswers DEF SPark, Park
<1>3. ASSUME NEW i \in Isolate, NEW f \in Entry[i], SEnter(i, f) PROVE Answers'
  BY <1>3, QuietAnswers DEF SEnter, Enter, Begin
<1>4. ASSUME NEW i \in Isolate, SRelease(i) PROVE Answers'
  BY <1>4, QuietAnswers DEF SRelease, Release
<1>5. CASE UNCHANGED allVars
  BY <1>5, QuietAnswers DEF allVars, vars
<1>6. ASSUME NEW c \in Call, Method(c) \/ \E a \in {"value", "failure"} : Resume(c, a)
      PROVE  Answers'
  BY ONLY SInv, <1>6, StartAnswers, GoOnAnswers, ReceiveAnswers, ResumeAnswers DEF Method
<1>7. ASSUME NEW i \in Isolate,
             SCStep(i) \/ SReturn(i) \/ SThrowException(i) \/ SThrow(i) \/ Exit(i)
      PROVE  Answers'
  BY ONLY SInv, <1>7, CAnswers, EndAnswers, ThrowExceptionAnswers, ExitAnswers
<1>8. QED
  BY ONLY [SNext]_allVars, <1>1, <1>2, <1>3, <1>4, <1>5, <1>6, <1>7 DEF SNext

-----------------------------------------------------------------------------
(* Every answer is delivered once. *)

(* An isolate that is in the middle of a method is there. *)
LEMMA ActiveAlive ==
  ASSUME SInv, NEW c \in Call, stage[c] \in Active \/ thread[Caller[c]] # None
  PROVE  Caller[c] \notin gone
BY DEF SInv, STypeOK, MethodInv, DeliveryInv

(* The method begins or goes on. *)
LEMMA MethodDelivery ==
  ASSUME SInv, NEW c \in Call, Method(c)
  PROVE  DeliveryInv'
<1>1. CASE Start(c) \/ CallKotlin(c) \/ CheckType(c)
  <2>1. /\ UNCHANGED <<thread, answer, inbox, gone>>
        /\ thread[Caller[c]] # None
        /\ port' = port \/ port' = [port EXCEPT ![c] = "open"]
        /\ \E s \in Stage : stage' = [stage EXCEPT ![c] = s]
    BY <1>1 DEF Start, CallKotlin, CheckType, Proceed, Free, Begin, Stage
  <2>2. \/ stage[c] \in {"idle", "made"} /\ stage'[c] \in {"making", "calling"}
        \/ stage[c] \in {"received", "resolved"} /\ stage'[c] \in {"resolving", "testing"}
    BY <1>1 DEF Start, CallKotlin, CheckType, Proceed, SInv, STypeOK
  <2>3. Caller[c] \notin gone
    BY <2>1, ActiveAlive
  <2>4. QED
    BY <2>1, <2>2, <2>3 DEF SInv, STypeOK, DeliveryInv
<1>2. ASSUME NEW t \in Thread, Receive(c, t) PROVE DeliveryInv'
  <2>1. /\ gone' = gone /\ Caller[c] \notin gone
        /\ thread' = [thread EXCEPT ![Caller[c]] = t]
        /\ stage' = [stage EXCEPT ![c] = "received"]
        /\ inbox[c] # None
        /\ answer' = [answer EXCEPT ![c] = inbox[c]]
        /\ inbox' = [inbox EXCEPT ![c] = None]
        /\ port' = [port EXCEPT ![c] = "closed"]
    BY <1>2 DEF Receive, Handle
  <2>2. \A i \in gone : thread'[i] = None
    BY <2>1 DEF SInv, STypeOK, TypeOK, DeliveryInv
  <2>3. QED
    BY <2>1, <2>2 DEF SInv, STypeOK, DeliveryInv
<1>3. QED
  BY <1>1, <1>2 DEF Method

(* The coroutine is resumed once, before the method has an answer. *)
LEMMA ResumeDelivery ==
  ASSUME SInv, NEW c \in Call, NEW a \in {"value", "failure"}, Resume(c, a)
  PROVE  DeliveryInv'
<1>1. /\ UNCHANGED <<thread, stage, answer, port, gone>>
      /\ \A d \in Call : d # c => inbox'[d] = inbox[d]
      /\ port[c] # "open" => inbox' = inbox
      /\ coroutine[c] = "suspended"
  BY DEF Resume, vars, SInv, STypeOK
<1>2. answer[c] = None
  BY <1>1 DEF SInv, PortInv
<1>3. QED
  BY <1>1, <1>2 DEF SInv, DeliveryInv

(* A function of C ends, for its method or for no method. *)
LEMMA EndDelivery ==
  ASSUME SInv, NEW i \in Isolate, SReturn(i) \/ SThrow(i)
  PROVE  DeliveryInv'
<1>1. UNCHANGED <<thread, inbox, answer, port, gone>> /\ fn[i] # None
  BY DEF SReturn, SThrow, Return, Throw, At, svars
<1>2. CASE UNCHANGED svars
  BY <1>1, <1>2 DEF svars, SInv, DeliveryInv
<1>3. CASE ~ UNCHANGED svars
  <2>1. PICK c \in Call : c = current[i] /\ stage[c] \in Active
    BY <1>3 DEF SReturn, SThrow, SInv, STypeOK, MethodInv
  <2>2. stage[c] \notin {"made", "received", "resolved"}
    BY <1>1, <1>3, <2>1 DEF SReturn, SThrow, SInv, STypeOK, MethodInv, PausedInv
  <2>3. \/ stage[c] = "making" /\ stage' = [stage EXCEPT ![c] = "made"]
        \/ stage[c] = "calling" /\ stage' = [stage EXCEPT ![c] = "awaiting"]
        \/ stage[c] = "resolving" /\ stage' = [stage EXCEPT ![c] = "resolved"]
        \/ /\ stage[c] = "testing"
           /\ \E s \in {"done", "failed"} : stage' = [stage EXCEPT ![c] = s]
        \/ stage' = [stage EXCEPT ![c] = "threw"]
    <3>1. CASE SReturn(i)
      <4>1. stage[c] \in {"making", "calling", "resolving", "testing"}
        BY <2>1, <2>2 DEF Active
      <4>2. QED
        BY <1>3, <2>1, <3>1, <4>1 DEF SReturn, After
    <3>2. CASE SThrow(i)
      BY <1>3, <2>1, <3>2 DEF SThrow
    <3>3. QED
      BY <3>1, <3>2
  <2>4. QED
    BY <1>1, <2>1, <2>3 DEF SInv, STypeOK, DeliveryInv
<1>4. QED
  BY <1>2, <1>3

LEMMA SNextDelivery ==
  ASSUME SInv, [SNext]_allVars
  PROVE  DeliveryInv'
<1>1. ASSUME UNCHANGED <<stage, answer, inbox, port, gone>>,
             \A i \in gone : thread'[i] = None
      PROVE  DeliveryInv'
  BY <1>1 DEF DeliveryInv, SInv
<1>2. ASSUME NEW i \in Isolate,
             SPark(i) \/ SCStep(i) \/ SThrowException(i) \/ SRelease(i)
               \/ (\E f \in Entry[i] : SEnter(i, f)) \/ \E t \in Thread : SHandle(i, t)
      PROVE  DeliveryInv'
  <2>1. UNCHANGED <<stage, answer, inbox, port, gone>>
    BY <1>2 DEF SPark, SCStep, SThrowException, SRelease, SEnter, SHandle, svars
  <2>2. thread' = thread \/ (i \notin gone /\ \E t : thread' = [thread EXCEPT ![i] = t])
        \/ thread' = [thread EXCEPT ![i] = None]
    BY <1>2, CStepFrame DEF SPark, SCStep, SThrowException, SRelease, SEnter, SHandle,
         Park, ThrowException, Release, Enter, Handle, Begin, SInv
  <2>3. \A j \in gone : thread'[j] = None
    BY <2>2 DEF SInv, STypeOK, TypeOK, DeliveryInv
  <2>4. QED
    BY <1>1, <2>1, <2>3
<1>3. ASSUME NEW i \in Isolate, Exit(i) PROVE DeliveryInv'
  <2>1. /\ UNCHANGED <<thread, stage, answer>> /\ gone' = gone \cup {i} /\ thread[i] = None
        /\ \A c \in Call :
             IF Caller[c] = i THEN port'[c] # "open" /\ inbox'[c] = None
             ELSE port'[c] = port[c] /\ inbox'[c] = inbox[c]
    BY <1>3 DEF Exit, vars
  <2>2. QED
    BY <2>1 DEF SInv, DeliveryInv
<1>4. CASE UNCHANGED allVars
  BY <1>1, <1>4 DEF allVars, vars, svars, SInv, DeliveryInv
<1>5. QED
  BY <1>2, <1>3, <1>4, MethodDelivery, ResumeDelivery, EndDelivery DEF SNext

-----------------------------------------------------------------------------
(* No method waits in vain. *)

(* The steps of the functions that call Kotlin. *)
LEMMA KotlinSteps ==
  ASSUME IInv, NEW i \in Isolate, fn[i] \in {"callMethod", "generatedMethod"}
  PROVE  Op(i) \in {"attach", "load", "test", "call", "check", "global", "return"}
<1>0. fn[i] # None
  BY ConstantsAssumption DEF Function
<1>1. pc[i] \in 1..Len(Code(fn[i]))
  BY <1>0, AtStep
<1>2. CASE fn[i] = "callMethod"
  BY <1>1, <1>2 DEF Op, Code, callMethod
<1>3. CASE fn[i] = "generatedMethod"
  BY <1>1, <1>3 DEF Op, Code, generatedMethod
<1>4. QED
  BY <1>2, <1>3

(* Unless a coroutine begins, the function that was to begin it ends with an   *)
(* exception.                                                                   *)
LEMMA UnansweredStep ==
  ASSUME IInv, NEW i \in Isolate, CStep(i), Unanswered(i),
         ~ (Succeeds(i, {"call"}) /\ valid'[i])
  PROVE  Unanswered(i)'
<1>1. fn[i] # None /\ fn' = fn /\ thread' = thread
  BY CStepFrame
<1>2. CASE fn[i] = "throwException"
  BY <1>1, <1>2 DEF Unanswered
<1>3. CASE fn[i] \in {"callMethod", "generatedMethod"}
  <2>1. Op(i) \in {"attach", "load", "test", "call", "check", "global", "return"}
    BY <1>3, KotlinSteps
  <2>2. /\ StepInv(i, thread[i]) /\ Follows(Code(fn[i]), pc[i])
        /\ Op(i) = "global" => NextOp(i) = "return"
        /\ Op(i) = "test" => Code(fn[i])[Len(Code(fn[i]))] = "return"
        /\ Len(Code(fn[i])) \in Nat
    BY <1>1, <1>3, AtStep DEF TwiceChecked
  <2>3. fn[i] # "throwException"
    BY <1>3
  <2>4. Advance(i) /\ Op(i) # "return" => Op(i)' = NextOp(i)
    BY <1>1, <2>1, Advanced
  <2>5. CASE Attach(i) \/ Load(i)
    BY <1>1, <1>3, <2>2, <2>4, <2>5, <2>1
       DEF Attach, Load, Succeeds, At, Follows, Op, NextOp, Unanswered, Before
  <2>6. CASE Raise(i)
    <3>1. Op(i) \in {"load", "call"} /\ Advance(i) /\ thread[i] \in pending'
      BY <2>1, <2>6 DEF Raise, At, NeedsNoException
    <3>2. NextOp(i) \in {"test", "check"}
      BY <2>2, <3>1 DEF Follows, Op, NextOp
    <3>3. QED
      BY <1>1, <1>3, <2>4, <3>1, <3>2 DEF Unanswered, Before
  <2>7. CASE Invoke(i)
    BY <2>1, <2>7 DEF Invoke, Succeeds, At, IInv, TypeOK
  <2>8. CASE Check(i)
    <3>1. Op(i) = "check" /\ Advance(i) /\ thread[i] \in pending
      BY <2>3, <2>8, <1>1 DEF Check, At, Unanswered, Before
    <3>2. "exception" \in held'[i]
      BY <2>8, <3>1 DEF Check, CheckException, ToGlobalRef, IInv, TypeOK
    <3>3. NextOp(i) \in {"global", "return"}
      BY <2>2, <3>1 DEF Follows, Op, NextOp
    <3>4. QED
      BY <1>1, <1>3, <2>4, <3>1, <3>2, <3>3 DEF Unanswered
  <2>9. CASE Test(i)
    <3>1. Op(i) = "test"
      BY <2>9 DEF Test, At
    <3>2. CASE found[i]
      <4>1. Advance(i) /\ NextOp(i) \in Before
        BY <2>2, <2>9, <3>1, <3>2 DEF Test, Follows, Op, NextOp, Before
      <4>2. QED
        BY <1>1, <1>3, <2>4, <3>1, <4>1 DEF Unanswered
    <3>3. CASE ~ found[i]
      <4>1. thread[i] \in pending
        BY <2>2, <3>1, <3>3 DEF StepInv, FrameInv
      <4>2. "exception" \in held'[i]
        BY <2>9, <3>3, <4>1 DEF Test, CheckException, ToGlobalRef, IInv, TypeOK
      <4>3. Op(i)' = "return"
        BY <1>1, <2>2, <2>9, <3>1, <3>3 DEF Test, Op, IInv, TypeOK
      <4>4. QED
        BY <1>1, <1>3, <4>2, <4>3 DEF Unanswered
    <3>4. QED
      BY <3>2, <3>3
  <2>10. CASE GlobalResult(i)
    <3>1. Op(i) = "global" /\ Advance(i) /\ "exception" \in held[i]
      BY <1>1, <2>3, <2>10 DEF GlobalResult, At, Unanswered, Before
    <3>2. held' = held
      BY <2>10, <3>1 DEF GlobalResult
    <3>3. QED
      BY <1>1, <1>3, <2>2, <2>4, <3>1, <3>2 DEF Unanswered
  <2>11. QED
    BY <2>1, <2>5, <2>6, <2>7, <2>8, <2>9, <2>10
       DEF CStep, ReadTable, LookUp, MakeGlobal, Describe, Details, Succeeds, At
<1>4. QED
  BY <1>1, <1>2, <1>3 DEF Unanswered

\* What BusyInv says of one call.
Busy(c) ==
  /\ stage[c] \in {"making", "calling", "resolving", "testing"} =>
       fn[Caller[c]] # None \/ held[Caller[c]] # {}
  /\ stage[c] = "calling" /\ coroutine[c] = "none" => Unanswered(Caller[c])
  /\ stage[c] = "awaiting" => coroutine[c] # "none"

(* A call whose method is not executed and does not begin to wait. *)
LEMMA IdleBusy ==
  ASSUME SInv, NEW c \in Call, stage'[c] = stage[c], stage[c] \notin Active,
         coroutine'[c] = coroutine[c] \/ coroutine'[c] # "none"
  PROVE  Busy(c)'
BY DEF SInv, BusyInv, Busy, Active

(* A call whose isolate is left alone. *)
LEMMA SameBusy ==
  ASSUME SInv, NEW c \in Call, stage'[c] = stage[c],
         coroutine'[c] = coroutine[c] \/ coroutine'[c] # "none",
         thread'[Caller[c]] = thread[Caller[c]], fn'[Caller[c]] = fn[Caller[c]],
         pc'[Caller[c]] = pc[Caller[c]], held'[Caller[c]] = held[Caller[c]],
         thread[Caller[c]] \in pending => thread[Caller[c]] \in pending'
  PROVE  Busy(c)'
<1>1. Op(Caller[c])' = Op(Caller[c])
  BY DEF Op
<1>2. Unanswered(Caller[c]) => Unanswered(Caller[c])'
  BY <1>1 DEF Unanswered
<1>3. QED
  BY <1>2 DEF SInv, BusyInv, Busy

(* Of the calls of an isolate one at most is executed. *)
LEMMA OneActive ==
  ASSUME SInv, NEW c \in Call, stage[c] \in Active
  PROVE  current[Caller[c]] = c /\ thread[Caller[c]] # None
BY DEF SInv, STypeOK, MethodInv

(* The method of c begins a function. *)
LEMMA ProceedBusy ==
  ASSUME SInv, NEW c \in Call, Start(c) \/ CallKotlin(c) \/ CheckType(c)
  PROVE  BusyInv'
<1>1. PICK s \in {"making", "calling", "resolving", "testing"}, f \in Function :
        /\ Proceed(c, s, f)
        /\ s = "calling" => f \in {"callMethod", "generatedMethod"}
  BY DEF Start, CallKotlin, CheckType, Function
<1>2. /\ stage' = [stage EXCEPT ![c] = s] /\ fn' = [fn EXCEPT ![Caller[c]] = f]
      /\ pc' = [pc EXCEPT ![Caller[c]] = 1]
      /\ UNCHANGED <<thread, held, pending>> /\ coroutine' = coroutine
  BY <1>1 DEF Proceed, Begin, Start, CallKotlin, CheckType
<1>3. current[Caller[c]] \in {None, c}
  BY OneActive DEF Start, CallKotlin, CheckType, Active
<1>4. ASSUME NEW d \in Call, d # c PROVE Busy(d)'
  <2>1. CASE stage[d] \in Active
    <3>1. Caller[d] # Caller[c]
      BY <1>3, <1>4, <2>1, OneActive
    <3>2. QED
      BY <1>2, <1>4, <3>1, SameBusy DEF SInv, STypeOK, TypeOK
  <2>2. CASE stage[d] \notin Active
    BY <1>2, <1>4, <2>2, IdleBusy DEF SInv, STypeOK
  <2>3. QED
    BY <2>1, <2>2
<1>5. Busy(c)'
  <2>1. stage'[c] = s /\ fn'[Caller[c]] = f /\ pc'[Caller[c]] = 1 /\ f # None
    BY <1>2 DEF SInv, STypeOK, TypeOK
  <2>2. s = "calling" => Op(Caller[c])' = "attach"
    BY <1>1, <2>1 DEF Op, Code, callMethod, generatedMethod
  <2>3. s = "calling" => Unanswered(Caller[c])'
    BY <1>1, <2>1, <2>2 DEF Unanswered, Before
  <2>4. QED
    BY <2>1, <2>3 DEF Busy
<1>6. QED
  BY <1>4, <1>5 DEF BusyInv, Busy

(* C goes on for a method, or another event is handled. *)
LEMMA CBusy ==
  ASSUME SInv, NEW i \in Isolate, SCStep(i)
  PROVE  BusyInv'
<1>1. CStep(i) /\ IInv /\ UNCHANGED stage
  BY DEF SCStep, SInv
<1>2. \A c \in Call : coroutine'[c] = coroutine[c] \/ coroutine'[c] # "none"
  BY DEF SCStep, SInv, STypeOK
<1>3. ASSUME NEW c \in Call, Caller[c] # i PROVE Busy(c)'
  <2>1. CASE stage[c] \in Active
    <3>1. thread[Caller[c]] # None /\ thread[Caller[c]] # thread[i] /\ thread[Caller[c]] \in Thread
      <4>1. Caller[c] \in Isolate
        BY SuspendAssumption
      <4>2. thread[Caller[c]] # None
        BY <2>1, OneActive
      <4>3. QED
        BY <1>1, <1>3, <4>1, <4>2 DEF IInv, TypeOK, Apart
    <3>2. QED
      BY <1>1, <1>2, <1>3, <3>1, CStepFrame, SameBusy
  <2>2. CASE stage[c] \notin Active
    BY <1>1, <1>2, <2>2, IdleBusy
  <2>3. QED
    BY <2>1, <2>2
<1>4. ASSUME NEW c \in Call, Caller[c] = i PROVE Busy(c)'
  <2>1. CASE stage[c] \in Active
    <3>1. fn'[i] # None
      BY <1>1, CStepFrame
    <3>2. ASSUME stage[c] = "calling", coroutine'[c] = "none" PROVE Unanswered(i)'
      <4>1. coroutine[c] = "none" /\ current[i] = c /\ c # None
        BY <1>2, <1>4, <2>1, <3>2, OneActive
      <4>2. ~ (Succeeds(i, {"call"}) /\ valid'[i])
        BY <3>2, <4>1 DEF SCStep, SInv, STypeOK
      <4>3. Unanswered(i)
        BY <1>4, <3>2, <4>1 DEF SInv, BusyInv
      <4>4. QED
        BY <1>1, <4>2, <4>3, UnansweredStep
    <3>3. QED
      BY <1>1, <1>2, <1>4, <2>1, <3>1, <3>2 DEF Busy, Active
  <2>2. CASE stage[c] \notin Active
    BY <1>1, <1>2, <2>2, IdleBusy
  <2>3. QED
    BY <2>1, <2>2
<1>5. QED
  BY <1>3, <1>4 DEF BusyInv, Busy

(* A function ends, and with it a stage of the method. *)
LEMMA EndBusy ==
  ASSUME SInv, NEW i \in Isolate, SReturn(i) \/ SThrow(i)
  PROVE  BusyInv'
<1>1. /\ fn' = [fn EXCEPT ![i] = None] /\ UNCHANGED <<thread, pc, pending>>
      /\ coroutine' = coroutine /\ fn[i] # None
      /\ \A j \in Isolate : j # i => held'[j] = held[j]
      /\ \A c \in Call : c # current[i] => stage'[c] = stage[c]
  BY DEF SReturn, SThrow, Return, Throw, At, svars, SInv, STypeOK, TypeOK
<1>2. ASSUME NEW c \in Call, c # current[i] PROVE Busy(c)'
  <2>1. CASE stage[c] \in Active
    <3>1. Caller[c] # i
      BY <1>2, <2>1, OneActive
    <3>2. QED
      BY <1>1, <1>2, <3>1, SameBusy DEF SInv, STypeOK, TypeOK
  <2>2. CASE stage[c] \notin Active
    BY <1>1, <1>2, <2>2, IdleBusy
  <2>3. QED
    BY <2>1, <2>2
<1>3. ASSUME NEW c \in Call, c = current[i] PROVE Busy(c)'
  <2>1. Caller[c] = i /\ stage[c] \in Active /\ current[i] # None
    BY <1>3 DEF SInv, STypeOK, MethodInv
  <2>2. stage[c] \in {"making", "calling", "resolving", "testing"}
    BY <1>1, <2>1 DEF SInv, PausedInv, Active
  <2>3. CASE SThrow(i)
    <3>1. stage'[c] = "threw"
      BY <1>3, <2>1, <2>3 DEF SThrow, SInv, STypeOK
    <3>2. QED
      BY <3>1 DEF Busy
  <2>4. CASE SReturn(i) /\ "exception" \in held[i]
    <3>1. held' = held /\ fn'[i] = None /\ stage' = stage
      BY <2>4 DEF SReturn, Return, svars, SInv, STypeOK, TypeOK
    <3>2. QED
      BY <1>1, <2>1, <2>2, <2>4, <3>1 DEF Busy, Unanswered
  <2>5. CASE SReturn(i) /\ "exception" \notin held[i]
    <3>1. Op(i) = "return"
      BY <2>5 DEF SReturn, Return, At
    <3>2. stage[c] = "calling" => coroutine[c] # "none"
      <4>1. SUFFICES ASSUME stage[c] = "calling", Unanswered(i) PROVE FALSE
        BY <2>1 DEF SInv, BusyInv
      <4>2. fn[i] = "throwException"
        BY <1>1, <2>5, <3>1, <4>1 DEF Unanswered, Before
      <4>3. Op(i) \in Describing \cup {"toString", "details", "throw"}
        BY <4>2, ThrowShape DEF Op, SInv, IInv, TypeOK
      <4>4. QED
        BY <3>1, <4>3 DEF Describing
    <3>3. stage'[c] \in {"made", "awaiting", "resolved", "done", "failed"}
          /\ (stage'[c] = "awaiting" => stage[c] = "calling")
      BY <1>3, <2>1, <2>2, <2>5 DEF SReturn, After, SInv, STypeOK
    <3>4. QED
      BY <1>1, <3>2, <3>3 DEF Busy
  <2>6. QED
    BY <2>3, <2>4, <2>5
<1>4. QED
  BY <1>2, <1>3 DEF BusyInv, Busy

(* Steps between two functions of a method. *)
LEMMA EventBusy ==
  ASSUME SInv, NEW i \in Isolate,
         \/ SPark(i) \/ SThrowException(i) \/ SRelease(i)
         \/ \E f \in Entry[i] : SEnter(i, f)
         \/ \E t \in Thread : SHandle(i, t)
  PROVE  BusyInv'
<1>1. /\ UNCHANGED <<stage, coroutine, held, pending>>
      /\ \A j \in Isolate : j # i => thread'[j] = thread[j] /\ fn'[j] = fn[j] /\ pc'[j] = pc[j]
  BY DEF SPark, SThrowException, SRelease, SEnter, SHandle, Park, ThrowException, Release,
     Enter, Handle, Begin, svars, SInv, STypeOK, TypeOK
<1>2. ASSUME NEW c \in Call PROVE Busy(c)'
  <2>1. CASE stage[c] \notin Active
    BY <1>1, <2>1, IdleBusy
  <2>2. CASE stage[c] \in Active /\ Caller[c] # i
    BY <1>1, <2>2, SameBusy
  <2>3. CASE stage[c] \in Active /\ Caller[c] = i
    <3>1. current[i] # None /\ thread[i] # None
      BY <2>3, OneActive
    <3>2. CASE SThrowException(i)
      <4>1. fn'[i] = "throwException"
        BY <3>2 DEF SThrowException, ThrowException, Begin, SInv, STypeOK, TypeOK
      <4>2. QED
        BY <1>1, <2>3, <4>1 DEF Busy, Unanswered, Active
    <3>3. CASE SRelease(i)
      <4>1. UNCHANGED <<thread, fn, pc>>
        BY <3>3 DEF SRelease, Release
      <4>2. QED
        BY <1>1, <4>1, SameBusy
    <3>4. QED
      BY <3>1, <3>2, <3>3 DEF SPark, SEnter, SHandle, Handle
  <2>4. QED
    BY <2>1, <2>2, <2>3
<1>3. QED
  BY <1>2 DEF BusyInv, Busy

(* The answer comes or is received, or an isolate ends. *)
LEMMA AnswerBusy ==
  ASSUME SInv,
         \/ \E c \in Call : \E a \in {"value", "failure"} : Resume(c, a)
         \/ \E c \in Call : \E t \in Thread : Receive(c, t)
         \/ \E i \in Isolate : Exit(i)
  PROVE  BusyInv'
<1>1. ASSUME NEW c \in Call, NEW a \in {"value", "failure"}, Resume(c, a) PROVE BusyInv'
  <2>1. UNCHANGED vars /\ stage' = stage
        /\ coroutine' = [coroutine EXCEPT ![c] = "resumed"]
    BY <1>1 DEF Resume
  <2>2. \A d \in Call : Busy(d)'
    BY <2>1, SameBusy DEF vars, SInv, STypeOK
  <2>3. QED
    BY <2>2 DEF BusyInv, Busy
<1>2. ASSUME NEW c \in Call, NEW t \in Thread, Receive(c, t) PROVE BusyInv'
  <2>1. /\ thread[Caller[c]] = None /\ thread' = [thread EXCEPT ![Caller[c]] = t]
        /\ UNCHANGED <<fn, pc, held, pending>> /\ coroutine' = coroutine
        /\ stage' = [stage EXCEPT ![c] = "received"]
    BY <1>2 DEF Receive, Handle
  <2>2. ASSUME NEW d \in Call, d # c PROVE Busy(d)'
    <3>1. CASE stage[d] \in Active
      <4>1. Caller[d] # Caller[c]
        BY <2>1, <3>1, OneActive
      <4>2. QED
        BY <2>1, <2>2, <4>1, SameBusy DEF SInv, STypeOK, TypeOK
    <3>2. CASE stage[d] \notin Active
      BY <2>1, <2>2, <3>2, IdleBusy DEF SInv, STypeOK
    <3>3. QED
      BY <3>1, <3>2
  <2>3. Busy(c)'
    BY <2>1 DEF Busy, SInv, STypeOK
  <2>4. QED
    BY <2>2, <2>3 DEF BusyInv, Busy
<1>3. ASSUME NEW i \in Isolate, Exit(i) PROVE BusyInv'
  <2>1. UNCHANGED vars /\ stage' = stage /\ coroutine' = coroutine
    BY <1>3 DEF Exit
  <2>2. \A d \in Call : Busy(d)'
    BY <2>1, SameBusy DEF vars
  <2>3. QED
    BY <2>2 DEF BusyInv, Busy
<1>4. QED
  BY <1>1, <1>2, <1>3

LEMMA SNextBusy ==
  ASSUME SInv, [SNext]_allVars
  PROVE  BusyInv'
<1>1. CASE UNCHANGED allVars
  <2>1. \A d \in Call : Busy(d)'
    BY <1>1, SameBusy DEF allVars, vars, svars
  <2>2. QED
    BY <2>1 DEF BusyInv, Busy
<1>2. QED
  BY <1>1, ProceedBusy, CBusy, EndBusy, EventBusy, AnswerBusy DEF SNext, Method

(* At rest no function of C is in progress, and no method is executed. *)
LEMMA RestIdle ==
  ASSUME SInv, AtRest, "freshLookup" \notin Adverse
  PROVE  \A i \in Isolate : thread[i] = None
<1>1. ASSUME NEW i \in Isolate PROVE fn[i] = None /\ held[i] = {}
  <2>1. CASE fn[i] # None
    <3>1. StepInv(i, thread[i])
      BY <2>1, AtStep DEF SInv
    <3>2. Op(i) = "table" => thread[i] \in attached
      BY <3>1 DEF StepInv, Without
    <3>3. Op(i) \in {"call", "new", "construct", "get", "set"} =>
            found[i] \/ thread[i] \in pending
      BY <3>1 DEF StepInv, FrameInv, Before
    <3>4. QED
      BY <2>1, <3>2, <3>3 DEF AtRest, GoesOn
  <2>2. CASE fn[i] = None
    BY <2>2 DEF AtRest, GoesOn
  <2>3. QED
    BY <2>1, <2>2
<1>2. ASSUME NEW i \in Isolate, thread[i] # None PROVE FALSE
  <2>1. Free(i) /\ current[i] # None
    BY <1>1, <1>2 DEF AtRest, Free
  <2>2. PICK c \in Call : c = current[i] /\ Caller[c] = i /\ stage[c] \in Active
    BY <2>1 DEF SInv, STypeOK, MethodInv
  <2>3. stage[c] \notin {"made", "received", "resolved"}
    BY <2>1, <2>2 DEF AtRest
  <2>4. stage[c] \notin {"making", "calling", "resolving", "testing"}
    BY <1>1, <2>2 DEF SInv, BusyInv
  <2>5. QED
    BY <2>2, <2>3, <2>4 DEF Active
<1>3. QED
  BY <1>2

LEMMA RestAnswered ==
  ASSUME SInv, "freshLookup" \notin Adverse
  PROVE  NoAnswerForgotten
<1>1. SUFFICES ASSUME AtRest, NEW c \in Call, stage[c] \notin {"idle"} \cup Finished,
                      Caller[c] \notin gone, coroutine[c] # "returned"
               PROVE  FALSE
  BY DEF NoAnswerForgotten
<1>2. \A i \in Isolate : thread[i] = None
  BY <1>1, RestIdle
<1>3. stage[c] = "awaiting"
  <2>1. stage[c] \notin Active
    BY <1>2, OneActive
  <2>2. QED
    BY <1>1, <2>1 DEF SInv, STypeOK, Stage, Finished, Active
<1>4. coroutine[c] = "resumed"
  BY <1>1, <1>3 DEF SInv, STypeOK, BusyInv, AtRest
<1>5. inbox[c] # None
  BY <1>1, <1>3, <1>4 DEF SInv, AnswerKept, DeliveryInv
<1>6. PICK t \in Thread : TRUE
  OBVIOUS
<1>7. t # None
  OBVIOUS
<1>8. QED
  BY <1>1, <1>2, <1>3, <1>5, <1>6, <1>7 DEF AtRest

-----------------------------------------------------------------------------
(* Refinement: every step is a step of a future, or stutters. *)

\* What a step must leave alone for the future of c to be the same.
SameCall(c) ==
  /\ Future(c)' = Future(c) /\ Replied(c)' = Replied(c)
  /\ coroutine'[c] = "resumed" <=> coroutine[c] = "resumed"

LEMMA SameStage ==
  ASSUME NEW c \in Call, stage'[c] = stage[c], answer'[c] = answer[c], inbox'[c] = inbox[c],
         coroutine'[c] = "resumed" <=> coroutine[c] = "resumed"
  PROVE  SameCall(c)
BY DEF SameCall, Future, Replied

LEMMA FutureStutters ==
  ASSUME gone' = gone, \A c \in Call : SameCall(c)
  PROVE  UNCHANGED Async!avars
BY DEF SameCall, Async!avars

LEMMA SInitRefines == SInit => Async!Init
BY DEF SInit, Async!Init, Future, Replied

(* The method begins or goes on; only the beginning is seen. *)
LEMMA MethodRefines ==
  ASSUME SInv, NEW c \in Call, Method(c)
  PROVE  [Async!Next]_(Async!avars)
<1>1. CASE Start(c)
  <2>1. /\ UNCHANGED <<answer, inbox, coroutine, gone>>
        /\ stage[c] = "idle" /\ stage' = [stage EXCEPT ![c] = "making"]
        /\ thread[Caller[c]] # None
    BY <1>1 DEF Start, Proceed, Free
  <2>2. Caller[c] \notin gone
    BY <2>1, ActiveAlive
  <2>3. \A d \in Call \ {c} : SameCall(d)
    BY <2>1, SameStage DEF SInv, STypeOK
  <2>4. Future(c) = "none" /\ Future(c)' = "pending" /\ Replied(c)' = Replied(c)
    BY <2>1 DEF SInv, STypeOK, Future, Replied
  <2>5. /\ [d \in Call |-> Future(d)]' = [[d \in Call |-> Future(d)] EXCEPT ![c] = "pending"]
        /\ [d \in Call |-> Replied(d)]' = [d \in Call |-> Replied(d)]
    BY <2>3, <2>4 DEF SameCall
  <2>6. Async!Begin(c)
    BY <2>1, <2>2, <2>4, <2>5 DEF Async!Begin, Async!Alive
  <2>7. QED
    BY <2>6 DEF Async!Next
<1>2. CASE CallKotlin(c) \/ CheckType(c)
  <2>1. /\ UNCHANGED <<answer, inbox, coroutine, gone>>
        /\ stage[c] \in {"made", "received", "resolved"}
        /\ \E s \in {"calling", "resolving", "testing"} : stage' = [stage EXCEPT ![c] = s]
    BY <1>2 DEF CallKotlin, CheckType, Proceed
  <2>2. \A d \in Call \ {c} : SameCall(d)
    BY <2>1, SameStage DEF SInv, STypeOK
  <2>3. SameCall(c)
    BY <2>1 DEF SInv, STypeOK, SameCall, Future, Replied
  <2>4. QED
    BY <2>1, <2>2, <2>3, FutureStutters
<1>3. ASSUME NEW t \in Thread, Receive(c, t) PROVE [Async!Next]_(Async!avars)
  <2>1. /\ UNCHANGED <<coroutine, gone>>
        /\ stage[c] = "awaiting" /\ inbox[c] # None
        /\ stage' = [stage EXCEPT ![c] = "received"]
        /\ answer' = [answer EXCEPT ![c] = inbox[c]]
        /\ inbox' = [inbox EXCEPT ![c] = None]
    BY <1>3 DEF Receive
  <2>2. answer[c] = None
    BY <2>1 DEF SInv, DeliveryInv
  <2>3. \A d \in Call \ {c} : SameCall(d)
    BY <2>1, SameStage DEF SInv, STypeOK
  <2>4. SameCall(c)
    BY <2>1, <2>2 DEF SInv, STypeOK, SameCall, Future, Replied
  <2>5. QED
    BY <2>1, <2>3, <2>4, FutureStutters
<1>4. QED
  BY <1>1, <1>2, <1>3 DEF Method

(* A coroutine replies to its future, whether or not the method awaits it. *)
LEMMA ResumeRefines ==
  ASSUME SInv, NEW c \in Call, NEW a \in {"value", "failure"}, Resume(c, a)
  PROVE  [Async!Next]_(Async!avars)
<1>1. /\ UNCHANGED <<stage, answer, gone>>
      /\ coroutine[c] = "suspended" /\ coroutine' = [coroutine EXCEPT ![c] = "resumed"]
      /\ inbox' = IF port[c] = "open" THEN [inbox EXCEPT ![c] = a] ELSE inbox
  BY DEF Resume
<1>2. answer[c] = None /\ inbox[c] = None /\ stage[c] # "idle"
  BY <1>1 DEF SInv, PortInv, CoroutineInv
<1>3. port[c] = "open" \/ Caller[c] \in gone
  BY <1>2 DEF SInv, PortInv
<1>4. Future(c) = "pending" => stage[c] \in Active \cup {"awaiting"}
  BY DEF SInv, STypeOK, Stage, Active, Future
<1>5. Future(c) # "none" /\ \A d \in Call : Future(d)' = Future(d)
  BY <1>1, <1>2 DEF Future
<1>6. \A d \in Call \ {c} : SameCall(d)
  BY <1>1, SameStage DEF SInv, STypeOK
<1>7. Replied(c)' = IF Future(c) = "pending" /\ Caller[c] \notin gone THEN a ELSE Replied(c)
  <2>1. CASE port[c] # "open"
    BY <1>1, <1>3, <2>1 DEF Replied
  <2>2. CASE port[c] = "open" /\ Caller[c] \in gone
    BY <2>2 DEF SInv, DeliveryInv
  <2>3. CASE port[c] = "open" /\ Caller[c] \notin gone
    BY <1>1, <1>2, <1>4, <2>3 DEF SInv, STypeOK, Replied, Future, DeliveryInv
  <2>4. QED
    BY <2>1, <2>2, <2>3
<1>8. /\ [d \in Call |-> Future(d)]' = [d \in Call |-> Future(d)]
      /\ [d \in Call |-> Replied(d)]' =
           IF Future(c) = "pending" /\ Caller[c] \notin gone
             THEN [[d \in Call |-> Replied(d)] EXCEPT ![c] = a]
             ELSE [d \in Call |-> Replied(d)]
      /\ {d \in Call : coroutine[d] = "resumed"}' = {d \in Call : coroutine[d] = "resumed"} \cup {c}
  BY <1>1, <1>5, <1>6, <1>7 DEF SInv, STypeOK, SameCall
<1>9. Async!Reply(c, a)
  BY <1>1, <1>5, <1>8 DEF Async!Reply, Async!Alive
<1>10. QED
  BY <1>9 DEF Async!Next

(* A function of C ends: the method completes its future, or fails, or goes on. *)
LEMMA EndRefines ==
  ASSUME SInv, NEW i \in Isolate, SReturn(i) \/ SThrow(i)
  PROVE  [Async!Next]_(Async!avars)
<1>1. UNCHANGED <<inbox, answer, coroutine, gone>> /\ fn[i] # None
  BY DEF SReturn, SThrow, Return, Throw, At, svars
<1>2. CASE UNCHANGED svars
  BY <1>2, SameStage, FutureStutters DEF svars
<1>3. CASE ~ UNCHANGED svars
  <2>1. PICK c \in Call : c = current[i] /\ Caller[c] = i /\ stage[c] \in Active
    BY <1>3 DEF SReturn, SThrow, SInv, STypeOK, MethodInv
  <2>2. Caller[c] \notin gone /\ Future(c) = "pending"
    BY <2>1, ActiveAlive DEF Active, Future
  <2>3. \E s \in Stage : stage' = [stage EXCEPT ![c] = s]
    BY <1>3, <2>1 DEF SReturn, SThrow, After, Stage, SInv, STypeOK
  <2>4. \A d \in Call \ {c} : SameCall(d)
    BY <1>1, <2>3, SameStage DEF SInv, STypeOK
  <2>5. CASE SReturn(i)
    <3>1. stage[c] \in {"making", "calling", "resolving", "testing"}
      BY <1>1, <1>3, <2>1 DEF SReturn, SThrow, SInv, STypeOK, MethodInv, PausedInv, Active
    <3>2. CASE stage[c] # "testing"
      <4>1. stage'[c] \in {"made", "awaiting", "resolved"}
        BY <1>3, <2>1, <2>5, <3>1, <3>2 DEF SReturn, After, SInv, STypeOK
      <4>2. SameCall(c)
        BY <1>1, <3>1, <4>1 DEF SameCall, Future, Replied
      <4>3. QED
        BY <1>1, <2>4, <4>2, FutureStutters
    <3>3. CASE stage[c] = "testing"
      <4>1. stage'[c] = IF answer[c] = "value" THEN "done" ELSE "failed"
        BY <1>3, <2>1, <2>5, <3>3 DEF SReturn, After, IsExpected, SInv, STypeOK
      <4>2. answer[c] \in {"value", "failure"} /\ Replied(c) = answer[c]
        BY <3>3 DEF SInv, STypeOK, DeliveryInv, Replied
      <4>3. Future(c)' = Replied(c) /\ Replied(c)' = Replied(c) /\ Replied(c) # None
        BY <1>1, <4>1, <4>2 DEF Future, Replied
      <4>4. /\ [d \in Call |-> Future(d)]' =
                 [[d \in Call |-> Future(d)] EXCEPT ![c] = Replied(c)]
            /\ [d \in Call |-> Replied(d)]' = [d \in Call |-> Replied(d)]
        BY <2>4, <4>3 DEF SameCall
      <4>5. Async!Complete(c)
        BY <1>1, <2>2, <4>3, <4>4 DEF Async!Complete, Async!Alive
      <4>6. QED
        BY <4>5 DEF Async!Next
    <3>4. QED
      BY <3>2, <3>3
  <2>6. CASE SThrow(i)
    <3>1. stage'[c] = "threw"
      BY <1>3, <2>1, <2>6 DEF SThrow, SInv, STypeOK
    <3>2. Future(c)' = "error" /\ Replied(c)' = None
      BY <3>1 DEF Future, Replied
    <3>3. /\ [d \in Call |-> Future(d)]' = [[d \in Call |-> Future(d)] EXCEPT ![c] = "error"]
          /\ [d \in Call |-> Replied(d)]' = [[d \in Call |-> Replied(d)] EXCEPT ![c] = None]
      BY <2>4, <3>2 DEF SameCall
    <3>4. Async!Fail(c)
      BY <1>1, <2>2, <3>3 DEF Async!Fail, Async!Alive
    <3>5. QED
      BY <3>4 DEF Async!Next
  <2>7. QED
    BY <2>5, <2>6
<1>4. QED
  BY <1>2, <1>3

(* The replies that wait for the futures of an isolate are lost with it. *)
LEMMA ExitRefines ==
  ASSUME SInv, NEW i \in Isolate, Exit(i)
  PROVE  [Async!Next]_(Async!avars)
<1>1. /\ UNCHANGED <<stage, answer, coroutine>> /\ gone' = gone \cup {i} /\ thread[i] = None
      /\ inbox' = [c \in Call |-> IF Caller[c] = i THEN None ELSE inbox[c]]
  BY DEF Exit, vars
<1>2. \A c \in Call : Future(c)' = Future(c)
  BY <1>1 DEF Future
<1>3. ASSUME NEW c \in Call
      PROVE  Replied(c)' = IF Caller[c] = i /\ Future(c) = "pending" THEN None ELSE Replied(c)
  <2>1. CASE Caller[c] # i
    BY <1>1, <2>1 DEF Replied
  <2>2. CASE Caller[c] = i
    <3>1. stage[c] \in {"idle", "awaiting", "done", "failed", "threw"}
      BY <1>1, <2>2 DEF SInv, STypeOK, Stage, MethodInv, Active
    <3>2. QED
      BY <1>1, <2>2, <3>1 DEF SInv, PortInv, CoroutineInv, DeliveryInv, Replied, Future
  <2>3. QED
    BY <2>1, <2>2
<1>4. /\ [c \in Call |-> Future(c)]' = [c \in Call |-> Future(c)]
      /\ [c \in Call |-> Replied(c)]' =
           [c \in Call |-> IF Caller[c] = i /\ Future(c) = "pending" THEN None ELSE Replied(c)]
  BY <1>2, <1>3
<1>5. Async!Exit(i)
  BY <1>1, <1>4 DEF Async!Exit
<1>6. QED
  BY <1>5 DEF Async!Next

LEMMA SNextRefines == SInv /\ [SNext]_allVars => [Async!Next]_(Async!avars)
<1> SUFFICES ASSUME SInv, [SNext]_allVars PROVE [Async!Next]_(Async!avars)
  OBVIOUS
<1>1. ASSUME UNCHANGED svars PROVE [Async!Next]_(Async!avars)
  BY <1>1, SameStage, FutureStutters DEF svars
<1>2. ASSUME NEW i \in Isolate, SCStep(i) PROVE [Async!Next]_(Async!avars)
  <2>1. UNCHANGED <<stage, inbox, answer, gone>>
    BY <1>2 DEF SCStep
  <2>2. \A c \in Call : coroutine'[c] = "resumed" <=> coroutine[c] = "resumed"
    <3>1. CASE UNCHANGED coroutine
      BY <3>1
    <3>2. CASE ~ UNCHANGED coroutine
      <4>1. PICK c \in Call, how \in {"suspended", "returned"} :
              /\ current[i] = c /\ stage[c] = "calling" /\ Succeeds(i, {"call"})
              /\ coroutine' = [coroutine EXCEPT ![c] = how]
        BY <1>2, <3>2 DEF SCStep, SInv, STypeOK
      <4>2. coroutine[c] = "none"
        BY <4>1 DEF SInv, STypeOK, MethodInv, CoroutineInv, Succeeds, At, Before
      <4>3. QED
        BY <4>1, <4>2 DEF SInv, STypeOK
    <3>3. QED
      BY <3>1, <3>2
  <2>3. QED
    BY <2>1, <2>2, SameStage, FutureStutters
<1>3. UNCHANGED allVars => UNCHANGED svars
  BY DEF allVars
<1>4. QED
  BY <1>1, <1>2, <1>3, MethodRefines, ResumeRefines, EndRefines, ExitRefines
     DEF SNext, SHandle, SPark, SEnter, SThrowException, SRelease

-----------------------------------------------------------------------------
(* Theorems. *)

LEMMA SInitInv == SInit => SInv
<1>. SUFFICES ASSUME SInit PROVE SInv
  OBVIOUS
<1>1. IInv
  BY InitInv DEF SInit
<1>2. STypeOK
  BY <1>1 DEF SInit, STypeOK, IInv, Stage
<1>3. MethodInv /\ PausedInv /\ CoroutineInv /\ BusyInv
  BY DEF SInit, MethodInv, PausedInv, CoroutineInv, BusyInv, Active
<1>4. PortInv /\ AnswerKept /\ DeliveryInv
  BY DEF SInit, Init, PortInv, AnswerKept, DeliveryInv
<1>5. QED
  BY <1>1, <1>2, <1>3, <1>4 DEF SInv

(* The inductive invariant of the composition, for any isolates, threads and   *)
(* calls, whether or not a suspend function suspends.                          *)
THEOREM SuspendInvariant == SSpec => []SInv
<1>1. SInv /\ [SNext]_allVars => SInv'
  BY SNextCalls, SNextTypes, SNextAnswers, SNextDelivery, SNextBusy DEF SInv, Answers
<1>2. QED
  BY <1>1, SInitInv, PTL DEF SSpec

(* Type correctness of the C functions and the async methods. *)
THEOREM SuspendTypes == SSpec => []STypeOK
<1>1. SInv => STypeOK
  BY DEF SInv
<1>2. QED
  BY <1>1, SuspendInvariant, PTL

(* What is shown of C functions also holds when async methods call them, each  *)
(* as long as nothing happens that it does not survive.                        *)
THEOREM SuspendSafe ==
  SSpec => [](/\ LocalsDeleted /\ NothingOverdrawn
              /\ "toStringThrows" \notin Adverse => NoPendingInDart
              /\ Adverse \subseteq {"ownConstructor"} => JniUsedLegally
              /\ Adverse \subseteq {"missingField", "freshLookup"} =>
                   ResultValid /\ NothingLost)
<1>. DEFINE Safe == /\ LocalsDeleted /\ NothingOverdrawn
                    /\ "toStringThrows" \notin Adverse => NoPendingInDart
                    /\ Adverse \subseteq {"ownConstructor"} => JniUsedLegally
                    /\ Adverse \subseteq {"missingField", "freshLookup"} =>
                         ResultValid /\ NothingLost
<1>1. SInv => Safe
  BY PendingProperty, LegalProperty, ResultProperty, LocalsProperty
     DEF SInv, IInv, Accounted, Without
<1>2. QED
  BY <1>1, SuspendInvariant, PTL

(* The answer of a coroutine is in the port or with the method that awaits it, *)
(* and its reference is not lost, unless the method failed or the isolate went.*)
THEOREM AnswerNotLost == SSpec => []AnswerKept
<1>1. SInv => AnswerKept
  BY DEF SInv
<1>2. QED
  BY <1>1, SuspendInvariant, PTL

(* When nothing can go on, every async method has completed, unless its isolate  *)
(* exited or the suspend function never suspended.  A lookup as the first use of *)
(* the JNI on a thread would stop its isolate.                                   *)
THEOREM AnswersAwaited ==
  ASSUME "freshLookup" \notin Adverse
  PROVE  SSpec => []NoAnswerForgotten
<1>1. SInv => NoAnswerForgotten
  BY RestAnswered
<1>2. QED
  BY <1>1, SuspendInvariant, PTL

(* Ports, continuations and the stages of the method are a future: it completes   *)
(* once, with what its coroutine is resumed with, whenever that is.                *)
THEOREM AsyncRefinement == SSpec => RefinesAsyncCall
<1>1. QED
  BY SInitRefines, SNextRefines, SuspendInvariant, PTL
     DEF SSpec, RefinesAsyncCall, Async!Spec

=============================================================================
