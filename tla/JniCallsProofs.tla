----------------------------- MODULE JniCallsProofs -----------------------------
(***************************************************************************)
(* Proofs about JniCalls, for any isolates and threads and any functions   *)
(* that the isolates call, whatever Adverse happens.                       *)
(***************************************************************************)
EXTENDS JniCalls, FiniteSetTheorems, SequenceTheorems, TLAPS

USE ConstantsAssumption

Program == Function \cup {"throwException"}

-----------------------------------------------------------------------------
(* The programs. *)

\* What the step at position k of program p is followed by.
Follows(p, k) ==
  /\ p[k] \notin {"return", "throw"} => k + 1 \in 1..Len(p)
  /\ p[k] = "table" => p[k + 1] = "attach"
  /\ p[k] = "attach" =>
       p[k + 1] \in {"find", "lookup", "load", "call", "get", "new", "copy"}
  /\ p[k] = "load" => p[k + 1] = "test"
  /\ p[k] = "test" => p[k + 1] \in {"load", "loadField", "call", "new", "construct"}
  /\ p[k] = "loadField" => p[k + 1] \in {"get", "set"}
  /\ p[k] \in {"find", "lookup", "set"} => p[k + 1] = "check" /\ p[k + 2] = "return"
  /\ p[k] \in {"call", "new", "get", "construct"} =>
       p[k + 1] = "check" /\ p[k + 2] = "global"
  /\ p[k] = "check" => p[k + 1] \in {"global", "return"}
  /\ p[k] = "global" =>
       \/ p[k + 1] = "return"
       \/ p[k + 1] = "check" /\ p[k + 2] = "return"
  /\ p[k] = "copy" => p[k + 1] = "return"
  /\ p[k] = "toString" => p[k + 1] = "buffer"
  /\ p[k] = "buffer" => p[k + 1] = "printStream"
  /\ p[k] = "printStream" => p[k + 1] = "print"
  /\ p[k] = "print" => p[k + 1] = "contents"
  /\ p[k] = "contents" => p[k + 1] = "details"
  /\ p[k] = "details" => p[k + 1] = "throw"

\* A program of C: where it begins and ends.
Bounded(p) ==
  /\ Len(p) \in Nat \ {0}
  /\ p[Len(p)] = "return"
  /\ p[1] \in {"attach", "table"}
  /\ \A k \in 1..Len(p) : Follows(p, k)

\* Steps that only functions whose exception is fetched once have, and those
\* that only functions whose exception is fetched twice have.
Once == {"find", "lookup", "call", "new", "get", "set", "copy"}

Kept(p) == \A k \in 1..Len(p) : p[k] # "construct" /\ (p[k] = "global" => p[k + 1] = "return")
Doubled(p) == \A k \in 1..Len(p) : p[k] \notin Once

\* What holds of the program of a function of C.
Shape(f) ==
  /\ Bounded(Code(f))
  /\ Code(f)[1] = "table" => f \in Lookup
  /\ IF f \in TwiceChecked THEN Doubled(Code(f)) ELSE Kept(Code(f))

(* Programs that start by attaching and fetch their exception once. *)
LEMMA PlainShapes ==
  /\ Bounded(getClass) /\ Kept(getClass) /\ getClass[1] = "attach"
  /\ Bounded(callMethod) /\ Kept(callMethod) /\ callMethod[1] = "attach"
  /\ Bounded(getField) /\ Kept(getField) /\ getField[1] = "attach"
  /\ Bounded(newObject) /\ Kept(newObject) /\ newObject[1] = "attach"
  /\ Bounded(GetReference) /\ Kept(GetReference) /\ GetReference[1] = "attach"
<1>1. Bounded(getClass) /\ Kept(getClass) /\ getClass[1] = "attach"
  BY DEF Bounded, Follows, Kept, getClass
<1>2. Bounded(callMethod) /\ Kept(callMethod) /\ callMethod[1] = "attach"
  BY DEF Bounded, Follows, Kept, callMethod
<1>3. Bounded(getField) /\ Kept(getField) /\ getField[1] = "attach"
  BY DEF Bounded, Follows, Kept, getField
<1>4. Bounded(newObject) /\ Kept(newObject) /\ newObject[1] = "attach"
  BY DEF Bounded, Follows, Kept, newObject
<1>5. Bounded(GetReference) /\ Kept(GetReference) /\ GetReference[1] = "attach"
  BY DEF Bounded, Follows, Kept, GetReference
<1>6. QED
  BY <1>1, <1>2, <1>3, <1>4, <1>5

(* Programs that load a class and a member first. *)
LEMMA LoadingShapes ==
  /\ Bounded(PortProxy__newInstance) /\ Kept(PortProxy__newInstance)
  /\ PortProxy__newInstance[1] = "attach"
  /\ Bounded(generatedMethod) /\ Kept(generatedMethod)
  /\ generatedMethod[1] = "attach"
  /\ Bounded(generatedConstructor) /\ Kept(generatedConstructor)
  /\ generatedConstructor[1] = "attach"
  /\ Bounded(generatedGetter) /\ Kept(generatedGetter)
  /\ generatedGetter[1] = "attach"
  /\ Bounded(generatedSetter) /\ Kept(generatedSetter)
  /\ generatedSetter[1] = "attach"
<1>1. Bounded(PortProxy__newInstance) /\ Kept(PortProxy__newInstance)
      /\ PortProxy__newInstance[1] = "attach"
  BY DEF Bounded, Follows, Kept, PortProxy__newInstance
<1>2. Bounded(generatedMethod) /\ Kept(generatedMethod)
      /\ generatedMethod[1] = "attach"
  BY DEF Bounded, Follows, Kept, generatedMethod
<1>3. Bounded(generatedConstructor) /\ Kept(generatedConstructor)
      /\ generatedConstructor[1] = "attach"
  BY DEF Bounded, Follows, Kept, generatedConstructor
<1>4. Bounded(generatedGetter) /\ Kept(generatedGetter)
      /\ generatedGetter[1] = "attach"
  BY DEF Bounded, Follows, Kept, generatedGetter
<1>5. Bounded(generatedSetter) /\ Kept(generatedSetter)
      /\ generatedSetter[1] = "attach"
  BY DEF Bounded, Follows, Kept, generatedSetter
<1>6. QED
  BY <1>1, <1>2, <1>3, <1>4, <1>5

LEMMA FunctionShape ==
  ASSUME NEW f \in Function
  PROVE  Shape(f)
<1>1. CASE f \in {"getClass"}
  BY <1>1, PlainShapes DEF Shape, Code, TwiceChecked
<1>2. CASE f \in {"callMethod", "callStaticMethod", "getArrayElement", "globalEnv"}
  BY <1>2, PlainShapes
     DEF Shape, Code, TwiceChecked, callStaticMethod, getArrayElement, globalEnv
<1>3. CASE f \in {"getField", "getStaticField"}
  BY <1>3, PlainShapes DEF Shape, Code, TwiceChecked, getStaticField
<1>4. CASE f \in {"newObject", "newPrimitiveArray", "newObjectArray"}
  BY <1>4, PlainShapes DEF Shape, Code, TwiceChecked, newPrimitiveArray, newObjectArray
<1>5. CASE f = "GetReference"
  BY <1>5, PlainShapes DEF Shape, Code, TwiceChecked
<1>6. CASE f \in Lookup
  <2>1. Bounded(getMethodID) /\ Kept(getMethodID)
    BY DEF Bounded, Follows, Kept, getMethodID
  <2>2. QED
    BY <1>6, <2>1 DEF Lookup, Shape, Code, TwiceChecked, getStaticMethodID, getFieldID,
                      getStaticFieldID
<1>7. CASE f \in TwiceChecked
  <2>1. Bounded(DartException__ctor) /\ Doubled(DartException__ctor)
        /\ DartException__ctor[1] = "attach"
    BY DEF Bounded, Follows, Doubled, Once, DartException__ctor
  <2>2. QED
    BY <1>7, <2>1 DEF TwiceChecked, Shape, Code, PortContinuation__ctor
<1>8. CASE f = "PortProxy__newInstance"
  BY <1>8, LoadingShapes DEF Shape, Code, TwiceChecked
<1>9. CASE f = "generatedMethod"
  BY <1>9, LoadingShapes DEF Shape, Code, TwiceChecked
<1>10. CASE f = "generatedConstructor"
  BY <1>10, LoadingShapes DEF Shape, Code, TwiceChecked
<1>11. CASE f = "generatedGetter"
  BY <1>11, LoadingShapes DEF Shape, Code, TwiceChecked
<1>12. CASE f = "generatedSetter"
  BY <1>12, LoadingShapes DEF Shape, Code, TwiceChecked
<1>13. QED
  BY <1>1, <1>2, <1>3, <1>4, <1>5, <1>6, <1>7, <1>8, <1>9, <1>10, <1>11, <1>12
     DEF Function, Lookup, TwiceChecked

(* The details of an exception are collected one after the other. *)
LEMMA ThrowShape ==
  /\ Len(Code("throwException")) = 7
  /\ Code("throwException")[1] = "toString"
  /\ \A k \in 1..7 : Follows(Code("throwException"), k)
  /\ \A k \in 1..7 : Code("throwException")[k] \in
       Describing \cup {"toString", "details", "throw"}
<1>1. QED
  BY DEF Code, throwException, Follows, Describing

-----------------------------------------------------------------------------
(* What a C function holds. *)

LEMMA HeldSizes ==
  /\ Cardinality({}) = 0
  /\ Cardinality({"result"}) = 1
  /\ Cardinality({"exception"}) = 1
  /\ Cardinality({"message", "stacktrace"}) = 2
  /\ Cardinality({"exception", "message", "stacktrace"}) = 3
  /\ IsFiniteSet({"exception", "message", "stacktrace"})
<1>1. Cardinality({}) = 0 /\ IsFiniteSet({})
  BY FS_EmptySet
<1>2. \A a : Cardinality({a}) = 1 /\ IsFiniteSet({a})
  BY FS_Singleton
<1>3. Cardinality({"message", "stacktrace"}) = 2 /\ IsFiniteSet({"message", "stacktrace"})
  <2>1. {"message", "stacktrace"} = {"message"} \cup {"stacktrace"}
    OBVIOUS
  <2>2. "stacktrace" \notin {"message"}
    OBVIOUS
  <2>3. Cardinality({"message"}) = 1 /\ IsFiniteSet({"message"})
    BY <1>2
  <2>4. /\ IsFiniteSet({"message"} \cup {"stacktrace"})
        /\ Cardinality({"message"} \cup {"stacktrace"}) = Cardinality({"message"}) + 1
    BY <2>2, <2>3, FS_AddElement
  <2>5. QED
    BY <2>1, <2>3, <2>4
<1>4. /\ Cardinality({"exception", "message", "stacktrace"}) = 3
      /\ IsFiniteSet({"exception", "message", "stacktrace"})
  <2>1. {"exception", "message", "stacktrace"}
          = {"message", "stacktrace"} \cup {"exception"}
    OBVIOUS
  <2>2. QED
    BY <1>3, <2>1, FS_AddElement
<1>5. QED
  BY <1>1, <1>2, <1>3, <1>4

(* What getExceptionDetails adds to the exception, as far as it has got it. *)
LEMMA DescribedSizes ==
  ASSUME NEW M \in {{}, {"message"}}, NEW S \in {{}, {"stacktrace"}}
  PROVE  /\ Cardinality(M \cup S) \in Nat
         /\ Cardinality({"exception"} \cup (M \cup S)) = 1 + Cardinality(M \cup S)
<1>1. IsFiniteSet(M \cup S)
  BY FS_EmptySet, FS_Singleton, FS_Union
<1>2. "exception" \notin M \cup S
  OBVIOUS
<1>3. {"exception"} \cup (M \cup S) = (M \cup S) \cup {"exception"}
  OBVIOUS
<1>4. Cardinality(M \cup S) \in Nat
  BY <1>1, FS_CardinalityType
<1>5. QED
  BY <1>1, <1>2, <1>3, <1>4, FS_AddElement

-----------------------------------------------------------------------------
(* One step of C. *)

(* What the invariant says of a function in progress, and of its next step. *)
LEMMA AtStep ==
  ASSUME IInv, NEW i \in Isolate, fn[i] # None
  PROVE  /\ fn[i] \in Program
         /\ thread[i] \in Thread
         /\ pc[i] \in Nat
         /\ pc[i] \in 1..Len(Code(fn[i]))
         /\ StepInv(i, thread[i])
         /\ Follows(Code(fn[i]), pc[i])
         /\ Op(i) \in Once => fn[i] \notin TwiceChecked
         /\ Op(i) = "construct" => fn[i] \in TwiceChecked
         /\ Op(i) = "global" /\ fn[i] \notin TwiceChecked => NextOp(i) = "return"
         /\ Op(i) = "test" =>
              /\ Len(Code(fn[i])) \in 1..Len(Code(fn[i]))
              /\ Code(fn[i])[Len(Code(fn[i]))] = "return"
<1>1. /\ fn[i] \in Program
      /\ thread[i] \in Thread
      /\ pc[i] \in Nat
      /\ pc[i] \in 1..Len(Code(fn[i]))
      /\ StepInv(i, thread[i])
  BY DEF IInv, TypeOK, Program, IsolateInv
<1>2. CASE fn[i] \in Function
  <2>1. Shape(fn[i])
    BY <1>2, FunctionShape
  <2>2. QED
    BY <1>1, <2>1 DEF Shape, Bounded, Kept, Doubled, Op, NextOp
<1>3. CASE fn[i] = "throwException"
  <2>1. Follows(Code(fn[i]), pc[i]) /\ Op(i) \in Describing \cup {"toString", "details", "throw"}
    BY <1>1, <1>3, ThrowShape DEF Op
  <2>2. QED
    BY <1>1, <2>1 DEF Describing, Once
<1>4. QED
  BY <1>1, <1>2, <1>3 DEF Program

(* A function that advances comes to its next step. *)
LEMMA Advanced ==
  ASSUME IInv, NEW i \in Isolate, fn[i] # None, Advance(i), Op(i) \notin {"return", "throw"}
  PROVE  /\ fn' = fn /\ thread' = thread /\ owned' = owned
         /\ pc' = [pc EXCEPT ![i] = pc[i] + 1]
         /\ pc'[i] \in 1..Len(Code(fn[i]))
         /\ Op(i)' = NextOp(i)
         /\ NextOp(i)' = Code(fn[i])[pc[i] + 2]
<1>1. /\ pc[i] \in Nat
      /\ Follows(Code(fn[i]), pc[i])
  BY AtStep
<1>2. pc \in [Isolate -> Nat]
  BY DEF IInv, TypeOK
<1>3. QED
  BY <1>1, <1>2 DEF Advance, Op, NextOp, Follows

(* Steps that end before the call of Java. *)
LEMMA PreparingSteps ==
  ASSUME IInv, NEW i \in Isolate, Attach(i) \/ ReadTable(i) \/ Load(i)
  PROVE  StepInv(i, thread[i])'
<1>1. fn[i] # None /\ Advance(i) /\ Op(i) \in {"attach", "table", "load", "loadField"}
  BY DEF Attach, ReadTable, Load, Succeeds, At
<1>2. /\ StepInv(i, thread[i]) /\ thread[i] \in Thread
      /\ Follows(Code(fn[i]), pc[i])
  BY <1>1, AtStep
<1>3. fn' = fn /\ thread' = thread /\ Op(i)' = NextOp(i)
  BY <1>1, Advanced
<1>4. /\ NextOp(i) \in Before \ {"table"}
      /\ NextOp(i) = "test" => Load(i)
  BY <1>1, <1>2 DEF Follows, Op, NextOp, Before, Load, Succeeds, At, Attach, ReadTable
<1>5. UNCHANGED <<pending, locals, valid, held>> /\ attached \subseteq attached'
      /\ found \in [Isolate -> BOOLEAN]
  BY DEF Attach, ReadTable, Load, IInv, TypeOK
<1>6. held[i] = {} /\ Clean(thread[i]) /\ (~ found[i] => thread[i] \in pending)
  BY <1>1, <1>2 DEF StepInv, FrameInv, Before
<1>7. /\ thread[i] \in attached'
      /\ found[i] => found'[i]
      /\ Load(i) => found'[i] /\ thread[i] \notin pending
  <2>1. CASE Attach(i)
    BY <1>2, <2>1 DEF Attach, At, Load, Succeeds
  <2>2. CASE ReadTable(i)
    BY <1>1, <1>2, <2>2 DEF ReadTable, At, Load, Succeeds
  <2>3. CASE Load(i)
    <3>1. Op(i) \in NeedsEnv \ {"table"}
      BY <2>3 DEF Load, Succeeds, At, NeedsEnv, NeedsNoException
    <3>2. QED
      BY <1>2, <1>5, <2>3, <3>1 DEF StepInv, FrameInv, Load, Succeeds
  <2>4. QED
    BY <2>1, <2>2, <2>3
<1>8. FrameInv(i, thread[i])'
  BY <1>3, <1>4, <1>5, <1>6, <1>7 DEF FrameInv, Before, Clean, Describing
<1>9. PendingInv(i, thread[i]) => PendingInv(i, thread[i])'
  BY <1>1, <1>3, <1>4, <1>5 DEF PendingInv, Before, Describing
<1>10. PendingInv(i, thread[i]) /\ FoundInv(i, thread[i]) => FoundInv(i, thread[i])'
  BY <1>1, <1>3, <1>5, <1>7 DEF FoundInv, PendingInv
<1>11. ResultInv(i, thread[i])'
  BY <1>3, <1>4 DEF ResultInv, Before
<1>12. QED
  BY <1>2, <1>3, <1>4, <1>8, <1>9, <1>10, <1>11 DEF StepInv, Without

(* A call of the JNI that raises, before the function has its result. *)
LEMMA RaiseBefore ==
  ASSUME IInv, NEW i \in Isolate, Raise(i), Op(i) \in Before
  PROVE  StepInv(i, thread[i])'
<1>1. /\ fn[i] # None /\ Advance(i)
      /\ Op(i) \in {"find", "copy", "lookup", "load", "loadField", "call", "new",
                    "construct", "get", "set"}
  BY DEF Raise, At, Before, NeedsNoException
<1>2. /\ StepInv(i, thread[i]) /\ thread[i] \in Thread
      /\ Follows(Code(fn[i]), pc[i])
      /\ Op(i) \in Once => fn[i] \notin TwiceChecked
      /\ pc[i] \in Nat
  BY <1>1, AtStep
<1>3. fn' = fn /\ thread' = thread /\ Op(i)' = NextOp(i) /\ NextOp(i)' = Code(fn[i])[pc[i] + 2]
  BY <1>1, Advanced
<1>4. /\ NextOp(i) \in {"check", "test", "get", "set", "return"}
      /\ NextOp(i) = "check" /\ Op(i) # "construct" => fn[i] \notin TwiceChecked
      /\ NextOp(i) \in {"get", "set"} => Op(i) = "loadField"
      /\ NextOp(i) = "return" => Op(i) = "copy"
  BY <1>1, <1>2 DEF Follows, Op, NextOp, Once
<1>5. UNCHANGED <<attached, locals, held>> /\ thread[i] \in pending' /\ ~ found'[i]
  BY DEF Raise, IInv, TypeOK
<1>6. held[i] = {} /\ Clean(thread[i]) /\ thread[i] \in attached
  BY <1>1, <1>2 DEF StepInv, FrameInv, NeedsEnv, NeedsNoException
<1>7. Op(i) \in Raising \/ thread[i] \in pending
  BY DEF Raise
<1>8. FrameInv(i, thread[i])'
  BY <1>3, <1>4, <1>5, <1>6 DEF FrameInv, Before, Clean, Describing
<1>9. PendingInv(i, thread[i]) => Op(i) # "copy" /\ PendingInv(i, thread[i])'
  BY <1>3, <1>4, <1>5, <1>7 DEF PendingInv, Raising, Describing
<1>10. Without({"missingField"}) /\ PendingInv(i, thread[i]) /\ FoundInv(i, thread[i]) =>
         FoundInv(i, thread[i])'
  BY <1>3, <1>4, <1>5, <1>7, <1>9 DEF PendingInv, FoundInv, Raising, Without
<1>11. Without({"ownConstructor"}) /\ PendingInv(i, thread[i]) => ResultInv(i, thread[i])'
  BY <1>1, <1>3, <1>4, <1>5, <1>6, <1>7, <1>9 DEF PendingInv, ResultInv, Raising, Without
<1>12. QED
  BY <1>2, <1>3, <1>4, <1>8, <1>9, <1>10, <1>11 DEF StepInv, Without

(* A call of the JNI that raises while an exception is described: only if the  *)
(* methods of the exception throw.                                             *)
LEMMA RaiseDescribing ==
  ASSUME IInv, NEW i \in Isolate, Raise(i), Op(i) \in Describing \cup {"toString"}
  PROVE  StepInv(i, thread[i])'
<1>1. fn[i] # None /\ Advance(i) /\ Op(i) \in NeedsNoException
  BY DEF Raise, At
<1>2. /\ StepInv(i, thread[i]) /\ thread[i] \in Thread
      /\ Follows(Code(fn[i]), pc[i])
  BY <1>1, AtStep
<1>3. fn' = fn /\ thread' = thread /\ Op(i)' = NextOp(i)
  BY <1>1, Advanced DEF Describing
<1>4. NextOp(i) \in Describing \cup {"details"}
  BY <1>2 DEF Follows, Op, NextOp, Describing
<1>5. UNCHANGED <<attached, locals, held>>
  BY DEF Raise
<1>6. /\ held[i] = {"exception"} /\ thread[i] \in attached
      /\ locals[thread[i]] \subseteq {"toString", "buffer", "printStream"}
  BY <1>1, <1>2 DEF StepInv, FrameInv, NeedsEnv, Clean, Describing
<1>7. FrameInv(i, thread[i])'
  BY <1>3, <1>4, <1>5, <1>6 DEF FrameInv, Before, Describing
<1>8. ~ Without({"toStringThrows"})
  <2>1. SUFFICES ASSUME Without({"toStringThrows"}) PROVE FALSE
    OBVIOUS
  <2>2. thread[i] \notin pending
    BY <1>2, <2>1 DEF StepInv, PendingInv, Describing
  <2>3. QED
    BY <2>1, <2>2 DEF Raise, Raising, Without, Describing
<1>9. QED
  BY <1>3, <1>4, <1>7, <1>8 DEF StepInv, Without, Describing

LEMMA RaiseStep ==
  ASSUME IInv, NEW i \in Isolate, Raise(i)
  PROVE  StepInv(i, thread[i])'
BY RaiseBefore, RaiseDescribing DEF Raise, At, NeedsNoException, Before, Describing

(* A call of the JNI that succeeds in what the function is for. *)
LEMMA CallingSteps ==
  ASSUME IInv, NEW i \in Isolate, LookUp(i) \/ MakeGlobal(i) \/ Invoke(i)
  PROVE  StepInv(i, thread[i])'
<1>1. /\ fn[i] # None /\ Advance(i) /\ thread[i] \notin pending
      /\ Op(i) \in {"lookup", "find", "copy", "call", "new", "construct", "get", "set"}
  BY DEF LookUp, MakeGlobal, Invoke, Succeeds, At
<1>2. /\ StepInv(i, thread[i]) /\ thread[i] \in Thread
      /\ Follows(Code(fn[i]), pc[i])
      /\ Op(i) \in Once => fn[i] \notin TwiceChecked
  BY <1>1, AtStep
<1>3. fn' = fn /\ thread' = thread /\ Op(i)' = NextOp(i) /\ NextOp(i)' = Code(fn[i])[pc[i] + 2]
  BY <1>1, Advanced
<1>4. held[i] = {} /\ Clean(thread[i]) /\ thread[i] \in attached
  BY <1>1, <1>2 DEF StepInv, FrameInv, Before, NeedsEnv, NeedsNoException
<1>5. UNCHANGED <<attached, pending, found>> /\ valid'[i]
  BY DEF LookUp, MakeGlobal, Invoke, IInv, TypeOK
<1>6. Op(i)' \in {"check", "return"}
  BY <1>1, <1>2, <1>3 DEF Follows, Op, NextOp
<1>7. FrameInv(i, thread[i])' /\ held'[i] \subseteq {"result"}
  <2>1. CASE LookUp(i)
    <3>1. Op(i)' = "check" /\ NextOp(i)' = "return" /\ UNCHANGED <<held, locals>>
      BY <1>2, <1>3, <2>1 DEF LookUp, Succeeds, At, Follows, Op, NextOp
    <3>2. QED
      BY <1>1, <1>3, <1>4, <1>5, <3>1 DEF FrameInv, Before, Clean, Describing
  <2>2. CASE MakeGlobal(i)
    <3>1. \/ Op(i)' = "check" /\ NextOp(i)' = "return"
          \/ Op(i)' = "return"
      BY <1>2, <1>3, <2>2 DEF MakeGlobal, Succeeds, At, Follows, Op, NextOp
    <3>2. held'[i] = {"result"} /\ UNCHANGED locals
      BY <1>4, <2>2 DEF MakeGlobal, IInv, TypeOK
    <3>3. QED
      BY <1>1, <1>3, <1>4, <1>5, <3>1, <3>2 DEF FrameInv, Before, Clean, Describing
  <2>3. CASE Invoke(i)
    <3>1. /\ Op(i)' = "check"
          /\ Op(i) = "set" => NextOp(i)' = "return"
          /\ Op(i) # "set" => NextOp(i)' = "global"
      BY <1>2, <1>3, <2>3 DEF Invoke, Succeeds, At, Follows, Op, NextOp
    <3>2. /\ UNCHANGED held
          /\ locals'[thread[i]] \subseteq {"result", "buffer", "printStream"}
          /\ Op(i) = "set" => Clean(thread[i])'
      BY <1>2, <1>3, <1>4, <2>3 DEF Invoke, IInv, TypeOK, Clean
    <3>3. QED
      BY <1>1, <1>3, <1>4, <1>5, <3>1, <3>2 DEF FrameInv, Before, Describing
  <2>4. QED
    BY <2>1, <2>2, <2>3
<1>8. PendingInv(i, thread[i])' /\ ResultInv(i, thread[i])' /\ FoundInv(i, thread[i])'
  BY <1>1, <1>3, <1>5, <1>6, <1>7 DEF PendingInv, ResultInv, FoundInv, Describing
<1>9. QED
  BY <1>6, <1>7, <1>8 DEF StepInv, Without

(* getExceptionDetails collects what it needs. *)
LEMMA DescribeStep ==
  ASSUME IInv, NEW i \in Isolate, Describe(i)
  PROVE  StepInv(i, thread[i])'
<1>1. /\ fn[i] # None /\ Advance(i) /\ thread[i] \notin pending
      /\ Op(i) \in {"toString", "buffer", "printStream", "print", "contents"}
  BY DEF Describe, Succeeds, At
<1>2. /\ StepInv(i, thread[i]) /\ thread[i] \in Thread
      /\ Follows(Code(fn[i]), pc[i])
  BY <1>1, AtStep
<1>3. fn' = fn /\ thread' = thread /\ Op(i)' = NextOp(i)
  BY <1>1, Advanced
<1>4. /\ held[i] = {"exception"} /\ thread[i] \in attached
      /\ locals[thread[i]] \subseteq {"toString", "buffer", "printStream"}
  BY <1>1, <1>2 DEF StepInv, FrameInv, Describing, NeedsEnv, NeedsNoException, Clean
<1>5. UNCHANGED <<attached, pending, found, held>>
  BY DEF Describe
<1>6. locals'[thread[i]] = IF Op(i) = "print" THEN locals[thread[i]]
                             ELSE locals[thread[i]] \cup {Op(i)}
  BY <1>2 DEF Describe, IInv, TypeOK
<1>7. /\ Op(i)' \in Describing \cup {"details"}
      /\ Op(i)' = "details" <=> Op(i) = "contents"
  BY <1>1, <1>2, <1>3 DEF Follows, Op, NextOp, Describing
<1>8. FrameInv(i, thread[i])'
  BY <1>1, <1>3, <1>4, <1>5, <1>6, <1>7 DEF FrameInv, Before, Describing
<1>9. PendingInv(i, thread[i]) => PendingInv(i, thread[i])'
  BY <1>1, <1>3, <1>5, <1>6, <1>7 DEF PendingInv, Describing
<1>10. FoundInv(i, thread[i]) => FoundInv(i, thread[i])'
  BY <1>1, <1>3, <1>5, <1>7 DEF FoundInv
<1>11. ResultInv(i, thread[i])'
  BY <1>3, <1>7 DEF ResultInv, Describing
<1>12. QED
  BY <1>2, <1>3, <1>7, <1>8, <1>9, <1>10, <1>11 DEF StepInv, Without, Describing

(* The exception of a call is fetched, a first or a second time. *)
LEMMA CheckStep ==
  ASSUME IInv, NEW i \in Isolate, Check(i)
  PROVE  StepInv(i, thread[i])'
<1>1. fn[i] # None /\ Advance(i) /\ Op(i) = "check"
  BY DEF Check, At
<1>2. /\ StepInv(i, thread[i]) /\ thread[i] \in Thread
      /\ Follows(Code(fn[i]), pc[i])
  BY <1>1, AtStep
<1>3. fn' = fn /\ thread' = thread /\ Op(i)' = NextOp(i)
  BY <1>1, Advanced
<1>4. NextOp(i) \in {"global", "return"}
  BY <1>1, <1>2 DEF Follows, Op, NextOp
<1>5. UNCHANGED <<attached, found, valid>> /\ thread[i] \in attached
  BY <1>1, <1>2 DEF Check, StepInv, FrameInv, NeedsEnv
<1>6. thread[i] \notin pending'
  BY <1>2 DEF Check, CheckException
<1>7. CASE thread[i] \in pending
  <2>1. held[i] = {} /\ Clean(thread[i])
    BY <1>1, <1>2, <1>7 DEF StepInv, FrameInv
  <2>2. held'[i] = {"exception"} /\ locals'[thread[i]] \subseteq locals[thread[i]]
    BY <1>2, <1>7, <2>1 DEF Check, CheckException, ToGlobalRef, IInv, TypeOK
  <2>3. FrameInv(i, thread[i])' /\ PendingInv(i, thread[i])' /\ FoundInv(i, thread[i])'
    BY <1>3, <1>4, <1>5, <1>6, <2>1, <2>2
       DEF FrameInv, PendingInv, FoundInv, Before, Clean, Describing
  <2>4. ResultInv(i, thread[i]) => ResultInv(i, thread[i])'
    BY <1>1, <1>3, <1>4, <1>7, <2>2 DEF ResultInv
  <2>5. QED
    BY <1>2, <1>3, <1>4, <2>3, <2>4 DEF StepInv, Without
<1>8. CASE thread[i] \notin pending
  <2>1. /\ held[i] \in {{}, {"result"}, {"exception"}}
        /\ NextOp(i) = "global" => held[i] = {}
        /\ locals[thread[i]] \subseteq {"result", "buffer", "printStream"}
        /\ NextOp(i) = "return" => Clean(thread[i])
    BY <1>1, <1>2, <1>8 DEF StepInv, FrameInv
  <2>2. held'[i] = held[i] \ {"exception"} /\ UNCHANGED <<locals, pending>>
    BY <1>8 DEF Check, CheckException, IInv, TypeOK
  <2>3. held'[i] \in {{}, {"result"}} /\ (NextOp(i) = "global" => held'[i] = {})
    BY <2>1, <2>2
  <2>4. FrameInv(i, thread[i])' /\ PendingInv(i, thread[i])' /\ FoundInv(i, thread[i])'
    BY <1>3, <1>4, <1>5, <1>6, <2>1, <2>2, <2>3
       DEF FrameInv, PendingInv, FoundInv, Before, Clean, Describing
  <2>5. ResultInv(i, thread[i]) => ResultInv(i, thread[i])'
    BY <1>1, <1>3, <1>4, <1>5, <1>8, <2>3 DEF ResultInv
  <2>6. QED
    BY <1>2, <1>3, <1>4, <2>4, <2>5 DEF StepInv, Without
<1>9. QED
  BY <1>7, <1>8

(* A lookup has succeeded, or its exception is returned at once. *)
LEMMA TestStep ==
  ASSUME IInv, NEW i \in Isolate, Test(i)
  PROVE  StepInv(i, thread[i])'
<1>1. fn[i] # None /\ Op(i) = "test"
  BY DEF Test, At
<1>2. /\ StepInv(i, thread[i]) /\ thread[i] \in Thread
      /\ Follows(Code(fn[i]), pc[i]) /\ pc[i] \in Nat
      /\ Code(fn[i])[Len(Code(fn[i]))] = "return"
  BY <1>1, AtStep
<1>3. /\ held[i] = {} /\ Clean(thread[i]) /\ thread[i] \in attached
      /\ found[i] <=> thread[i] \notin pending
  BY <1>1, <1>2 DEF StepInv, FrameInv, Before, NeedsEnv
<1>4. UNCHANGED <<attached, found, valid>>
  BY DEF Test
<1>5. CASE found[i]
  <2>1. Advance(i) /\ UNCHANGED <<pending, locals, held>>
    BY <1>5 DEF Test
  <2>2. fn' = fn /\ thread' = thread /\ Op(i)' = NextOp(i)
    BY <1>1, <2>1, Advanced
  <2>3. NextOp(i) \in {"load", "loadField", "call", "new", "construct"}
    BY <1>1, <1>2 DEF Follows, Op, NextOp
  <2>4. /\ FrameInv(i, thread[i])' /\ PendingInv(i, thread[i])'
        /\ FoundInv(i, thread[i])' /\ ResultInv(i, thread[i])'
    BY <1>3, <1>4, <1>5, <2>1, <2>2, <2>3
       DEF FrameInv, PendingInv, FoundInv, ResultInv, Before, Clean, Describing
  <2>5. QED
    BY <2>2, <2>3, <2>4 DEF StepInv
<1>6. CASE ~ found[i]
  <2>1. fn' = fn /\ thread' = thread /\ Op(i)' = "return"
    BY <1>2, <1>6 DEF Test, Op, IInv, TypeOK
  <2>2. /\ held'[i] = {"exception"}
        /\ locals'[thread[i]] \subseteq locals[thread[i]]
        /\ thread[i] \notin pending'
    BY <1>2, <1>3, <1>6 DEF Test, CheckException, ToGlobalRef, IInv, TypeOK
  <2>3. /\ FrameInv(i, thread[i])' /\ PendingInv(i, thread[i])'
        /\ FoundInv(i, thread[i])' /\ ResultInv(i, thread[i])'
    BY <1>3, <1>4, <2>1, <2>2
       DEF FrameInv, PendingInv, FoundInv, ResultInv, Before, Clean, Describing
  <2>4. QED
    BY <2>1, <2>3 DEF StepInv
<1>7. QED
  BY <1>5, <1>6

(* The result becomes a global reference. *)
LEMMA GlobalResultStep ==
  ASSUME IInv, NEW i \in Isolate, GlobalResult(i)
  PROVE  StepInv(i, thread[i])'
<1>1. fn[i] # None /\ Advance(i) /\ Op(i) = "global"
  BY DEF GlobalResult, At
<1>2. /\ StepInv(i, thread[i]) /\ thread[i] \in Thread
      /\ Follows(Code(fn[i]), pc[i]) /\ pc[i] \in Nat
      /\ fn[i] \notin TwiceChecked => NextOp(i) = "return"
  BY <1>1, AtStep
<1>3. fn' = fn /\ thread' = thread /\ Op(i)' = NextOp(i) /\ NextOp(i)' = Code(fn[i])[pc[i] + 2]
  BY <1>1, Advanced
<1>4. \/ Op(i)' = "return"
      \/ Op(i)' = "check" /\ NextOp(i)' = "return" /\ fn[i] \in TwiceChecked
  BY <1>1, <1>2, <1>3 DEF Follows, Op, NextOp
<1>5. /\ UNCHANGED <<attached, pending, found, valid>>
      /\ thread[i] \in attached /\ thread[i] \notin pending
      /\ held[i] \subseteq {"exception"}
      /\ locals[thread[i]] \subseteq {"result", "buffer", "printStream"}
      /\ held[i] = {"exception"} => Clean(thread[i])
  BY <1>1, <1>2 DEF GlobalResult, StepInv, FrameInv, NeedsEnv
<1>6. CASE held[i] = {"exception"}
  <2>1. UNCHANGED <<held, locals>> /\ Clean(thread[i])
    BY <1>5, <1>6 DEF GlobalResult
  <2>2. FrameInv(i, thread[i])' /\ PendingInv(i, thread[i])' /\ FoundInv(i, thread[i])'
    BY <1>3, <1>4, <1>5, <1>6, <2>1
       DEF FrameInv, PendingInv, FoundInv, Before, Clean, Describing
  <2>3. ResultInv(i, thread[i]) => ResultInv(i, thread[i])'
    BY <1>1, <1>3, <1>4, <1>5, <1>6, <2>1 DEF ResultInv
  <2>4. QED
    BY <1>2, <1>4, <2>2, <2>3 DEF StepInv, Without
<1>7. CASE held[i] = {}
  <2>1. held'[i] \in {{}, {"result"}} /\ Clean(thread[i])'
    BY <1>2, <1>3, <1>5, <1>7 DEF GlobalResult, ToGlobalRef, Clean, IInv, TypeOK
  <2>2. FrameInv(i, thread[i])' /\ PendingInv(i, thread[i])' /\ FoundInv(i, thread[i])'
    BY <1>3, <1>4, <1>5, <2>1 DEF FrameInv, PendingInv, FoundInv, Before, Clean, Describing
  <2>3. ResultInv(i, thread[i]) => ResultInv(i, thread[i])'
    BY <1>1, <1>3, <1>4, <1>5, <1>7, <2>1 DEF ResultInv
  <2>4. QED
    BY <1>2, <1>4, <2>2, <2>3 DEF StepInv, Without
<1>8. QED
  BY <1>5, <1>6, <1>7

(* The message and the stack trace become global references. *)
LEMMA DetailsStep ==
  ASSUME IInv, NEW i \in Isolate, Details(i)
  PROVE  StepInv(i, thread[i])'
<1>1. fn[i] # None /\ Advance(i) /\ Op(i) = "details"
  BY DEF Details, At
<1>2. /\ StepInv(i, thread[i]) /\ thread[i] \in Thread
      /\ Follows(Code(fn[i]), pc[i])
  BY <1>1, AtStep
<1>3. fn' = fn /\ thread' = thread /\ Op(i)' = "throw"
  BY <1>1, <1>2, Advanced DEF Follows, Op, NextOp
<1>4. /\ held[i] = {"exception"}
      /\ locals[thread[i]] \subseteq {"toString", "contents", "buffer", "printStream"}
  BY <1>1, <1>2 DEF StepInv, FrameInv
<1>5. /\ "exception" \in held'[i]
      /\ held'[i] \subseteq {"exception", "message", "stacktrace"}
      /\ Clean(thread[i])'
      /\ UNCHANGED <<pending, found>>
  BY <1>2, <1>3, <1>4 DEF Details, ToGlobalRef, Clean, IInv, TypeOK
<1>6. FrameInv(i, thread[i])'
  BY <1>3, <1>5 DEF FrameInv, Before, Describing, NeedsEnv, NeedsNoException
<1>7. PendingInv(i, thread[i]) => PendingInv(i, thread[i])'
  <2>1. ASSUME {"toString", "contents"} \subseteq locals[thread[i]]
        PROVE  held'[i] = {"exception", "message", "stacktrace"}
    BY <1>2, <1>4, <2>1 DEF Details, ToGlobalRef, IInv, TypeOK
  <2>2. QED
    BY <1>1, <1>3, <1>5, <2>1 DEF PendingInv, Describing
<1>8. FoundInv(i, thread[i]) => FoundInv(i, thread[i])'
  BY <1>1, <1>3, <1>5 DEF FoundInv
<1>9. ResultInv(i, thread[i])'
  BY <1>3 DEF ResultInv
<1>10. QED
  BY <1>2, <1>3, <1>6, <1>7, <1>8, <1>9 DEF StepInv, Without

(* A step of C concerns its isolate and its thread only. *)
LEMMA CStepFrame ==
  ASSUME IInv, NEW i \in Isolate, CStep(i)
  PROVE  /\ fn[i] # None
         /\ UNCHANGED <<thread, fn, owned>>
         /\ attached \subseteq attached'
         /\ \A t \in Thread : t # thread[i] =>
              locals'[t] = locals[t] /\ (t \in pending' <=> t \in pending)
         /\ \A j \in Isolate : j # i =>
              /\ pc'[j] = pc[j] /\ found'[j] = found[j] /\ valid'[j] = valid[j]
              /\ held'[j] = held[j] /\ globals'[j] = globals[j]
<1>. USE DEF IInv, TypeOK
<1>1. CASE Attach(i)
  BY <1>1 DEF Attach, At, Advance
<1>2. CASE ReadTable(i)
  BY <1>2 DEF ReadTable, At, Advance
<1>3. CASE Raise(i)
  BY <1>3 DEF Raise, At, Advance
<1>4. CASE Load(i)
  BY <1>4 DEF Load, Succeeds, At, Advance
<1>5. CASE LookUp(i)
  BY <1>5 DEF LookUp, Succeeds, At, Advance
<1>6. CASE MakeGlobal(i)
  BY <1>6 DEF MakeGlobal, Succeeds, At, Advance
<1>7. CASE Invoke(i)
  BY <1>7 DEF Invoke, Succeeds, At, Advance
<1>8. CASE Describe(i)
  BY <1>8 DEF Describe, Succeeds, At, Advance
<1>9. CASE Check(i)
  BY <1>9 DEF Check, CheckException, ToGlobalRef, At, Advance
<1>10. CASE Test(i)
  BY <1>10 DEF Test, CheckException, ToGlobalRef, At, Advance
<1>11. CASE GlobalResult(i)
  BY <1>11 DEF GlobalResult, ToGlobalRef, At, Advance
<1>12. CASE Details(i)
  BY <1>12 DEF Details, ToGlobalRef, At, Advance
<1>13. QED
  BY <1>1, <1>2, <1>3, <1>4, <1>5, <1>6, <1>7, <1>8, <1>9, <1>10, <1>11, <1>12 DEF CStep

(* A step of C goes to a step of the program. *)
LEMMA CStepCounter ==
  ASSUME IInv, NEW i \in Isolate, CStep(i)
  PROVE  pc' \in [Isolate -> Nat] /\ pc'[i] \in 1..Len(Code(fn[i]))
<1>1. CASE Test(i) /\ ~ Advance(i)
  <2>1. Op(i) = "test" /\ fn[i] # None
    BY <1>1 DEF Test, At
  <2>2. Len(Code(fn[i])) \in 1..Len(Code(fn[i]))
    BY <2>1, AtStep
  <2>3. QED
    BY <1>1, <2>2 DEF Test, IInv, TypeOK
<1>2. CASE Advance(i)
  <2>1. fn[i] # None /\ Op(i) \notin {"return", "throw"}
    BY DEF CStep, Attach, ReadTable, Raise, Load, LookUp, MakeGlobal, Invoke, Describe,
           Check, Test, GlobalResult, Details, Succeeds, At, NeedsNoException
  <2>2. pc'[i] \in 1..Len(Code(fn[i]))
    BY <1>2, <2>1, Advanced
  <2>3. QED
    BY <1>2, <2>2 DEF Advance, IInv, TypeOK
<1>3. QED
  BY <1>1, <1>2 DEF CStep, Attach, ReadTable, Raise, Load, LookUp, MakeGlobal, Invoke,
                    Describe, Check, GlobalResult, Details

(* A step of C makes at least as many global references as it takes hold of,   *)
(* and just as many unless it drops the exception of a constructor.            *)
LEMMA CStepAccount ==
  ASSUME IInv, NEW i \in Isolate, CStep(i)
  PROVE  /\ held' \in [Isolate -> SUBSET GlobalName]
         /\ globals' \in [Isolate -> Nat]
         /\ globals'[i] >= Cardinality(held'[i]) + owned[i]
         /\ Without({"toStringThrows", "ownConstructor"}) =>
              globals'[i] = Cardinality(held'[i]) + owned[i]
<1>. USE DEF GlobalName
<1>. DEFINE Exact == Without({"toStringThrows", "ownConstructor"})
<1>0. /\ globals[i] >= Cardinality(held[i]) + owned[i]
      /\ Exact => globals[i] = Cardinality(held[i]) + owned[i]
      /\ held \in [Isolate -> SUBSET GlobalName]
      /\ globals \in [Isolate -> Nat] /\ owned \in [Isolate -> Nat]
  BY DEF IInv, TypeOK, Accounted, NothingOverdrawn, NothingLost
<1>. HIDE DEF Exact
<1>1. CASE UNCHANGED <<held, globals>>
  BY <1>0, <1>1 DEF Exact
<1>2. ASSUME globals' \in [Isolate -> Nat],
             Cardinality(held[i]) \in Nat,
             Cardinality(held'[i]) \in Nat,
             Cardinality(held'[i]) + globals[i] <= Cardinality(held[i]) + globals'[i],
             Exact =>
               Cardinality(held'[i]) + globals[i] = Cardinality(held[i]) + globals'[i]
      PROVE  /\ globals'[i] >= Cardinality(held'[i]) + owned[i]
             /\ Exact => globals'[i] = Cardinality(held'[i]) + owned[i]
  <2>1. globals[i] \in Nat /\ owned[i] \in Nat /\ globals'[i] \in Nat
    BY <1>0, <1>2
  <2>2. QED
    BY <1>0, <1>2, <2>1
<1>3. CASE MakeGlobal(i)
  <2>1. held[i] = {}
    BY <1>3, AtStep DEF MakeGlobal, Succeeds, At, StepInv, FrameInv, Before
  <2>2. /\ held' \in [Isolate -> SUBSET GlobalName] /\ held'[i] = {"result"}
        /\ globals' = [globals EXCEPT ![i] = globals[i] + 1]
    BY <1>0, <1>3, <2>1 DEF MakeGlobal
  <2>3. globals' \in [Isolate -> Nat] /\ globals'[i] = globals[i] + 1 /\ globals[i] \in Nat
    BY <1>0, <2>2
  <2>4. QED
    BY <1>2, <2>1, <2>2, <2>3, HeldSizes DEF Exact
<1>4. CASE (Check(i) \/ Test(i)) /\ CheckException(i)
  <2>1. fn[i] # None /\ Op(i) \in {"check", "test"}
    BY <1>4 DEF Check, Test, At
  <2>2. StepInv(i, thread[i])
    BY <2>1, AtStep
  <2>3. CASE thread[i] \in pending
    <3>1. held[i] = {}
      BY <2>1, <2>2, <2>3 DEF StepInv, FrameInv, Before
    <3>2. /\ held' \in [Isolate -> SUBSET GlobalName] /\ held'[i] = {"exception"}
          /\ globals' = [globals EXCEPT ![i] = globals[i] + 1]
      BY <1>0, <1>4, <2>3, <3>1, HeldSizes DEF CheckException, ToGlobalRef
    <3>3. globals' \in [Isolate -> Nat] /\ globals'[i] = globals[i] + 1 /\ globals[i] \in Nat
      BY <1>0, <3>2
    <3>4. QED
      BY <1>2, <3>1, <3>2, <3>3, HeldSizes DEF Exact
  <2>4. CASE thread[i] \notin pending
    <3>1. /\ held[i] \in {{}, {"result"}, {"exception"}}
          /\ Exact => held[i] # {"exception"}
      BY <2>1, <2>2 DEF StepInv, FrameInv, ResultInv, Before, Exact
    <3>2. /\ held' \in [Isolate -> SUBSET GlobalName]
          /\ held'[i] = held[i] \ {"exception"}
          /\ globals' = globals /\ globals[i] \in Nat
      BY <1>0, <1>4, <2>4 DEF CheckException
    <3>3. CASE held[i] = {"exception"}
      <4>1. held'[i] = {} /\ ~ Exact
        BY <3>1, <3>2, <3>3
      <4>2. /\ Cardinality(held[i]) = 1 /\ Cardinality(held'[i]) = 0
            /\ globals' \in [Isolate -> Nat] /\ globals'[i] = globals[i]
        BY <1>0, <3>2, <3>3, <4>1, HeldSizes
      <4>3. QED
        BY <1>2, <3>2, <4>1, <4>2 DEF Exact
    <3>4. CASE held[i] \in {{}, {"result"}}
      <4>1. held'[i] = held[i] /\ Cardinality(held[i]) \in Nat
        BY <3>2, <3>4, HeldSizes
      <4>2. QED
        BY <1>0, <1>2, <3>2, <4>1 DEF Exact
    <3>5. QED
      BY <3>1, <3>3, <3>4
  <2>5. QED
    BY <2>3, <2>4
<1>5. CASE GlobalResult(i) /\ ~ UNCHANGED <<held, globals>>
  <2>1. /\ fn[i] # None /\ Op(i) = "global" /\ "exception" \notin held[i]
        /\ ToGlobalRef(i, {"result"}, {"result"})
    BY <1>5 DEF GlobalResult, At
  <2>2. held[i] = {}
    BY <2>1, AtStep DEF StepInv, FrameInv
  <2>3. /\ held' \in [Isolate -> SUBSET GlobalName] /\ held'[i] = {"result"}
        /\ globals' = [globals EXCEPT ![i] = globals[i] + 1]
    BY <1>0, <2>1, <2>2, HeldSizes DEF ToGlobalRef
  <2>4. globals' \in [Isolate -> Nat] /\ globals'[i] = globals[i] + 1 /\ globals[i] \in Nat
    BY <1>0, <2>3
  <2>5. QED
    BY <1>2, <2>2, <2>3, <2>4, HeldSizes DEF Exact
<1>6. CASE Details(i)
  <2>1. fn[i] # None /\ Op(i) = "details"
    BY <1>6 DEF Details, At
  <2>2. held[i] = {"exception"}
    BY <2>1, AtStep DEF StepInv, FrameInv
  <2>. DEFINE M == IF "toString" \in locals[thread[i]] THEN {"message"} ELSE {}
              S == IF "contents" \in locals[thread[i]] THEN {"stacktrace"} ELSE {}
  <2>3. M \in {{}, {"message"}} /\ S \in {{}, {"stacktrace"}}
    OBVIOUS
  <2>4. /\ Cardinality(M \cup S) \in Nat
        /\ Cardinality({"exception"} \cup (M \cup S)) = 1 + Cardinality(M \cup S)
    BY <2>3, DescribedSizes
  <2>5. /\ held' = [held EXCEPT ![i] = {"exception"} \cup (M \cup S)]
        /\ globals' = [globals EXCEPT ![i] = globals[i] + Cardinality(M \cup S)]
    BY <1>6, <2>2 DEF Details, ToGlobalRef
  <2>6. {"exception"} \cup (M \cup S) \in SUBSET GlobalName
    OBVIOUS
  <2>. HIDE DEF M, S
  <2>7. /\ held' \in [Isolate -> SUBSET GlobalName]
        /\ held'[i] = {"exception"} \cup (M \cup S)
        /\ globals' \in [Isolate -> Nat] /\ globals[i] \in Nat
        /\ globals'[i] = globals[i] + Cardinality(M \cup S)
    BY <1>0, <2>4, <2>5, <2>6
  <2>8. Cardinality(held[i]) = 1
    BY <2>2, HeldSizes
  <2>9. /\ Cardinality(held'[i]) = Cardinality(held[i]) + Cardinality(M \cup S)
        /\ Cardinality(held'[i]) \in Nat
    BY <2>4, <2>7, <2>8
  <2>10. QED
    BY <1>2, <2>4, <2>7, <2>8, <2>9 DEF Exact
<1>7. QED
  BY <1>1, <1>3, <1>4, <1>5, <1>6
     DEF CStep, Attach, ReadTable, Raise, Load, LookUp, Invoke, Describe, Check, Test, Exact

(* The other variables keep their types. *)
LEMMA CStepTypes ==
  ASSUME IInv, NEW i \in Isolate, CStep(i)
  PROVE  TypeOK'
<1>1. UNCHANGED <<thread, fn, owned>> /\ fn[i] # None /\ thread[i] \in Thread
  BY CStepFrame, AtStep
<1>2. attached' \in SUBSET Thread /\ pending' \in SUBSET Thread
  BY <1>1 DEF CStep, Attach, ReadTable, Raise, Load, LookUp, MakeGlobal, Invoke, Describe,
              Check, Test, GlobalResult, Details, CheckException, ToGlobalRef, IInv, TypeOK
<1>3. locals' \in [Thread -> SUBSET LocalName]
  <2>1. CASE Describe(i)
    BY <2>1, <1>1 DEF Describe, Succeeds, At, LocalName, IInv, TypeOK
  <2>2. CASE ~ Describe(i)
    BY <2>2, <1>1
       DEF CStep, Attach, ReadTable, Raise, Load, LookUp, MakeGlobal, Invoke, Check, Test,
           GlobalResult, Details, CheckException, ToGlobalRef, LocalName, IInv, TypeOK
  <2>3. QED
    BY <2>1, <2>2
<1>4. found' \in [Isolate -> BOOLEAN] /\ valid' \in [Isolate -> BOOLEAN]
  BY DEF CStep, Attach, ReadTable, Raise, Load, LookUp, MakeGlobal, Invoke, Describe,
         Check, Test, GlobalResult, Details, IInv, TypeOK
<1>5. \A j \in Isolate : fn'[j] # None => thread'[j] # None /\ pc'[j] \in 1..Len(Code(fn'[j]))
  <2>1. ASSUME NEW j \in Isolate, fn[j] # None
        PROVE  thread[j] # None /\ pc[j] \in 1..Len(Code(fn[j]))
    BY <2>1 DEF IInv, TypeOK
  <2>2. fn' = fn /\ thread' = thread
    BY <1>1
  <2>3. \A j \in Isolate : j # i => pc'[j] = pc[j]
    BY CStepFrame
  <2>4. pc'[i] \in 1..Len(Code(fn[i]))
    BY CStepCounter
  <2>5. QED
    BY <2>1, <2>2, <2>3, <2>4
<1>6. QED
  BY <1>1, <1>2, <1>3, <1>4, <1>5, CStepCounter, CStepAccount DEF IInv, TypeOK

(* The invariant of one isolate does not depend on the others. *)
LEMMA Undisturbed ==
  ASSUME IInv, NEW i \in Isolate, NEW j \in Isolate, j # i,
         thread[j] # thread[i] \/ thread[j] = None,
         thread'[j] = thread[j], fn'[j] = fn[j], pc'[j] = pc[j], found'[j] = found[j],
         valid'[j] = valid[j], held'[j] = held[j],
         attached \subseteq attached',
         \A t \in Thread : t # thread[i] =>
           locals'[t] = locals[t] /\ (t \in pending' <=> t \in pending)
  PROVE  IsolateInv(j)'
<1>1. CASE fn[j] = None
  BY <1>1 DEF IInv, IsolateInv, DartInv
<1>2. CASE fn[j] # None
  <2>1. thread[j] \in Thread /\ StepInv(j, thread[j])
    BY <1>2, AtStep
  <2>2. thread[j] # thread[i] /\ Op(j)' = Op(j) /\ NextOp(j)' = NextOp(j)
    BY <2>1 DEF Op, NextOp
  <2>3. StepInv(j, thread[j])'
    BY <2>1, <2>2 DEF StepInv, FrameInv, PendingInv, FoundInv, ResultInv, Clean
  <2>4. QED
    BY <1>2, <2>3 DEF IsolateInv
<1>3. QED
  BY <1>1, <1>2

(* C keeps the invariant. *)
LEMMA CStepInv ==
  ASSUME IInv, NEW i \in Isolate, CStep(i)
  PROVE  IInv'
<1>1. TypeOK'
  BY CStepTypes
<1>2. Apart' 
  BY CStepFrame DEF IInv, Apart
<1>3. StepInv(i, thread[i])'
  BY PreparingSteps, RaiseStep, CallingSteps, DescribeStep, CheckStep, TestStep,
     GlobalResultStep, DetailsStep DEF CStep
<1>4. ASSUME NEW j \in Isolate PROVE IsolateInv(j)'
  <2>1. CASE j = i
    BY <1>3, <2>1, CStepFrame DEF IsolateInv
  <2>2. CASE j # i
    <3>1. thread[j] # thread[i] \/ thread[j] = None
      BY <2>2 DEF IInv, Apart
    <3>2. QED
      BY <2>2, <3>1, CStepFrame, Undisturbed
  <2>3. QED
    BY <2>1, <2>2
<1>5. ASSUME NEW t \in Thread PROVE ThreadInv(t)'
  BY CStepFrame DEF IInv, ThreadInv, Clean
<1>6. NothingOverdrawn'
  <2>1. ASSUME NEW j \in Isolate PROVE globals'[j] >= Cardinality(held'[j]) + owned'[j]
    BY CStepFrame, CStepAccount DEF IInv, Accounted, NothingOverdrawn
  <2>2. QED
    BY <2>1 DEF NothingOverdrawn
<1>7. ASSUME Without({"toStringThrows", "ownConstructor"}) PROVE NothingLost'
  <2>1. ASSUME NEW j \in Isolate PROVE globals'[j] = Cardinality(held'[j]) + owned'[j]
    BY <1>7, CStepFrame, CStepAccount DEF IInv, Accounted, NothingLost
  <2>2. QED
    BY <2>1 DEF NothingLost
<1>8. QED
  BY <1>1, <1>2, <1>4, <1>5, <1>6, <1>7 DEF IInv, Accounted, Without

-----------------------------------------------------------------------------
(* Dart. *)

LEMMA InitInv == Init => IInv
<1>. SUFFICES ASSUME Init PROVE IInv
  OBVIOUS
<1>1. TypeOK
  BY DEF Init, TypeOK
<1>2. Apart /\ \A i \in Isolate : IsolateInv(i)
  BY DEF Init, Apart, IsolateInv, DartInv
<1>3. \A t \in Thread : ThreadInv(t)
  BY DEF Init, ThreadInv, Clean
<1>4. NothingLost /\ NothingOverdrawn
  BY HeldSizes DEF Init, NothingLost, NothingOverdrawn
<1>5. QED
  BY <1>1, <1>2, <1>3, <1>4 DEF IInv, Accounted

LEMMA HandleInv ==
  ASSUME IInv, NEW i \in Isolate, NEW t \in Thread, Handle(i, t)
  PROVE  IInv'
<1>1. fn[i] = None /\ held[i] = {}
  BY DEF Handle, IInv, TypeOK, IsolateInv, DartInv
<1>2. TypeOK'
  BY DEF Handle, IInv, TypeOK
<1>3. Apart'
  BY DEF Handle, IInv, TypeOK, Apart
<1>4. ASSUME NEW j \in Isolate PROVE IsolateInv(j)'
  <2>1. CASE j = i
    BY <1>1, <2>1 DEF Handle, IsolateInv, DartInv
  <2>2. CASE j # i
    BY <2>2, Undisturbed DEF Handle, IInv, TypeOK
  <2>3. QED
    BY <2>1, <2>2
<1>5. ASSUME NEW s \in Thread PROVE ThreadInv(s)'
  BY DEF Handle, IInv, TypeOK, ThreadInv, Clean, Without
<1>6. Accounted'
  BY DEF Handle, IInv, Accounted, NothingLost, NothingOverdrawn, Without
<1>7. QED
  BY <1>2, <1>3, <1>4, <1>5, <1>6 DEF IInv

LEMMA ParkInv ==
  ASSUME IInv, NEW i \in Isolate, Park(i)
  PROVE  IInv'
<1>1. fn[i] = None /\ held[i] = {} /\ thread[i] \in Thread
  BY DEF Park, Free, IInv, TypeOK
<1>2. TypeOK'
  BY <1>1 DEF Park, IInv, TypeOK
<1>3. Apart'
  BY DEF Park, IInv, TypeOK, Apart
<1>4. ASSUME NEW j \in Isolate PROVE IsolateInv(j)'
  <2>1. CASE j = i
    BY <1>1, <2>1 DEF Park, IsolateInv, DartInv
  <2>2. CASE j # i
    <3>1. thread[j] # thread[i] \/ thread[j] = None
      BY <2>2 DEF IInv, Apart
    <3>2. QED
      BY <2>2, <3>1, Undisturbed DEF Park, IInv, TypeOK
  <2>3. QED
    BY <2>1, <2>2
<1>5. ASSUME NEW s \in Thread PROVE ThreadInv(s)'
  BY <1>1 DEF Park, IInv, TypeOK, ThreadInv, Clean
<1>6. Accounted'
  BY DEF Park, IInv, Accounted, NothingLost, NothingOverdrawn, Without
<1>7. QED
  BY <1>2, <1>3, <1>4, <1>5, <1>6 DEF IInv

(* A function is called, by Dart code that is attached if it must be. *)
LEMMA BeginInv ==
  ASSUME IInv, NEW i \in Isolate, NEW f \in Program, Begin(i, f), fn[i] = None,
         thread[i] \in Thread,
         f = "throwException" => thread[i] \in attached /\ held[i] = {"exception"},
         f \in Function => held[i] = {},
         f \in Lookup => thread[i] \in attached \/ "freshLookup" \in Adverse
  PROVE  IInv'
<1>1. Clean(thread[i]) /\ (Without({"toStringThrows"}) => thread[i] \notin pending)
  <2>1. \A j \in Isolate : thread[j] = thread[i] => j = i
    BY DEF IInv, Apart
  <2>2. QED
    BY <2>1 DEF IInv, ThreadInv
<1>2. /\ UNCHANGED <<thread, attached, pending, locals, held, globals, owned>>
      /\ fn' = [fn EXCEPT ![i] = f] /\ fn'[i] = f
      /\ pc' = [pc EXCEPT ![i] = 1] /\ pc'[i] = 1
      /\ found' = [found EXCEPT ![i] = TRUE] /\ found'[i]
      /\ valid' = [valid EXCEPT ![i] = FALSE]
  BY DEF Begin, IInv, TypeOK
<1>3. f # None /\ 1 \in 1..Len(Code(f))
  <2>1. CASE f \in Function
    BY <2>1, FunctionShape DEF Shape, Bounded
  <2>2. CASE f = "throwException"
    BY <2>2, ThrowShape
  <2>3. QED
    BY <2>1, <2>2 DEF Program
<1>4. TypeOK'
  BY <1>2, <1>3 DEF IInv, TypeOK, Program
<1>5. Apart'
  BY <1>2 DEF IInv, Apart
<1>6. StepInv(i, thread[i])'
  <2>1. Op(i)' = Code(f)[1] /\ thread'[i] = thread[i]
    BY <1>2 DEF Op
  <2>2. CASE f \in Function
    <3>1. Op(i)' \in {"attach", "table"} /\ (Op(i)' = "table" => f \in Lookup)
      BY <2>1, <2>2, FunctionShape DEF Shape, Bounded
    <3>2. held'[i] = {}
      BY <1>2, <2>2
    <3>3. FrameInv(i, thread[i])' /\ ResultInv(i, thread[i])'
      BY <1>1, <1>2, <2>1, <3>1, <3>2
         DEF FrameInv, ResultInv, Before, Clean, Describing, NeedsEnv, NeedsNoException
    <3>4. thread[i] \notin pending => PendingInv(i, thread[i])' /\ FoundInv(i, thread[i])'
      BY <1>2, <2>1, <3>1 DEF PendingInv, FoundInv, Describing
    <3>5. QED
      BY <1>1, <1>2, <2>1, <3>1, <3>3, <3>4 DEF StepInv, Without
  <2>3. CASE f = "throwException"
    <3>1. Op(i)' = "toString"
      BY <2>1, <2>3, ThrowShape
    <3>2. FrameInv(i, thread[i])' /\ ResultInv(i, thread[i])'
      BY <1>1, <1>2, <2>1, <2>3, <3>1
         DEF FrameInv, ResultInv, Before, Clean, Describing
    <3>3. thread[i] \notin pending => PendingInv(i, thread[i])' /\ FoundInv(i, thread[i])'
      BY <1>2, <2>1, <3>1 DEF PendingInv, FoundInv, Describing
    <3>4. QED
      BY <1>1, <1>2, <2>1, <3>1, <3>2, <3>3 DEF StepInv, Without
  <2>4. QED
    BY <2>2, <2>3 DEF Program
<1>7. ASSUME NEW j \in Isolate PROVE IsolateInv(j)'
  <2>1. CASE j = i
    BY <1>2, <1>3, <1>6, <2>1 DEF IsolateInv
  <2>2. CASE j # i
    <3>1. thread[j] # thread[i] \/ thread[j] = None
      BY <2>2 DEF IInv, Apart
    <3>2. QED
      BY <1>2, <2>2, <3>1, Undisturbed DEF IInv, TypeOK
  <2>3. QED
    BY <2>1, <2>2
<1>8. ASSUME NEW s \in Thread PROVE ThreadInv(s)'
  BY <1>1, <1>2 DEF IInv, TypeOK, ThreadInv, Clean, Without
<1>9. Accounted'
  BY <1>2 DEF IInv, Accounted, NothingLost, NothingOverdrawn, Without
<1>10. QED
  BY <1>4, <1>5, <1>7, <1>8, <1>9 DEF IInv

LEMMA ThrowExceptionInv ==
  ASSUME IInv, NEW i \in Isolate, ThrowException(i)
  PROVE  IInv'
<1>1. held[i] = {"exception"} /\ thread[i] \in attached /\ thread[i] \in Thread
  BY DEF ThrowException, IInv, TypeOK, IsolateInv, DartInv
<1>2. "throwException" \in Program /\ "throwException" \notin Function
      /\ "throwException" \notin Lookup
  BY DEF Program, Function, Lookup
<1>3. QED
  BY <1>1, <1>2, BeginInv DEF ThrowException

(* A C function returns to Dart. *)
LEMMA ReturnInv ==
  ASSUME IInv, NEW i \in Isolate, Return(i)
  PROVE  IInv'
<1>1. fn[i] # None /\ Op(i) = "return"
  BY DEF Return, At
<1>2. StepInv(i, thread[i]) /\ thread[i] \in Thread
  BY <1>1, AtStep
<1>3. /\ held[i] = {"exception"} \/ held[i] = {} \/ held[i] = {"result"}
      /\ Clean(thread[i]) /\ thread[i] \in attached
      /\ Without({"toStringThrows"}) => thread[i] \notin pending
  BY <1>1, <1>2 DEF StepInv, FrameInv, PendingInv
<1>4. /\ UNCHANGED <<thread, attached, pending, locals, pc, found, valid, globals>>
      /\ fn' = [fn EXCEPT ![i] = None]
      /\ held'[i] = IF held[i] = {"exception"} THEN {"exception"} ELSE {}
      /\ held' = [held EXCEPT ![i] = held'[i]]
      /\ owned' \in [Isolate -> Nat]
      /\ Cardinality(held'[i]) + owned'[i] = Cardinality(held[i]) + owned[i]
      /\ \A j \in Isolate : j # i => owned'[j] = owned[j]
  <2>0. held \in [Isolate -> SUBSET GlobalName] /\ owned \in [Isolate -> Nat]
    BY DEF IInv, TypeOK
  <2>1. CASE held[i] = {"exception"}
    BY <1>2, <2>0, <2>1, HeldSizes DEF Return
  <2>2. CASE held[i] # {"exception"}
    <3>1. "exception" \notin held[i] /\ Cardinality(held[i]) \in Nat
      <4>1. CASE held[i] = {}
        BY <4>1, HeldSizes
      <4>2. CASE held[i] = {"result"}
        BY <4>2, HeldSizes
      <4>3. QED
        BY <1>3, <2>2, <4>1, <4>2
    <3>2. /\ held' = [held EXCEPT ![i] = {}]
          /\ owned' = [owned EXCEPT ![i] = owned[i] + Cardinality(held[i])]
      BY <3>1 DEF Return
    <3>3. held'[i] = {} /\ owned'[i] = owned[i] + Cardinality(held[i])
      BY <2>0, <3>2
    <3>4. Cardinality(held'[i]) = 0
      BY <3>3, HeldSizes
    <3>5. QED
      BY <2>0, <2>2, <3>1, <3>2, <3>3, <3>4 DEF Return
  <2>3. QED
    BY <2>1, <2>2
<1>5. TypeOK'
  BY <1>4 DEF IInv, TypeOK, GlobalName
<1>6. Apart'
  BY <1>4 DEF IInv, Apart
<1>7. ASSUME NEW j \in Isolate PROVE IsolateInv(j)'
  <2>1. CASE j = i
    BY <1>3, <1>4, <2>1 DEF IInv, TypeOK, IsolateInv, DartInv
  <2>2. CASE j # i
    <3>1. thread[j] # thread[i] \/ thread[j] = None
      BY <2>2 DEF IInv, Apart
    <3>2. QED
      BY <1>4, <2>2, <3>1, Undisturbed DEF IInv, TypeOK
  <2>3. QED
    BY <2>1, <2>2
<1>8. ASSUME NEW s \in Thread PROVE ThreadInv(s)'
  <2>1. CASE s = thread[i]
    BY <1>3, <1>4, <2>1 DEF ThreadInv, Clean, Without
  <2>2. CASE s # thread[i]
    <3>1. (\A j \in Isolate : thread'[j] = s => fn'[j] = None)
            => \A j \in Isolate : thread[j] = s => fn[j] = None
      BY <1>4, <2>2 DEF IInv, TypeOK
    <3>2. QED
      BY <1>4, <3>1 DEF IInv, ThreadInv, Clean, Without
  <2>3. QED
    BY <2>1, <2>2
<1>9. Accounted'
  <2>1. ASSUME NEW j \in Isolate
        PROVE  Cardinality(held'[j]) + owned'[j] = Cardinality(held[j]) + owned[j]
    BY <1>4 DEF IInv, TypeOK
  <2>2. QED
    BY <1>4, <2>1 DEF IInv, Accounted, NothingLost, NothingOverdrawn, Without
<1>10. QED
  BY <1>5, <1>6, <1>7, <1>8, <1>9 DEF IInv

(* JniAccessors.throwException throws, and has nothing left in its hand. *)
LEMMA ThrowInv ==
  ASSUME IInv, NEW i \in Isolate, Throw(i)
  PROVE  IInv'
<1>. DEFINE All == {"exception", "message", "stacktrace"}
<1>1. fn[i] # None /\ Op(i) = "throw"
  BY DEF Throw, At
<1>2. StepInv(i, thread[i]) /\ thread[i] \in Thread
  BY <1>1, AtStep
<1>3. /\ "exception" \in held[i] /\ held[i] \subseteq All
      /\ Clean(thread[i])
      /\ Without({"toStringThrows"}) => thread[i] \notin pending /\ held[i] = All
  BY <1>1, <1>2 DEF StepInv, FrameInv, PendingInv
<1>4. /\ UNCHANGED <<thread, pending, locals, pc, found, valid, owned>>
      /\ attached' = attached \cup {thread[i]}
      /\ fn' = [fn EXCEPT ![i] = None]
      /\ held' = [held EXCEPT ![i] = {}] /\ held'[i] = {}
  BY DEF Throw, IInv, TypeOK
<1>5. /\ globals' \in [Isolate -> Nat]
      /\ \A j \in Isolate : j # i => globals'[j] = globals[j]
      /\ globals'[i] >= owned[i]
      /\ Without({"toStringThrows", "ownConstructor"}) => globals'[i] = owned[i]
  <2>0. globals \in [Isolate -> Nat] /\ owned \in [Isolate -> Nat]
    BY DEF IInv, TypeOK
  <2>1. /\ globals[i] >= Cardinality(held[i]) + owned[i]
        /\ Without({"toStringThrows", "ownConstructor"}) =>
             globals[i] = Cardinality(held[i]) + owned[i]
    BY DEF IInv, Accounted, NothingLost, NothingOverdrawn
  <2>2. CASE held[i] = All
    <3>1. Cardinality(held[i]) = 3 /\ {"message", "stacktrace"} \subseteq held[i]
      BY <2>2, HeldSizes
    <3>2. globals' = [globals EXCEPT ![i] = globals[i] - 3]
      BY <3>1 DEF Throw
    <3>3. globals[i] - 3 \in Nat /\ globals'[i] = globals[i] - 3
      BY <2>0, <2>1, <3>1, <3>2
    <3>4. QED
      BY <2>0, <2>1, <3>1, <3>2, <3>3
  <2>3. CASE held[i] # All
    <3>1. ~ ({"message", "stacktrace"} \subseteq held[i])
      BY <1>3, <2>3
    <3>2. globals' = globals
      BY <3>1 DEF Throw
    <3>3. Cardinality(held[i]) \in Nat
      BY <1>3, HeldSizes, FS_Subset, FS_CardinalityType
    <3>4. ~ Without({"toStringThrows", "ownConstructor"})
      BY <1>3, <2>3 DEF Without
    <3>5. QED
      BY <2>0, <2>1, <3>2, <3>3, <3>4
  <2>4. QED
    BY <2>2, <2>3
<1>6. TypeOK'
  BY <1>2, <1>4, <1>5 DEF IInv, TypeOK
<1>7. Apart'
  BY <1>4 DEF IInv, Apart
<1>8. ASSUME NEW j \in Isolate PROVE IsolateInv(j)'
  <2>1. CASE j = i
    BY <1>4, <2>1 DEF IInv, TypeOK, IsolateInv, DartInv
  <2>2. CASE j # i
    <3>1. thread[j] # thread[i] \/ thread[j] = None
      BY <2>2 DEF IInv, Apart
    <3>2. QED
      BY <1>4, <2>2, <3>1, Undisturbed DEF IInv, TypeOK
  <2>3. QED
    BY <2>1, <2>2
<1>9. ASSUME NEW s \in Thread PROVE ThreadInv(s)'
  BY <1>3, <1>4 DEF IInv, TypeOK, ThreadInv, Clean, Without
<1>10. Accounted'
  <2>1. Cardinality(held'[i]) = 0 /\ owned'[i] = owned[i] /\ owned[i] \in Nat
    BY <1>4, HeldSizes DEF IInv, TypeOK
  <2>2. NothingOverdrawn'
    BY <1>4, <1>5, <2>1 DEF IInv, TypeOK, Accounted, NothingOverdrawn
  <2>3. Without({"toStringThrows", "ownConstructor"}) => NothingLost'
    BY <1>4, <1>5, <2>1 DEF IInv, TypeOK, Accounted, NothingLost
  <2>4. QED
    BY <2>2, <2>3 DEF Accounted, Without
<1>11. QED
  BY <1>6, <1>7, <1>8, <1>9, <1>10 DEF IInv

LEMMA ReleaseInv ==
  ASSUME IInv, NEW i \in Isolate, Release(i)
  PROVE  IInv'
<1>1. fn[i] = None /\ held[i] = {} /\ thread[i] \in Thread
  BY DEF Release, Free, IInv, TypeOK
<1>2. Cardinality(held[i]) = 0
  BY <1>1, HeldSizes
<1>3. /\ globals[i] >= owned[i] /\ owned[i] \in Nat /\ owned[i] > 0 /\ globals[i] \in Nat
      /\ Without({"toStringThrows", "ownConstructor"}) => globals[i] = owned[i]
  BY <1>2 DEF Release, IInv, TypeOK, Accounted, NothingOverdrawn, NothingLost
<1>4. TypeOK'
  BY <1>1, <1>3 DEF Release, IInv, TypeOK
<1>5. Apart'
  BY DEF Release, IInv, Apart
<1>6. ASSUME NEW j \in Isolate PROVE IsolateInv(j)'
  <2>1. CASE j = i
    BY <1>1, <2>1 DEF Release, IsolateInv, DartInv
  <2>2. CASE j # i
    <3>1. thread[j] # thread[i] \/ thread[j] = None
      BY <2>2 DEF IInv, Apart
    <3>2. QED
      BY <2>2, <3>1, Undisturbed DEF Release, IInv, TypeOK
  <2>3. QED
    BY <2>1, <2>2
<1>7. ASSUME NEW s \in Thread PROVE ThreadInv(s)'
  BY DEF Release, IInv, ThreadInv, Clean, Without
<1>8. Accounted'
  <2>1. /\ globals'[i] = globals[i] - 1 /\ owned'[i] = owned[i] - 1
        /\ held'[i] = held[i]
    BY <1>3 DEF Release, IInv, TypeOK
  <2>2. /\ globals'[i] >= Cardinality(held'[i]) + owned'[i]
        /\ Without({"toStringThrows", "ownConstructor"}) =>
             globals'[i] = Cardinality(held'[i]) + owned'[i]
    BY <1>2, <1>3, <2>1
  <2>3. \A j \in Isolate : j # i =>
          globals'[j] = globals[j] /\ owned'[j] = owned[j] /\ held'[j] = held[j]
    BY DEF Release, IInv, TypeOK
  <2>4. QED
    BY <2>2, <2>3 DEF IInv, Accounted, NothingOverdrawn, NothingLost, Without
<1>9. QED
  BY <1>4, <1>5, <1>6, <1>7, <1>8 DEF IInv

(* Every step keeps the invariant. *)
LEMMA NextInv ==
  ASSUME IInv, [Next]_vars
  PROVE  IInv'
<1>1. ASSUME NEW i \in Isolate, NEW f \in Entry[i], Enter(i, f) PROVE IInv'
  <2>1. f \in Function /\ f \in Program /\ f # "throwException"
    BY DEF Program, Function
  <2>2. /\ thread[i] \in Thread /\ fn[i] = None /\ held[i] = {} /\ Begin(i, f)
        /\ f \in Lookup => thread[i] \in attached \/ "freshLookup" \in Adverse
    BY <1>1 DEF Enter, Free, IInv, TypeOK
  <2>3. QED
    BY <2>1, <2>2, BeginInv
<1>2. CASE UNCHANGED vars
  <2>1. TypeOK' /\ Apart' /\ Accounted'
    BY <1>2 DEF vars, IInv, TypeOK, Apart, Accounted, NothingLost, NothingOverdrawn, Without
  <2>2. \A i \in Isolate : IsolateInv(i)'
    <3>. SUFFICES ASSUME NEW i \in Isolate PROVE IsolateInv(i)'
      OBVIOUS
    <3>1. IsolateInv(i)
      BY DEF IInv
    <3>2. Op(i)' = Op(i) /\ NextOp(i)' = NextOp(i)
      BY <1>2 DEF vars, Op, NextOp
    <3>3. StepInv(i, thread[i]) => StepInv(i, thread[i])'
      BY <1>2, <3>2 DEF vars, StepInv, FrameInv, PendingInv, FoundInv, ResultInv, Clean,
                             Without
    <3>4. QED
      BY <1>2, <3>1, <3>3 DEF vars, IsolateInv, DartInv
  <2>3. \A t \in Thread : ThreadInv(t)'
    BY <1>2 DEF vars, IInv, ThreadInv, Clean, Without
  <2>4. QED
    BY <2>1, <2>2, <2>3 DEF IInv
<1>3. QED
  BY <1>1, <1>2, HandleInv, ParkInv, CStepInv, ReturnInv, ThrowExceptionInv, ThrowInv,
     ReleaseInv DEF Next

-----------------------------------------------------------------------------
(* What the invariant says. *)

(* Of the exceptions pending, unless toString throws. *)
LEMMA PendingProperty ==
  ASSUME IInv, Without({"toStringThrows"})
  PROVE  NoPendingInDart
<1>. SUFFICES ASSUME NEW t \in pending
              PROVE  \E i \in Isolate : thread[i] = t /\ ~ InDart(i)
  BY DEF NoPendingInDart
<1>1. t \in Thread
  BY DEF IInv, TypeOK
<1>2. PICK i \in Isolate : thread[i] = t /\ fn[i] # None
  BY <1>1 DEF IInv, ThreadInv
<1>3. Op(i) \in {"check", "test", "get", "set"}
  BY <1>2, AtStep DEF StepInv, PendingInv
<1>4. QED
  BY <1>2, <1>3 DEF InDart

(* Of the use of the JNI, unless a lookup comes first, a field is missing or   *)
(* toString throws.                                                            *)
LEMMA LegalProperty ==
  ASSUME IInv, Without({"toStringThrows", "missingField", "freshLookup"})
  PROVE  JniUsedLegally
<1>. SUFFICES ASSUME NEW i \in Isolate, fn[i] # None
              PROVE  /\ Op(i) \in NeedsEnv => thread[i] \in attached
                     /\ Op(i) \in NeedsNoException => thread[i] \notin pending
                     /\ Op(i) \in {"get", "set"} => found[i]
  BY DEF JniUsedLegally, At
<1>1. /\ FrameInv(i, thread[i]) /\ PendingInv(i, thread[i]) /\ FoundInv(i, thread[i])
      /\ Op(i) = "table" => thread[i] \in attached
  BY AtStep DEF StepInv, Without
<1>2. QED
  BY <1>1 DEF FrameInv, PendingInv, FoundInv, NeedsEnv, NeedsNoException

(* Of the results, unless toString or a constructor of the runtime throws.     *)
LEMMA ResultProperty ==
  ASSUME IInv, Without({"toStringThrows", "ownConstructor"})
  PROVE  ResultValid
BY AtStep DEF ResultValid, At, StepInv, ResultInv

(* Of the local references, always. *)
LEMMA LocalsProperty ==
  ASSUME IInv
  PROVE  LocalsDeleted
<1>. SUFFICES ASSUME NEW t \in Thread, \A i \in Isolate : thread[i] = t => InDart(i)
              PROVE  Clean(t)
  BY DEF LocalsDeleted, Clean
<1>1. CASE \A i \in Isolate : thread[i] = t => fn[i] = None
  BY <1>1 DEF IInv, ThreadInv
<1>2. ASSUME NEW i \in Isolate, thread[i] = t, fn[i] # None PROVE Clean(t)
  BY <1>2, AtStep DEF InDart, StepInv, FrameInv
<1>3. QED
  BY <1>1, <1>2

(* The inductive invariant of the C functions holds in every state, for any    *)
(* isolates, threads and functions they call, whatever goes wrong.             *)
THEOREM CallsInvariant == Spec => []IInv
<1>1. IInv /\ [Next]_vars => IInv'
  BY NextInv
<1>2. QED
  BY <1>1, InitInv, PTL DEF Spec

(* No Dart code runs with a Java exception pending: every function takes the   *)
(* exception of its call out of the JNI before it returns, on every path, also *)
(* when a field is missing, a constructor throws or a lookup comes first; but  *)
(* getExceptionDetails may itself leave one, if toString throws.               *)
THEOREM ExceptionsFetched ==
  ASSUME "toStringThrows" \notin Adverse
  PROVE  Spec => []NoPendingInDart
<1>1. IInv => NoPendingInDart
  BY PendingProperty DEF Without
<1>2. QED
  BY <1>1, CallsInvariant, PTL

(* C code uses the JNI on attached threads, calls it with no exception pending *)
(* and with the ID of a member that was found, also when a constructor of the  *)
(* runtime throws.                                                             *)
THEOREM LegalUse ==
  ASSUME Adverse \subseteq {"ownConstructor"}
  PROVE  Spec => []JniUsedLegally
<1>1. IInv => JniUsedLegally
  BY LegalProperty DEF Without
<1>2. QED
  BY <1>1, CallsInvariant, PTL

(* A result that comes without an exception is valid, also when a field of the *)
(* bindings is missing or the first use of the JNI on a thread is a lookup.    *)
THEOREM NoSilentFailure ==
  ASSUME Adverse \subseteq {"missingField", "freshLookup"}
  PROVE  Spec => []ResultValid
<1>1. IInv => ResultValid
  BY ResultProperty DEF Without
<1>2. QED
  BY <1>1, CallsInvariant, PTL

(* Every global reference made for Dart is in hand, or owned by an object.     *)
THEOREM ReferencesAccounted ==
  ASSUME Adverse \subseteq {"missingField", "freshLookup"}
  PROVE  Spec => []NothingLost
<1>1. IInv => NothingLost
  BY DEF IInv, Accounted, Without
<1>2. QED
  BY <1>1, CallsInvariant, PTL

(* Whatever goes wrong, there are at least the references that Dart has in     *)
(* hand or owns: references may leak, and none is deleted under an owner.      *)
THEOREM ReferencesNeverOverdrawn == Spec => []NothingOverdrawn
<1>1. IInv => NothingOverdrawn
  BY DEF IInv, Accounted
<1>2. QED
  BY <1>1, CallsInvariant, PTL

(* Whatever goes wrong, C code leaves no local reference on a thread of Dart   *)
(* but those of the details of an exception.                                   *)
THEOREM NoLocalsLeft == Spec => []LocalsDeleted
BY CallsInvariant, LocalsProperty, PTL
=============================================================================
