------------------------------- MODULE JniCalls -------------------------------
(***************************************************************************)
(* The C functions that Dart calls to reach Java (dartjni.c, dartjni.h and *)
(* the C accessors that jnigen generates), as users of the Java Native     *)
(* Interface: which thread is attached, which exception is pending, which  *)
(* local references are outstanding, and which global references have been *)
(* made and by whom they will be deleted.                                  *)
(*                                                                         *)
(* A C function is the sequence of the steps it takes with the JNI; an     *)
(* isolate takes them one at a time, on the thread that handles its        *)
(* current event.  What load_class_global_ref and load_method do with      *)
(* their locks and caches is the subject of JniRuntime: here a lookup      *)
(* finds what it looks for or raises.                                      *)
(***************************************************************************)
EXTENDS Naturals, FiniteSets, Sequences

CONSTANTS
  Isolate,   \* isolates of Dart
  Thread,    \* threads of the pool that runs them
  None,      \* neither a thread nor a function
  Entry,     \* the functions that the Dart code of an isolate calls
  Adverse,   \* what may go wrong that the code is not prepared for
  MaxOwned   \* bound: references that the Dart code of an isolate keeps

\* freshLookup    a member is looked up as the first use of JNI on a thread
\* missingField   a field of the bindings is missing in the Java class
\* ownConstructor the constructor of DartException or PortContinuation throws
\* toStringThrows toString or printStackTrace of an exception throws
Circumstance ==
  {"freshLookup", "missingField", "ownConstructor", "toStringThrows"}

-----------------------------------------------------------------------------
(* The functions. *)

getClass == <<"attach", "find", "check", "return">>

\* The function table is read through jniEnv before _getId attaches.
getMethodID == <<"table", "attach", "lookup", "check", "return">>
getStaticMethodID == getMethodID
getFieldID == getMethodID
getStaticFieldID == getMethodID

\* Faulty: the exception of the call is not fetched.
callMethodUnchecked == <<"attach", "call", "global", "return">>

callMethod == <<"attach", "call", "check", "global", "return">>
callStaticMethod == callMethod

getField == <<"attach", "get", "check", "global", "return">>
getStaticField == getField

newObject == <<"attach", "new", "check", "global", "return">>
newPrimitiveArray == newObject
newObjectArray == newObject

getArrayElement == callMethod

\* Both constructors fetch the exception a second time for the result.
DartException__ctor ==
  <<"attach", "load", "test", "load", "test", "construct", "check", "global",
    "check", "return">>
PortContinuation__ctor == DartException__ctor

\* Faulty: the exception is fetched again for the result, when it is cleared.
newInstanceTwiceChecked ==
  <<"attach", "load", "test", "load", "test", "call", "check", "global", "check",
    "return">>

PortProxy__newInstance ==
  <<"attach", "load", "test", "load", "test", "call", "check", "global",
    "return">>

\* GetClassLoader, GetApplicationContext, GetCurrentActivity.
GetReference == <<"attach", "copy", "return">>

\* The wrappers of the other JNI functions in GlobalJniEnv.
globalEnv == callMethod

\* Faulty: the class that was not found is used.
generatedMethodUntested ==
  <<"attach", "load", "load", "test", "call", "check", "global", "return">>

\* The C accessors generated for a method, a constructor and a field.
generatedMethod ==
  <<"attach", "load", "test", "load", "test", "call", "check", "global",
    "return">>
generatedConstructor ==
  <<"attach", "load", "test", "load", "test", "new", "check", "global",
    "return">>
\* The field ID is used without a test.
generatedGetter ==
  <<"attach", "load", "test", "loadField", "get", "check", "global", "return">>
generatedSetter ==
  <<"attach", "load", "test", "loadField", "set", "check", "return">>

\* JniAccessors.throwException: getExceptionDetails, whose two to_global_ref are
\* the step "details", then Dart.
throwException ==
  <<"toString", "buffer", "printStream", "print", "contents", "details", "throw">>

Function ==
  {"getClass", "getMethodID", "getStaticMethodID", "getFieldID",
   "getStaticFieldID", "callMethod", "callStaticMethod", "getField",
   "getStaticField", "newObject", "newPrimitiveArray", "newObjectArray",
   "getArrayElement", "DartException__ctor", "PortContinuation__ctor",
   "PortProxy__newInstance", "GetReference", "globalEnv",
   "generatedMethod", "generatedConstructor", "generatedGetter",
   "generatedSetter"}

Lookup == {"getMethodID", "getStaticMethodID", "getFieldID", "getStaticFieldID"}

Code(f) ==
  CASE f = "getClass" -> getClass
    [] f = "getMethodID" -> getMethodID
    [] f = "getStaticMethodID" -> getStaticMethodID
    [] f = "getFieldID" -> getFieldID
    [] f = "getStaticFieldID" -> getStaticFieldID
    [] f = "callMethod" -> callMethod
    [] f = "callStaticMethod" -> callStaticMethod
    [] f = "getField" -> getField
    [] f = "getStaticField" -> getStaticField
    [] f = "newObject" -> newObject
    [] f = "newPrimitiveArray" -> newPrimitiveArray
    [] f = "newObjectArray" -> newObjectArray
    [] f = "getArrayElement" -> getArrayElement
    [] f = "DartException__ctor" -> DartException__ctor
    [] f = "PortContinuation__ctor" -> PortContinuation__ctor
    [] f = "PortProxy__newInstance" -> PortProxy__newInstance
    [] f = "GetReference" -> GetReference
    [] f = "globalEnv" -> globalEnv
    [] f = "generatedMethod" -> generatedMethod
    [] f = "generatedConstructor" -> generatedConstructor
    [] f = "generatedGetter" -> generatedGetter
    [] f = "generatedSetter" -> generatedSetter
    [] f = "throwException" -> throwException

ASSUME ConstantsAssumption ==
  /\ None \notin Thread
  /\ None \notin Function \cup {"throwException"}
  /\ Entry \in [Isolate -> SUBSET Function]
  /\ Adverse \subseteq Circumstance
  /\ MaxOwned \in Nat

\* Steps that call the JNI in a way that may raise an exception.
Raising ==
  {"find", "lookup", "load", "call", "new"}
    \cup (IF "missingField" \in Adverse THEN {"loadField"} ELSE {})
    \cup (IF "ownConstructor" \in Adverse THEN {"construct"} ELSE {})
    \cup (IF "toStringThrows" \in Adverse THEN {"toString", "print"} ELSE {})

\* Steps that may not be taken with an exception pending, says the JNI.
NeedsNoException ==
  {"find", "lookup", "load", "loadField", "call", "new", "construct", "get",
   "set", "copy", "toString", "buffer", "printStream", "print", "contents"}

\* Steps that dereference jniEnv.
NeedsEnv == NeedsNoException \cup {"table", "test", "check", "global", "details"}

-----------------------------------------------------------------------------

VARIABLES
  thread,    \* the thread an isolate runs on; None between events
  attached,  \* threads whose jniEnv is set
  pending,   \* threads with an exception pending
  locals,    \* per thread, local references made by C code and not deleted
  fn,        \* the function an isolate has called, None in Dart
  pc,        \* its next step
  found,     \* the last lookup of the function succeeded, its ID is not NULL
  valid,     \* the variable for the result of the function has a meaning
  held,      \* global references in the function's variables, or in Dart's hand
  globals,   \* number of live global references made for an isolate
  owned      \* how many of them JObjects and JClasses of the isolate own

vars == <<thread, attached, pending, locals, fn, pc, found, valid, held,
          globals, owned>>

LocalName == {"result", "exception", "toString", "buffer", "printStream",
              "contents"}

GlobalName == {"result", "exception", "message", "stacktrace"}

\* Types of the variables.
TypeOK ==
  /\ thread \in [Isolate -> Thread \cup {None}]
  /\ attached \in SUBSET Thread
  /\ pending \in SUBSET Thread
  /\ locals \in [Thread -> SUBSET LocalName]
  /\ fn \in [Isolate -> Function \cup {"throwException", None}]
  /\ pc \in [Isolate -> Nat]
  /\ found \in [Isolate -> BOOLEAN]
  /\ valid \in [Isolate -> BOOLEAN]
  /\ held \in [Isolate -> SUBSET GlobalName]
  /\ globals \in [Isolate -> Nat]
  /\ owned \in [Isolate -> Nat]
  /\ \A i \in Isolate : fn[i] # None =>
       /\ thread[i] # None
       /\ pc[i] \in 1..Len(Code(fn[i]))

Op(i) == Code(fn[i])[pc[i]]

At(i, ops) == fn[i] # None /\ Op(i) \in ops

\* Dart code is running, not C code.
InDart(i) == fn[i] = None \/ Op(i) \in {"return", "throw"}

\* Dart code is running and has no exception in hand.
Free(i) == thread[i] # None /\ fn[i] = None /\ held[i] = {}

Init ==
  /\ thread = [i \in Isolate |-> None]
  /\ attached = {}
  /\ pending = {}
  /\ locals = [t \in Thread |-> {}]
  /\ fn = [i \in Isolate |-> None]
  /\ pc = [i \in Isolate |-> 1]
  /\ found = [i \in Isolate |-> TRUE]
  /\ valid = [i \in Isolate |-> FALSE]
  /\ held = [i \in Isolate |-> {}]
  /\ globals = [i \in Isolate |-> 0]
  /\ owned = [i \in Isolate |-> 0]

Advance(i) == pc' = [pc EXCEPT ![i] = @ + 1] /\ UNCHANGED <<thread, fn, owned>>

-----------------------------------------------------------------------------
(* Dart. *)

\* The event loop of an isolate runs on whatever thread is free.
Handle(i, t) ==
  /\ thread[i] = None
  /\ \A j \in Isolate : thread[j] # t
  /\ thread' = [thread EXCEPT ![i] = t]
  /\ UNCHANGED <<attached, pending, locals, fn, pc, found, valid, held, globals,
                 owned>>

Park(i) ==
  /\ Free(i)
  /\ thread' = [thread EXCEPT ![i] = None]
  /\ UNCHANGED <<attached, pending, locals, fn, pc, found, valid, held, globals,
                 owned>>

\* Dart calls a function through FFI.
Begin(i, f) ==
  /\ fn' = [fn EXCEPT ![i] = f]
  /\ pc' = [pc EXCEPT ![i] = 1]
  /\ found' = [found EXCEPT ![i] = TRUE]
  /\ valid' = [valid EXCEPT ![i] = FALSE]
  /\ UNCHANGED <<thread, attached, pending, locals, held, globals, owned>>

Enter(i, f) ==
  /\ Free(i)
  /\ owned[i] < MaxOwned
  /\ f \in Lookup => thread[i] \in attached \/ "freshLookup" \in Adverse
  /\ Begin(i, f)

\* The C function returns.  A result without an exception goes to a JObject or
\* a JClass; an exception is in the hands of _check, which throws it.
Return(i) ==
  /\ At(i, {"return"})
  /\ fn' = [fn EXCEPT ![i] = None]
  /\ IF "exception" \in held[i]
       THEN UNCHANGED <<held, owned>>
       ELSE /\ held' = [held EXCEPT ![i] = {}]
            /\ owned' = [owned EXCEPT ![i] = @ + Cardinality(held[i])]
  /\ UNCHANGED <<thread, attached, pending, locals, pc, found, valid, globals>>

ThrowException(i) ==
  /\ fn[i] = None
  /\ held[i] # {}
  /\ Begin(i, "throwException")

\* Faulty: the reference of the exception itself is not deleted.
ThrowKeeping(i) ==
  /\ At(i, {"throw"})
  /\ fn' = [fn EXCEPT ![i] = None]
  /\ held' = [held EXCEPT ![i] = {}]
  /\ globals' = [globals EXCEPT ![i] = @ - Cardinality(held[i] \ {"exception"})]
  /\ attached' = attached \cup {thread[i]}
  /\ UNCHANGED <<thread, pending, locals, pc, found, valid, owned>>

\* toDartString of both strings, which throws JNullError for a NULL; only after
\* both the three references are deleted, and the JniException is thrown.
Throw(i) ==
  /\ At(i, {"throw"})
  /\ fn' = [fn EXCEPT ![i] = None]
  /\ held' = [held EXCEPT ![i] = {}]
  /\ globals' = IF {"message", "stacktrace"} \subseteq held[i]
                  THEN [globals EXCEPT ![i] = @ - Cardinality(held[i])]
                  ELSE globals
  /\ attached' = attached \cup {thread[i]}
  /\ UNCHANGED <<thread, pending, locals, pc, found, valid, owned>>

\* A JObject is released: DeleteGlobalRef, through GlobalJniEnv, which attaches.
Release(i) ==
  /\ Free(i)
  /\ owned[i] > 0
  /\ owned' = [owned EXCEPT ![i] = @ - 1]
  /\ globals' = [globals EXCEPT ![i] = @ - 1]
  /\ attached' = attached \cup {thread[i]}
  /\ UNCHANGED <<thread, pending, locals, fn, pc, found, valid, held>>

-----------------------------------------------------------------------------
(* C. *)

\* attach_thread, and load_env of the generated code.
Attach(i) ==
  /\ At(i, {"attach"})
  /\ attached' = attached \cup {thread[i]}
  /\ Advance(i)
  /\ UNCHANGED <<pending, locals, found, valid, held, globals>>

\* (*jniEnv)->GetMethodID, evaluated as an argument of _getId.
ReadTable(i) ==
  /\ At(i, {"table"})
  /\ thread[i] \in attached
  /\ Advance(i)
  /\ UNCHANGED <<attached, pending, locals, found, valid, held, globals>>

\* A call of the JNI raises.  One that is made with an exception pending
\* returns with that exception.
Raise(i) ==
  /\ At(i, NeedsNoException)
  /\ Op(i) \in Raising \/ thread[i] \in pending
  /\ pending' = pending \cup {thread[i]}
  /\ found' = [found EXCEPT ![i] = FALSE]
  /\ valid' = [valid EXCEPT ![i] = FALSE]
  /\ Advance(i)
  /\ UNCHANGED <<attached, locals, held, globals>>

\* A call of the JNI succeeds.
Succeeds(i, ops) == At(i, ops) /\ thread[i] \notin pending

\* load_class_global_ref and load_method into a cache, load_field.
Load(i) ==
  /\ Succeeds(i, {"load", "loadField"})
  /\ found' = [found EXCEPT ![i] = TRUE]
  /\ Advance(i)
  /\ UNCHANGED <<attached, pending, locals, valid, held, globals>>

\* GetMethodID and its siblings.
LookUp(i) ==
  /\ Succeeds(i, {"lookup"})
  /\ valid' = [valid EXCEPT ![i] = TRUE]
  /\ Advance(i)
  /\ UNCHANGED <<attached, pending, locals, found, held, globals>>

\* FindClass makes a global reference of its own, GetReference copies one.
MakeGlobal(i) ==
  /\ Succeeds(i, {"find", "copy"})
  /\ held' = [held EXCEPT ![i] = @ \cup {"result"}]
  /\ globals' = [globals EXCEPT ![i] = @ + 1]
  /\ valid' = [valid EXCEPT ![i] = TRUE]
  /\ Advance(i)
  /\ UNCHANGED <<attached, pending, locals, found>>

\* A constructor yields an object; a method or a field yields an object or a
\* primitive value, null or nothing.
Invoke(i) ==
  /\ Succeeds(i, {"call", "new", "construct", "get", "set"})
  /\ found[i]
  /\ \/ /\ Op(i) # "set"
        /\ locals' = [locals EXCEPT ![thread[i]] = @ \cup {"result"}]
     \/ /\ Op(i) \in {"call", "get", "set"}
        /\ UNCHANGED locals
  /\ valid' = [valid EXCEPT ![i] = TRUE]
  /\ Advance(i)
  /\ UNCHANGED <<attached, pending, found, held, globals>>

\* getExceptionDetails collects the objects it needs.
Describe(i) ==
  /\ Succeeds(i, {"toString", "buffer", "printStream", "print", "contents"})
  /\ locals' = IF Op(i) = "print" THEN locals
                 ELSE [locals EXCEPT ![thread[i]] = @ \cup {Op(i)}]
  /\ Advance(i)
  /\ UNCHANGED <<attached, pending, found, valid, held, globals>>

\* Faulty: the local reference is not deleted.
ToGlobalRefOnly(i, ref, global) ==
  /\ held' = [held EXCEPT ![i] = @ \cup global]
  /\ globals' = [globals EXCEPT ![i] = @ + Cardinality(global)]
  /\ UNCHANGED locals

\* to_global_ref: the local reference ref becomes the global one.
ToGlobalRef(i, ref, global) ==
  /\ held' = [held EXCEPT ![i] = @ \cup global]
  /\ globals' = [globals EXCEPT ![i] = @ + Cardinality(global)]
  /\ locals' = [locals EXCEPT ![thread[i]] = @ \ ref]

\* check_exception: an exception is cleared, and a global reference of it is
\* stored over what the variable had, else NULL is.
CheckException(i) ==
  IF thread[i] \in pending
    THEN /\ ToGlobalRef(i, {"exception"}, {"exception"})
         /\ pending' = pending \ {thread[i]}
    ELSE /\ held' = [held EXCEPT ![i] = @ \ {"exception"}]
         /\ UNCHANGED <<pending, locals, globals>>

Check(i) ==
  /\ At(i, {"check"})
  /\ CheckException(i)
  /\ Advance(i)
  /\ UNCHANGED <<attached, found, valid>>

\* if (x == NULL) return (JniResult){.value = {.j = 0}, check_exception()};
Test(i) ==
  /\ At(i, {"test"})
  /\ IF found[i]
       THEN /\ Advance(i)
            /\ UNCHANGED <<pending, locals, held, globals>>
       ELSE /\ CheckException(i)
            /\ pc' = [pc EXCEPT ![i] = Len(Code(fn[i]))]
            /\ UNCHANGED <<thread, fn, owned>>
  /\ UNCHANGED <<attached, found, valid>>

\* An object result becomes a global reference, unless there is an exception.
GlobalResult(i) ==
  /\ At(i, {"global"})
  /\ IF "exception" \notin held[i] /\ "result" \in locals[thread[i]]
       THEN ToGlobalRef(i, {"result"}, {"result"})
       ELSE UNCHANGED <<held, globals, locals>>
  /\ Advance(i)
  /\ UNCHANGED <<attached, pending, found, valid>>

\* The message and the stack trace become global references.
Details(i) ==
  /\ At(i, {"details"})
  /\ ToGlobalRef(i, {"toString", "contents"},
       (IF "toString" \in locals[thread[i]] THEN {"message"} ELSE {})
         \cup (IF "contents" \in locals[thread[i]] THEN {"stacktrace"} ELSE {}))
  /\ Advance(i)
  /\ UNCHANGED <<attached, pending, found, valid>>

CStep(i) ==
  \/ Attach(i) \/ ReadTable(i) \/ Raise(i) \/ Load(i) \/ LookUp(i)
  \/ MakeGlobal(i) \/ Invoke(i) \/ Describe(i) \/ Check(i) \/ Test(i)
  \/ GlobalResult(i) \/ Details(i)

Next ==
  \E i \in Isolate :
    \/ \E t \in Thread : Handle(i, t)
    \/ Park(i)
    \/ \E f \in Entry[i] : Enter(i, f)
    \/ CStep(i)
    \/ Return(i)
    \/ ThrowException(i)
    \/ Throw(i)
    \/ Release(i)

Spec == Init /\ [][Next]_vars

-----------------------------------------------------------------------------
(* Properties.  Each survives all circumstances but those that it names. *)

\* No Dart code runs with a Java exception pending on its thread, and none is
\* left on a thread for the next isolate: dartjni.h, JniAccessorsStruct, says
\* that Flutter checks this and that every function must clear exceptions.  Not if
\* toString throws, although getExceptionDetails is one of those functions.
NoPendingInDart ==
  \A t \in pending : \E i \in Isolate : thread[i] = t /\ ~InDart(i)

\* C code uses the JNI only on an attached thread, never calls Java or allocates
\* with an exception pending, and never uses the ID of a field not found.  Not
\* if toString throws, a field is missing, or a lookup comes first.
JniUsedLegally ==
  \A i \in Isolate :
    /\ At(i, NeedsEnv) => thread[i] \in attached
    /\ At(i, NeedsNoException) => thread[i] \notin pending
    /\ At(i, {"get", "set"}) => found[i]

\* A result whose exception is NULL is valid, as the comment of JniResult in
\* dartjni.h says: no failure is reported as a success.  Not if toString or a
\* constructor of the runtime throws.
ResultValid ==
  \A i \in Isolate :
    At(i, {"return"}) /\ "exception" \notin held[i] => valid[i]

\* Every global reference made for an isolate is in a variable of the function
\* it is calling, in Dart's hands, or owned by an object: none is lost, also
\* when a function fails half way and when its exception is thrown in Dart.  Not
\* if toString or a constructor of the runtime throws.
NothingLost ==
  \A i \in Isolate : globals[i] = Cardinality(held[i]) + owned[i]

\* A thread of Dart never returns to Java, so the local references of C code
\* are C's to delete: between calls only those that getExceptionDetails makes
\* to print a stack trace, and leaves behind, are outstanding, whatever happens.
LocalsDeleted ==
  \A t \in Thread :
    (\A i \in Isolate : thread[i] = t => InDart(i)) =>
      locals[t] \subseteq {"buffer", "printStream"}

-----------------------------------------------------------------------------
(* The inductive invariant of the proofs: what each step finds, depending on  *)
(* what may go wrong.                                                         *)

\* None of the circumstances in S happens.
Without(S) == S \cap Adverse = {}

Clean(t) == locals[t] \subseteq {"buffer", "printStream"}

\* Steps before a function has a result.
Before == {"attach", "table", "find", "copy", "lookup", "load", "loadField",
           "test", "call", "new", "construct", "get", "set"}

\* Steps of getExceptionDetails after toString.
Describing == {"buffer", "printStream", "print", "contents"}

\* Functions that fetch the exception of their call twice.
TwiceChecked == {"DartException__ctor", "PortContinuation__ctor"}

\* The next step of the function.
NextOp(i) == Code(fn[i])[pc[i] + 1]

\* What holds of a step on thread t of isolate i whatever goes wrong: what the
\* function holds, and which local references are outstanding.
FrameInv(i, t) ==
  /\ Op(i) \in (NeedsEnv \ {"table"}) \cup {"return"} => t \in attached
  /\ Op(i) \in Before =>
       held[i] = {} /\ Clean(t) /\ (~ found[i] => t \in pending)
  /\ Op(i) = "test" => (found[i] <=> t \notin pending)
  /\ Op(i) = "check" =>
       /\ held[i] \in {{}, {"result"}, {"exception"}}
       /\ t \in pending \/ NextOp(i) = "global" => held[i] = {}
       /\ locals[t] \subseteq {"result", "buffer", "printStream"}
       /\ Clean(t) \/ (NextOp(i) = "global" /\ t \notin pending)
  /\ Op(i) = "global" =>
       /\ held[i] \subseteq {"exception"}
       /\ t \notin pending
       /\ locals[t] \subseteq {"result", "buffer", "printStream"}
       /\ held[i] = {"exception"} => Clean(t)
  /\ Op(i) = "return" => held[i] \in {{}, {"result"}, {"exception"}} /\ Clean(t)
  /\ Op(i) \in Describing \cup {"toString", "details"} => held[i] = {"exception"}
  /\ Op(i) = "toString" => Clean(t)
  /\ Op(i) \in Describing => locals[t] \subseteq {"toString", "buffer", "printStream"}
  /\ Op(i) = "details" =>
       locals[t] \subseteq {"toString", "contents", "buffer", "printStream"}
  /\ Op(i) = "throw" =>
       /\ "exception" \in held[i]
       /\ held[i] \subseteq {"exception", "message", "stacktrace"}
       /\ Clean(t)

\* An exception is pending only until it is fetched, and can be described.
PendingInv(i, t) ==
  /\ t \in pending => Op(i) \in {"check", "test", "get", "set"}
  /\ Op(i) \in Describing => "toString" \in locals[t]
  /\ Op(i) = "details" => {"toString", "contents"} \subseteq locals[t]
  /\ Op(i) = "throw" => held[i] = {"exception", "message", "stacktrace"}

\* After a lookup that failed nothing but its exception is used.
FoundInv(i, t) ==
  /\ t \in pending => Op(i) \notin {"get", "set"}
  /\ ~found[i] => Op(i) \in {"check", "test", "global", "return"}

\* The result is valid, or the exception is pending or in hand.
ResultInv(i, t) ==
  /\ Op(i) = "check" =>
       /\ held[i] \subseteq {"result"}
       /\ valid[i] \/ t \in pending
       /\ fn[i] \in TwiceChecked => valid[i] /\ t \notin pending
  /\ Op(i) = "global" =>
       /\ valid[i] \/ held[i] = {"exception"}
       /\ fn[i] \in TwiceChecked => valid[i] /\ held[i] = {}
  /\ Op(i) = "return" => held[i] = {"exception"} \/ valid[i]

\* Isolate i is about to take a step on thread t.
StepInv(i, t) ==
  /\ FrameInv(i, t)
  /\ Without({"freshLookup"}) => (Op(i) = "table" => t \in attached)
  /\ Without({"toStringThrows"}) => PendingInv(i, t)
  /\ Without({"toStringThrows", "missingField"}) => FoundInv(i, t)
  /\ Without({"toStringThrows", "ownConstructor"}) => ResultInv(i, t)

\* Isolate i is in Dart.
DartInv(i) ==
  /\ held[i] \in {{}, {"exception"}}
  /\ held[i] # {} => thread[i] \in attached

\* Dart code runs on thread t, or nobody.
ThreadInv(t) ==
  (\A i \in Isolate : thread[i] = t => fn[i] = None) =>
    Clean(t) /\ (Without({"toStringThrows"}) => t \notin pending)

IsolateInv(i) == IF fn[i] = None THEN DartInv(i) ELSE StepInv(i, thread[i])

\* No more references are in hand and owned than there are.
NothingOverdrawn ==
  \A i \in Isolate : globals[i] >= Cardinality(held[i]) + owned[i]

Accounted ==
  NothingOverdrawn /\ (Without({"toStringThrows", "ownConstructor"}) => NothingLost)

\* No two isolates run on one thread.
Apart ==
  \A i, j \in Isolate : i # j /\ thread[i] = thread[j] => thread[i] = None

IInv ==
  /\ TypeOK
  /\ Apart
  /\ \A i \in Isolate : IsolateInv(i)
  /\ \A t \in Thread : ThreadInv(t)
  /\ Accounted
=============================================================================
