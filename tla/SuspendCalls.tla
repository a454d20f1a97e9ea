----------------------------- MODULE SuspendCalls -----------------------------
(***************************************************************************)
(* Suspend functions of Kotlin as async methods of Dart: the method that   *)
(* jnigen generates, the PortContinuation it passes to Kotlin, and the     *)
(* message that resumes it, composed with the C functions of JniCalls.     *)
(*                                                                         *)
(* Dart opens a port, makes a PortContinuation with its number, calls the  *)
(* Kotlin function and awaits the first message.  Between the await and    *)
(* the message its isolate handles other events, on any thread.  Kotlin    *)
(* resumes the continuation once, from a thread of its own, at any time    *)
(* after the function got it: also before Dart awaits, and after the       *)
(* isolate has gone.  A function that returns without having suspended     *)
(* returns its value and resumes nobody.                                   *)
(***************************************************************************)
EXTENDS JniCalls

CONSTANTS
  Call,            \* calls of suspend functions
  Caller,          \* the isolate that makes a call
  Mortal           \* isolates that may exit while a call is in progress

ASSUME SuspendAssumption ==
  /\ None \notin Call \cup {"value", "failure"}
  /\ Caller \in [Call -> Isolate]
  /\ Mortal \subseteq Isolate
  /\ Thread # {}

VARIABLES
  stage,      \* how far the async method of a call has come
  current,    \* the call whose async method an isolate is executing
  port,       \* "none", "open" or "closed"
  inbox,      \* the answer in the port, or None
  answer,     \* the answer the async method has received, or None
  coroutine,  \* "none", "suspended", "resumed" or "returned" at once
  answerRef,  \* the global reference of the answer: "none", "live" in the
              \* message or the method, "owned" by a JObject, or "lost"
  dropped,    \* owned references of an isolate that no object deletes
  gone        \* isolates that have exited

svars == <<stage, current, port, inbox, answer, coroutine, answerRef, dropped,
           gone>>

allVars == <<vars, svars>>

Stage == {"idle", "making", "made", "calling", "awaiting", "received",
          "resolving", "resolved", "testing", "done", "failed", "threw"}

Finished == {"done", "failed", "threw"}

\* Types of the variables.
STypeOK ==
  /\ TypeOK
  /\ stage \in [Call -> Stage]
  /\ current \in [Isolate -> Call \cup {None}]
  /\ port \in [Call -> {"none", "open", "closed"}]
  /\ inbox \in [Call -> {"value", "failure", None}]
  /\ answer \in [Call -> {"value", "failure", None}]
  /\ coroutine \in [Call -> {"none", "suspended", "resumed", "returned"}]
  /\ answerRef \in [Call -> {"none", "live", "owned", "lost"}]
  /\ dropped \in [Isolate -> Nat]
  /\ gone \subseteq Mortal

SInit ==
  /\ Init
  /\ stage = [c \in Call |-> "idle"]
  /\ current = [i \in Isolate |-> None]
  /\ port = [c \in Call |-> "none"]
  /\ inbox = [c \in Call |-> None]
  /\ answer = [c \in Call |-> None]
  /\ coroutine = [c \in Call |-> "none"]
  /\ answerRef = [c \in Call |-> "none"]
  /\ dropped = [i \in Isolate |-> 0]
  /\ gone = {}

-----------------------------------------------------------------------------
(* The async method. *)

\* The method of c goes on to its next stage s by calling f.
Proceed(c, s, f) ==
  /\ Free(Caller[c])
  /\ Begin(Caller[c], f)
  /\ stage' = [stage EXCEPT ![c] = s]

\* ReceivePort(), then newPortContinuation.
Start(c) ==
  /\ stage[c] = "idle"
  /\ current[Caller[c]] = None
  /\ Proceed(c, "making", "PortContinuation__ctor")
  /\ current' = [current EXCEPT ![Caller[c]] = c]
  /\ port' = [port EXCEPT ![c] = "open"]
  /\ UNCHANGED <<inbox, answer, coroutine, answerRef, dropped, gone>>

\* The method is called with the continuation as its last argument, through
\* an accessor or a generated C function.
CallKotlin(c) ==
  /\ stage[c] = "made"
  /\ \E f \in {"callMethod", "generatedMethod"} : Proceed(c, "calling", f)
  /\ UNCHANGED <<current, port, inbox, answer, coroutine, answerRef, dropped,
                 gone>>

\* await $p.first: the event loop delivers the answer, first closes the port.
Receive(c, t) ==
  /\ stage[c] = "awaiting"
  /\ inbox[c] # None
  /\ Caller[c] \notin gone
  /\ Handle(Caller[c], t)
  /\ stage' = [stage EXCEPT ![c] = "received"]
  /\ current' = [current EXCEPT ![Caller[c]] = c]
  /\ answer' = [answer EXCEPT ![c] = inbox[c]]
  /\ inbox' = [inbox EXCEPT ![c] = None]
  /\ port' = [port EXCEPT ![c] = "closed"]
  /\ UNCHANGED <<coroutine, answerRef, dropped, gone>>

\* getClass() of the expected type, then IsInstanceOf.
CheckType(c) ==
  /\ \/ stage[c] = "received" /\ Proceed(c, "resolving", "getClass")
     \/ stage[c] = "resolved" /\ Proceed(c, "testing", "globalEnv")
  /\ UNCHANGED <<current, port, inbox, answer, coroutine, answerRef, dropped,
                 gone>>

\* What follows when the function called in a stage returns.
After == [making |-> "made", calling |-> "awaiting", resolving |-> "resolved"]

\* Faulty: the type of the answer is not tested.
IsAnything(c) == TRUE

\* IsInstanceOf: the answer of c is a value, of the expected type.
IsExpected(c) == answer[c] = "value"

\* A C function returns.  What the Kotlin function returned is read as an
\* object and dropped.  An answer of the expected type becomes the result; any
\* other, a failure, makes the method throw "Failed".
SReturn(i) ==
  /\ Return(i)
  /\ IF current[i] = None \/ "exception" \in held[i]
       THEN UNCHANGED svars
       ELSE LET c == current[i]
                s == stage[c]
                ends == s \in {"calling", "testing"}
                value == IsExpected(c)
            IN  /\ stage' = [stage EXCEPT ![c] =
                               IF s \in DOMAIN After THEN After[s]
                               ELSE IF value THEN "done" ELSE "failed"]
                /\ current' = IF ends THEN [current EXCEPT ![i] = None]
                                ELSE current
                /\ answerRef' = IF s = "testing"
                                  THEN [answerRef EXCEPT ![c] =
                                          IF value THEN "owned" ELSE "lost"]
                                  ELSE answerRef
                /\ dropped' = IF s = "calling"
                                THEN [dropped EXCEPT ![i] =
                                        @ + Cardinality(held[i])]
                                ELSE dropped
                /\ UNCHANGED <<port, inbox, answer, coroutine, gone>>

\* An exception leaves the method: its future completes with an error.
SThrow(i) ==
  /\ Throw(i)
  /\ IF current[i] = None
       THEN UNCHANGED svars
       ELSE LET c == current[i]
            IN  /\ stage' = [stage EXCEPT ![c] = "threw"]
                /\ current' = [current EXCEPT ![i] = None]
                /\ answerRef' = [answerRef EXCEPT ![c] =
                                   IF @ = "live" THEN "lost" ELSE @]
                /\ UNCHANGED <<port, inbox, answer, coroutine, dropped, gone>>

-----------------------------------------------------------------------------
(* Kotlin. *)

\* The call of the suspend function returns, suspended or with its value.
SCStep(i) ==
  /\ CStep(i)
  /\ IF /\ current[i] # None
        /\ stage[current[i]] = "calling"
        /\ Succeeds(i, {"call"})
        /\ valid'[i]
       THEN \E how \in {"suspended", "returned"} :
              coroutine' = [coroutine EXCEPT ![current[i]] = how]
       ELSE UNCHANGED coroutine
  /\ UNCHANGED <<stage, current, port, inbox, answer, answerRef, dropped, gone>>

\* Faulty: an answer that comes before the method awaits it is not kept.
ResumeAwaited(c, a) ==
  /\ coroutine[c] = "suspended"
  /\ coroutine' = [coroutine EXCEPT ![c] = "resumed"]
  /\ IF port[c] = "open" /\ stage[c] = "awaiting"
       THEN /\ inbox' = [inbox EXCEPT ![c] = a]
            /\ answerRef' = [answerRef EXCEPT ![c] = "live"]
       ELSE /\ answerRef' = [answerRef EXCEPT ![c] = "lost"]
            /\ UNCHANGED inbox
  /\ UNCHANGED <<vars, stage, current, port, answer, dropped, gone>>

\* Faulty: a failure is not posted.
ResumeWithValue(c, a) ==
  /\ coroutine[c] = "suspended"
  /\ coroutine' = [coroutine EXCEPT ![c] = "resumed"]
  /\ IF port[c] = "open" /\ a = "value"
       THEN /\ inbox' = [inbox EXCEPT ![c] = a]
            /\ answerRef' = [answerRef EXCEPT ![c] = "live"]
       ELSE UNCHANGED <<inbox, answerRef>>
  /\ UNCHANGED <<vars, stage, current, port, answer, dropped, gone>>

\* _resumeWith: a global reference of the answer is posted to the port.
Resume(c, a) ==
  /\ coroutine[c] = "suspended"
  /\ coroutine' = [coroutine EXCEPT ![c] = "resumed"]
  /\ IF port[c] = "open"
       THEN /\ inbox' = [inbox EXCEPT ![c] = a]
            /\ answerRef' = [answerRef EXCEPT ![c] = "live"]
       ELSE /\ answerRef' = [answerRef EXCEPT ![c] = "lost"]
            /\ UNCHANGED inbox
  /\ UNCHANGED <<vars, stage, current, port, answer, dropped, gone>>

-----------------------------------------------------------------------------
(* Everything else the isolates do. *)

SHandle(i, t) == i \notin gone /\ Handle(i, t) /\ UNCHANGED svars

\* Faulty: the event loop goes on in the middle of the method.
SParkInMethod(i) == Park(i) /\ UNCHANGED svars

SPark(i) == current[i] = None /\ Park(i) /\ UNCHANGED svars

SEnter(i, f) == current[i] = None /\ Enter(i, f) /\ UNCHANGED svars

SThrowException(i) == ThrowException(i) /\ UNCHANGED svars

SRelease(i) == owned[i] > dropped[i] /\ Release(i) /\ UNCHANGED svars

\* An isolate exits between two events: its ports close and what is in them
\* is lost.
Exit(i) ==
  /\ i \in Mortal \ gone
  /\ thread[i] = None
  /\ gone' = gone \cup {i}
  /\ port' = [c \in Call |-> IF Caller[c] = i /\ port[c] = "open" THEN "closed"
                             ELSE port[c]]
  /\ inbox' = [c \in Call |-> IF Caller[c] = i THEN None ELSE inbox[c]]
  /\ answerRef' = [c \in Call |-> IF Caller[c] = i /\ answerRef[c] = "live"
                                  THEN "lost" ELSE answerRef[c]]
  /\ UNCHANGED <<vars, stage, current, answer, coroutine, dropped>>

Method(c) ==
  \/ Start(c)
  \/ CallKotlin(c)
  \/ \E t \in Thread : Receive(c, t)
  \/ CheckType(c)

SNext ==
  \/ \E c \in Call : Method(c) \/ \E a \in {"value", "failure"} : Resume(c, a)
  \/ \E i \in Isolate :
       \/ \E t \in Thread : SHandle(i, t)
       \/ SPark(i)
       \/ \E f \in Entry[i] : SEnter(i, f)
       \/ SCStep(i)
       \/ SReturn(i)
       \/ SThrowException(i)
       \/ SThrow(i)
       \/ SRelease(i)
       \/ Exit(i)

SSpec == SInit /\ [][SNext]_allVars

\* C functions and event handlers end, the event loop delivers every message,
\* and a coroutine that is suspended is resumed.
SFairness ==
  /\ \A i \in Isolate :
       /\ WF_allVars(SCStep(i)) /\ WF_allVars(SReturn(i))
       /\ WF_allVars(SThrowException(i)) /\ WF_allVars(SThrow(i))
       /\ SF_allVars(SPark(i))
  /\ \A c \in Call :
       /\ WF_allVars(CallKotlin(c)) /\ WF_allVars(CheckType(c))
       /\ SF_allVars(\E t \in Thread : Receive(c, t))
       /\ WF_allVars(\E a \in {"value", "failure"} : Resume(c, a))

SFairSpec == SSpec /\ SFairness

-----------------------------------------------------------------------------
(* Properties. *)

\* The future of an async method completes, unless its isolate exits or the suspend
\* function returns without having suspended: its value is dropped then, and the
\* method awaits a message that nobody sends (dart_generator.dart:1315-1316).
AsyncCompletes ==
  \A c \in Call :
    stage[c] # "idle" ~>
      stage[c] \in Finished \/ Caller[c] \in gone \/ coroutine[c] = "returned"

\* The answer of a coroutine is in the port or with the method that awaits it,
\* however early it was resumed; its global reference is lost only when the
\* coroutine or the method failed, or with the isolate.
AnswerKept ==
  \A c \in Call :
    /\ coroutine[c] = "resumed" /\ Caller[c] \notin gone =>
         inbox[c] # None \/ answer[c] # None
    /\ answerRef[c] = "lost" =>
         stage[c] \in {"failed", "threw"} \/ Caller[c] \in gone

\* The C function that i is in has a next step, or its exception is still to be
\* thrown: it neither reads the table of a NULL jniEnv nor uses an ID not found.
GoesOn(i) ==
  \/ fn[i] = None /\ held[i] # {}
  \/ /\ fn[i] # None
     /\ Op(i) = "table" => thread[i] \in attached
     /\ Op(i) \in {"call", "new", "construct", "get", "set"} =>
          found[i] \/ Op(i) \in Raising \/ thread[i] \in pending

\* No step is possible that SFairness promises: in no isolate can a function or a
\* method go on, no event handler ends, no coroutine is to be resumed, and no
\* thread is free for an answer that has come.
AtRest ==
  /\ \A i \in Isolate : ~ GoesOn(i) /\ (Free(i) => current[i] # None)
  /\ \A c \in Call :
       /\ coroutine[c] # "suspended"
       /\ stage[c] \in {"made", "received", "resolved"} => ~ Free(Caller[c])
       /\ stage[c] = "awaiting" /\ inbox[c] # None /\ Caller[c] \notin gone =>
            \/ thread[Caller[c]] # None
            \/ \A t \in Thread : \E i \in Isolate : thread[i] = t

\* No async method waits for an answer that will not come: when nothing can go on,
\* each has completed, but for isolates that exited and suspend functions that never
\* suspended (dart_generator.dart:1315-1316).  No answer is dropped before it is
\* awaited, no C function stops half way, no thread is kept.
NoAnswerForgotten ==
  AtRest =>
    \A c \in Call :
      \/ stage[c] \in {"idle"} \cup Finished
      \/ Caller[c] \in gone
      \/ coroutine[c] = "returned"

(***************************************************************************)
(* Refinement: the port, the continuation and the stages of the method are *)
(* a future that completes with the reply of the coroutine.                *)
(***************************************************************************)
Future(c) ==
  CASE stage[c] = "idle" -> "none"
    [] stage[c] = "done" -> "value"
    [] stage[c] = "failed" -> "failure"
    [] stage[c] = "threw" -> "error"
    [] OTHER -> "pending"

\* The answer that the method of c has, or finds when it awaits one.
Replied(c) ==
  IF stage[c] = "threw" THEN None
  ELSE IF answer[c] # None THEN answer[c] ELSE inbox[c]

Async == INSTANCE AsyncCall WITH
  future <- [c \in Call |-> Future(c)],
  resumed <- {c \in Call : coroutine[c] = "resumed"},
  reply <- [c \in Call |-> Replied(c)]

\* The async method implements a future (dart_generator.dart:1311-1321): it completes
\* once, with what the coroutine was resumed with, whether that was before or after
\* the method awaits it, and other calls, failures and exits come between.
RefinesAsyncCall == Async!Spec

-----------------------------------------------------------------------------
(* The inductive invariant of the proofs. *)

\* Stages in which the async method is being executed.
Active == {"making", "made", "calling", "received", "resolving", "resolved", "testing"}

\* An isolate executes one method at a time, and stays on its thread meanwhile.
MethodInv ==
  /\ \A i \in Isolate : current[i] # None => Caller[current[i]] = i /\ thread[i] # None
  /\ \A c \in Call : stage[c] \in Active <=> current[Caller[c]] = c

\* Between two calls of C the method has nothing in hand.
PausedInv ==
  \A c \in Call : stage[c] \in {"made", "received", "resolved"} =>
    fn[Caller[c]] = None /\ held[Caller[c]] = {}

\* A coroutine begins in the call of Kotlin, which is made once.
CoroutineInv ==
  \A c \in Call :
    /\ stage[c] \in {"idle", "making", "made"} => coroutine[c] = "none"
    /\ stage[c] = "calling" /\ coroutine[c] # "none" /\ fn[Caller[c]] # None =>
         Op(Caller[c]) \notin Before

\* The port of a call stays open until it has the answer, which is sent once.
PortInv ==
  \A c \in Call :
    /\ stage[c] # "idle" /\ Caller[c] \notin gone => port[c] = "open" \/ answer[c] # None
    /\ inbox[c] # None \/ answer[c] # None => coroutine[c] = "resumed"

\* An answer is delivered once; an isolate that is gone has no thread and no ports.
DeliveryInv ==
  /\ \A i \in gone : thread[i] = None
  /\ \A c \in Call :
       /\ Caller[c] \in gone => port[c] # "open" /\ inbox[c] = None
       /\ stage[c] \in {"idle", "making", "made", "calling", "awaiting"} => answer[c] = None
       /\ stage[c] \in {"received", "resolving", "resolved", "testing", "done", "failed"} =>
            answer[c] # None
       /\ answer[c] # None => inbox[c] = None

\* The call of a Kotlin function that has not begun a coroutine: it is still to be
\* made, or its exception is pending or fetched.
Unanswered(i) ==
  \/ /\ fn[i] \in {"callMethod", "generatedMethod"}
     /\ \/ Op(i) \in Before
        \/ Op(i) = "check" /\ thread[i] \in pending
        \/ Op(i) \in {"global", "return"} /\ "exception" \in held[i]
  \/ fn[i] = "throwException"
  \/ fn[i] = None /\ held[i] # {}

\* In the stages in which C is called, a function or its exception is in hand, and
\* a method only awaits the answer of a coroutine.
BusyInv ==
  \A c \in Call :
    /\ stage[c] \in {"making", "calling", "resolving", "testing"} =>
         fn[Caller[c]] # None \/ held[Caller[c]] # {}
    /\ stage[c] = "calling" /\ coroutine[c] = "none" => Unanswered(Caller[c])
    /\ stage[c] = "awaiting" => coroutine[c] # "none"

SInv ==
  /\ STypeOK /\ IInv /\ MethodInv /\ PausedInv /\ CoroutineInv /\ PortInv /\ AnswerKept
  /\ DeliveryInv /\ BusyInv
=============================================================================
