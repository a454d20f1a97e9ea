------------------------------- MODULE AsyncCall -------------------------------
(***************************************************************************)
(* What an async method of Dart promises for a suspend function of Kotlin: *)
(* a future.  It completes at most once, with what the coroutine is        *)
(* resumed with, or with an error of its own at any time before.  A reply  *)
(* waits for a pending future, however early it comes, and is lost only    *)
(* with the isolate of the caller.                                         *)
(***************************************************************************)
CONSTANTS Call, Caller, Isolate, None

VARIABLES
  future,   \* future[c]: "none", "pending", "value", "failure" or "error"
  resumed,  \* the calls whose coroutine has been resumed
  reply,    \* reply[c]: what the coroutine of c has replied to its future
  gone      \* the isolates that have exited

avars == <<future, resumed, reply, gone>>

Init ==
  /\ future = [c \in Call |-> "none"]
  /\ resumed = {}
  /\ reply = [c \in Call |-> None]
  /\ gone = {}

Alive(c) == Caller[c] \notin gone

Begin(c) ==
  /\ future[c] = "none" /\ Alive(c)
  /\ future' = [future EXCEPT ![c] = "pending"]
  /\ UNCHANGED <<resumed, reply, gone>>

Reply(c, a) ==
  /\ future[c] # "none"
  /\ c \notin resumed
  /\ resumed' = resumed \cup {c}
  /\ reply' = IF future[c] = "pending" /\ Alive(c) THEN [reply EXCEPT ![c] = a]
              ELSE reply
  /\ UNCHANGED <<future, gone>>

Complete(c) ==
  /\ future[c] = "pending" /\ Alive(c)
  /\ reply[c] # None
  /\ future' = [future EXCEPT ![c] = reply[c]]
  /\ UNCHANGED <<resumed, reply, gone>>

Fail(c) ==
  /\ future[c] = "pending" /\ Alive(c)
  /\ future' = [future EXCEPT ![c] = "error"]
  /\ reply' = [reply EXCEPT ![c] = None]
  /\ UNCHANGED <<resumed, gone>>

Exit(i) ==
  /\ gone' = gone \cup {i}
  /\ reply' = [c \in Call |-> IF Caller[c] = i /\ future[c] = "pending" THEN None
                              ELSE reply[c]]
  /\ UNCHANGED <<future, resumed>>

Next ==
  \/ \E c \in Call : Begin(c) \/ Complete(c) \/ Fail(c)
  \/ \E c \in Call : \E a \in {"value", "failure"} : Reply(c, a)
  \/ \E i \in Isolate : Exit(i)

Spec == Init /\ [][Next]_avars
=============================================================================
