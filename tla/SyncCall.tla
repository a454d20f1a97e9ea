------------------------------- MODULE SyncCall -------------------------------
(***************************************************************************)
(* What calling a Dart implementation of a Java interface promises to the  *)
(* Java caller: a synchronous call.  The method runs exactly once, while   *)
(* its implementation is registered, and the caller gets what it yielded.  *)
(* An implementation is retired only when no call is waiting for it,       *)
(* unless its isolate exits.                                               *)
(***************************************************************************)
CONSTANTS Proxy, Call, Isolate, Owner, Answer, None

VARIABLES
  open,      \* the proxies with a registered implementation
  callee,    \* callee[c]: the proxy that call c is made on
  phase,     \* phase[c]: "idle", "requested", "executed" or "returned"
  outcome,   \* outcome[c]: what the method yielded
  received   \* received[c]: what the caller got

svars == <<open, callee, phase, outcome, received>>

Init ==
  /\ open = {}
  /\ callee = [c \in Call |-> None]
  /\ phase = [c \in Call |-> "idle"]
  /\ outcome = [c \in Call |-> None]
  /\ received = [c \in Call |-> None]

Open(p) ==
  /\ open' = open \cup {p}
  /\ UNCHANGED <<callee, phase, outcome, received>>

Close(p) ==
  /\ \A c \in Call : callee[c] = p => phase[c] # "requested"
  /\ open' = open \ {p}
  /\ UNCHANGED <<callee, phase, outcome, received>>

Exit(s) ==
  /\ open' = {p \in open : Owner[p] # s}
  /\ UNCHANGED <<callee, phase, outcome, received>>

Request(c, p) ==
  /\ phase[c] = "idle"
  /\ phase' = [phase EXCEPT ![c] = "requested"]
  /\ callee' = [callee EXCEPT ![c] = p]
  /\ UNCHANGED <<open, outcome, received>>

Execute(c, a) ==
  /\ phase[c] = "requested"
  /\ callee[c] \in open
  /\ phase' = [phase EXCEPT ![c] = "executed"]
  /\ outcome' = [outcome EXCEPT ![c] = a]
  /\ UNCHANGED <<open, callee, received>>

Return(c) ==
  /\ phase[c] = "executed"
  /\ phase' = [phase EXCEPT ![c] = "returned"]
  /\ received' = [received EXCEPT ![c] = outcome[c]]
  /\ UNCHANGED <<open, callee, outcome>>

Next ==
  \/ \E p \in Proxy : Open(p) \/ Close(p)
  \/ \E s \in Isolate : Exit(s)
  \/ \E c \in Call, p \in Proxy : Request(c, p)
  \/ \E c \in Call, a \in Answer : Execute(c, a)
  \/ \E c \in Call : Return(c)

Spec == Init /\ [][Next]_svars
=============================================================================
