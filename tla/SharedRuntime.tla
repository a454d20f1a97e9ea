----------------------------- MODULE SharedRuntime -----------------------------
(***************************************************************************)
(* What the runtime promises the isolates that share it.  It is            *)
(* initialised once, before any call.  A generated function finds its      *)
(* class, and then its method, as if nobody else were there: what one      *)
(* isolate has found is found for all and for good, and a call fails only  *)
(* for what Java does not have or throws itself.                           *)
(***************************************************************************)
CONSTANTS Isolate, None

Item == {"class", "method"}

VARIABLES
  up,       \* the runtime is initialised
  missing,  \* the items that Java does not have
  value,    \* value[x]: the isolate that found x for all, or None
  call,     \* call[i]: "none", "running" or "failed"
  got       \* got[i]: the items that the call of i has

svars == <<up, missing, value, call, got>>

Init ==
  /\ up = FALSE
  /\ missing \in SUBSET Item
  /\ value = [x \in Item |-> None]
  /\ call = [i \in Isolate |-> "none"]
  /\ got = [i \in Isolate |-> {}]

\* The class is needed first, then the method.
Needs(i, x) == x \in Item \ got[i] /\ (x = "method" => "class" \in got[i])

Initialise ==
  /\ ~up
  /\ up' = TRUE
  /\ UNCHANGED <<missing, value, call, got>>

Begin(i) ==
  /\ up /\ call[i] = "none"
  /\ call' = [call EXCEPT ![i] = "running"]
  /\ UNCHANGED <<up, missing, value, got>>

Find(i, x) ==
  /\ call[i] = "running" /\ Needs(i, x)
  /\ x \notin missing /\ value[x] = None
  /\ value' = [value EXCEPT ![x] = i]
  /\ UNCHANGED <<up, missing, call, got>>

Obtain(i, x) ==
  /\ call[i] = "running" /\ Needs(i, x)
  /\ value[x] # None
  /\ got' = [got EXCEPT ![i] = @ \cup {x}]
  /\ UNCHANGED <<up, missing, value, call>>

\* An item is missing, or the method that was called throws.
Fail(i) ==
  /\ call[i] = "running"
  /\ got[i] = Item \/ \E x \in missing : Needs(i, x)
  /\ call' = [call EXCEPT ![i] = "failed"]
  /\ got' = [got EXCEPT ![i] = {}]
  /\ UNCHANGED <<up, missing, value>>

Finish(i) ==
  /\ call[i] = "failed" \/ (call[i] = "running" /\ got[i] = Item)
  /\ call' = [call EXCEPT ![i] = "none"]
  /\ got' = [got EXCEPT ![i] = {}]
  /\ UNCHANGED <<up, missing, value>>

Next ==
  \/ Initialise
  \/ \E i \in Isolate :
       \/ Begin(i) \/ Fail(i) \/ Finish(i)
       \/ \E x \in Item : Find(i, x) \/ Obtain(i, x)

Spec == Init /\ [][Next]_svars
=============================================================================
