---------------------------- MODULE JReferenceProofs ----------------------------
(***************************************************************************)
(* Proofs about JReference, for every set of handles and slots and calls   *)
(* of any number of arguments; those about ownership, where a string is    *)
(* the only argument of its call.                                          *)
(***************************************************************************)
EXTENDS JReference, TLAPS

USE HandleAssumption DEF Fresh, callVars, handleVars

\* The operations on handles, and those that leave them alone.
HandleOp(h) == Create(h) \/ GiveUp(h) \/ CastTo(h) \/ Collect(h)

(* Operations on handles keep the types. *)
LEMMA HandleType ==
  ASSUME TypeOK, NEW h \in Handle, HandleOp(h)
  PROVE  TypeOK'
<1>1. CASE WrapNull(h)
  BY <1>1 DEF WrapNull, FromRef, TypeOK
<1>2. ASSUME NEW r \in Ref, Wrap(h, r) PROVE TypeOK'
  BY <1>2 DEF Wrap, FromRef, TypeOK
<1>3. ASSUME NEW k \in Handle, NEW r \in Ref, CacheClass(h, k, r) PROVE TypeOK'
  BY <1>3 DEF CacheClass, FromRef, Usable, TypeOK
<1>4. CASE Release(h)
  BY <1>4 DEF Release, Usable, FreeHandles, SetAsReleased, CachedClass, TypeOK
<1>5. CASE ReleaseAgain(h)
  BY <1>5 DEF ReleaseAgain, FreeHandles, SetAsReleased, CachedClass, TypeOK
<1>6. CASE ToPointer(h)
  BY <1>6 DEF ToPointer, Usable, SetAsReleased, TypeOK
<1>7. ASSUME NEW k \in Handle, NEW r \in Ref, CastCopy(h, k, r) PROVE TypeOK'
  BY <1>7 DEF CastCopy, FromRef, Usable, TypeOK
<1>8. ASSUME NEW k \in Handle, CastMove(h, k) PROVE TypeOK'
  BY <1>8 DEF CastMove, Usable, CachedClass, TypeOK
<1>9. CASE Drop(h)
  BY <1>9 DEF Drop, TypeOK
<1>10. CASE Finalize(h)
  BY <1>10 DEF Finalize, TypeOK
<1>11. ASSUME NEW r \in Ref, FirstUse(h, r) PROVE TypeOK'
  BY <1>11 DEF FirstUse, TypeOK
<1>12. CASE ReleaseLazy(h)
  BY <1>12 DEF ReleaseLazy, FreeHandles, SetAsReleased, TypeOK
<1>13. ASSUME NEW k \in Handle, NEW r \in Ref, CastMoveStale(h, k, r) PROVE TypeOK'
  BY <1>13 DEF CastMoveStale, TypeOK
<1>14. QED
  BY <1>1, <1>2, <1>3, <1>4, <1>5, <1>6, <1>7, <1>8, <1>9, <1>10, <1>11, <1>12, <1>13
     DEF HandleOp, Create, GiveUp, CastTo, Collect

(* Nothing is attached before a handle is made, and then at most its pointer. *)
LEMMA HandleMade ==
  ASSUME HandlesInv, NEW h \in Handle, HandleOp(h)
  PROVE  \A g \in Handle : HandleInv(g)'
<1>. SUFFICES ASSUME NEW g \in Handle PROVE HandleInv(g)'
  OBVIOUS
<1>1. CASE WrapNull(h)
  BY <1>1 DEF WrapNull, FromRef, HandlesInv, TypeOK, HandleInv, AttachedInv, CachedInv
<1>2. ASSUME NEW r \in Ref, Wrap(h, r) PROVE HandleInv(g)'
  BY <1>2 DEF Wrap, FromRef, HandlesInv, TypeOK, HandleInv, AttachedInv, CachedInv
<1>3. ASSUME NEW k \in Handle, NEW r \in Ref, CacheClass(h, k, r) PROVE HandleInv(g)'
  BY <1>3 DEF CacheClass, FromRef, Usable, HandlesInv, TypeOK, HandleInv, AttachedInv, CachedInv
<1>4. CASE Release(h)
  BY <1>4 DEF Release, Usable, FreeHandles, SetAsReleased, CachedClass, HandlesInv, TypeOK,
        HandleInv, AttachedInv, CachedInv
<1>5. CASE ReleaseAgain(h)
  BY <1>5 DEF ReleaseAgain, FreeHandles, SetAsReleased, CachedClass, HandlesInv, TypeOK,
        HandleInv, AttachedInv, CachedInv
<1>6. CASE ToPointer(h)
  BY <1>6 DEF ToPointer, Usable, SetAsReleased, HandlesInv, TypeOK, HandleInv, AttachedInv,
        CachedInv
<1>7. ASSUME NEW k \in Handle, NEW r \in Ref, CastCopy(h, k, r) PROVE HandleInv(g)'
  BY <1>7 DEF CastCopy, FromRef, Usable, HandlesInv, TypeOK, HandleInv, AttachedInv, CachedInv
<1>8. ASSUME NEW k \in Handle, CastMove(h, k) PROVE HandleInv(g)'
  BY <1>8 DEF CastMove, Usable, CachedClass, HandlesInv, TypeOK, HandleInv, AttachedInv,
        CachedInv
<1>9. CASE Drop(h)
  BY <1>9 DEF Drop, HandlesInv, TypeOK, HandleInv, AttachedInv, CachedInv
<1>10. CASE Finalize(h)
  BY <1>10 DEF Finalize, HandlesInv, TypeOK, HandleInv, AttachedInv, CachedInv
<1>11. ASSUME NEW r \in Ref, FirstUse(h, r) PROVE HandleInv(g)'
  BY <1>11 DEF FirstUse, HandlesInv, TypeOK, HandleInv, AttachedInv, CachedInv
<1>12. CASE ReleaseLazy(h)
  BY <1>12 DEF ReleaseLazy, FreeHandles, SetAsReleased, HandlesInv, TypeOK, HandleInv,
        AttachedInv, CachedInv
<1>13. ASSUME NEW k \in Handle, NEW r \in Ref, CastMoveStale(h, k, r) PROVE HandleInv(g)'
  BY <1>13 DEF CastMoveStale, HandlesInv, TypeOK, HandleInv, AttachedInv, CachedInv
<1>14. QED
  BY <1>1, <1>2, <1>3, <1>4, <1>5, <1>6, <1>7, <1>8, <1>9, <1>10, <1>11, <1>12, <1>13
     DEF HandleOp, Create, GiveUp, CastTo, Collect

(* The finalizer is attached until the handle is released, and not after. *)
LEMMA HandleAttached ==
  ASSUME HandlesInv, NEW h \in Handle, HandleOp(h)
  PROVE  \A g \in Handle : AttachedInv(g)'
<1>. SUFFICES ASSUME NEW g \in Handle PROVE AttachedInv(g)'
  OBVIOUS
<1>1. CASE WrapNull(h)
  BY <1>1 DEF WrapNull, FromRef, HandlesInv, TypeOK, HandleInv, AttachedInv, CachedInv, Reachable
<1>2. ASSUME NEW r \in Ref, Wrap(h, r) PROVE AttachedInv(g)'
  BY <1>2 DEF Wrap, FromRef, HandlesInv, TypeOK, HandleInv, AttachedInv, CachedInv, Reachable
<1>3. ASSUME NEW k \in Handle, NEW r \in Ref, CacheClass(h, k, r) PROVE AttachedInv(g)'
  BY <1>3 DEF CacheClass, FromRef, Usable, HandlesInv, TypeOK, HandleInv, AttachedInv, CachedInv,
        Reachable
<1>4. CASE Release(h)
  BY <1>4 DEF Release, Usable, FreeHandles, SetAsReleased, CachedClass, HandlesInv, TypeOK,
        HandleInv, AttachedInv, CachedInv, Reachable
<1>5. CASE ReleaseAgain(h)
  BY <1>5 DEF ReleaseAgain, FreeHandles, SetAsReleased, CachedClass, HandlesInv, TypeOK,
        HandleInv, AttachedInv, CachedInv, Reachable
<1>6. CASE ToPointer(h)
  BY <1>6 DEF ToPointer, Usable, SetAsReleased, HandlesInv, TypeOK, HandleInv, AttachedInv,
        CachedInv, Reachable
<1>7. ASSUME NEW k \in Handle, NEW r \in Ref, CastCopy(h, k, r) PROVE AttachedInv(g)'
  BY <1>7 DEF CastCopy, FromRef, Usable, HandlesInv, TypeOK, HandleInv, AttachedInv, CachedInv,
        Reachable
<1>8. ASSUME NEW k \in Handle, CastMove(h, k) PROVE AttachedInv(g)'
  BY <1>8 DEF CastMove, Usable, CachedClass, HandlesInv, TypeOK, HandleInv, AttachedInv,
        CachedInv, Reachable
<1>9. CASE Drop(h)
  BY <1>9 DEF Drop, HandlesInv, TypeOK, HandleInv, AttachedInv, CachedInv, Reachable
<1>10. CASE Finalize(h)
  BY <1>10 DEF Finalize, HandlesInv, TypeOK, HandleInv, AttachedInv, CachedInv, Reachable
<1>11. ASSUME NEW r \in Ref, FirstUse(h, r) PROVE AttachedInv(g)'
  BY <1>11 DEF FirstUse, HandlesInv, TypeOK, HandleInv, AttachedInv, CachedInv, Reachable
<1>12. CASE ReleaseLazy(h)
  BY <1>12 DEF ReleaseLazy, FreeHandles, SetAsReleased, HandlesInv, TypeOK, HandleInv,
        AttachedInv, CachedInv, Reachable
<1>13. ASSUME NEW k \in Handle, NEW r \in Ref, CastMoveStale(h, k, r) PROVE AttachedInv(g)'
  BY <1>13 DEF CastMoveStale, HandlesInv, TypeOK, HandleInv, AttachedInv, CachedInv, Reachable
<1>14. QED
  BY <1>1, <1>2, <1>3, <1>4, <1>5, <1>6, <1>7, <1>8, <1>9, <1>10, <1>11, <1>12, <1>13
     DEF HandleOp, Create, GiveUp, CastTo, Collect

(* A cached class stays with its object. *)
LEMMA HandleCached ==
  ASSUME HandlesInv, NEW h \in Handle, HandleOp(h)
  PROVE  \A g \in Handle : CachedInv(g)'
<1>. SUFFICES ASSUME NEW g \in Handle PROVE CachedInv(g)'
  OBVIOUS
<1>1. CASE WrapNull(h)
  BY <1>1 DEF WrapNull, FromRef, HandlesInv, TypeOK, HandleInv, AttachedInv, CachedInv,
        CachedClass
<1>2. ASSUME NEW r \in Ref, Wrap(h, r) PROVE CachedInv(g)'
  BY <1>2 DEF Wrap, FromRef, HandlesInv, TypeOK, HandleInv, AttachedInv, CachedInv, CachedClass
<1>3. ASSUME NEW k \in Handle, NEW r \in Ref, CacheClass(h, k, r) PROVE CachedInv(g)'
  BY <1>3 DEF CacheClass, FromRef, Usable, HandlesInv, TypeOK, HandleInv, AttachedInv, CachedInv,
        CachedClass
<1>4. CASE Release(h)
  BY <1>4 DEF Release, Usable, FreeHandles, SetAsReleased, CachedClass, HandlesInv, TypeOK,
        HandleInv, AttachedInv, CachedInv
<1>5. CASE ReleaseAgain(h)
  BY <1>5 DEF ReleaseAgain, FreeHandles, SetAsReleased, CachedClass, HandlesInv, TypeOK,
        HandleInv, AttachedInv, CachedInv
<1>6. CASE ToPointer(h)
  BY <1>6 DEF ToPointer, Usable, SetAsReleased, HandlesInv, TypeOK, HandleInv, AttachedInv,
        CachedInv, CachedClass
<1>7. ASSUME NEW k \in Handle, NEW r \in Ref, CastCopy(h, k, r) PROVE CachedInv(g)'
  BY <1>7 DEF CastCopy, FromRef, Usable, HandlesInv, TypeOK, HandleInv, AttachedInv, CachedInv,
        CachedClass
<1>8. ASSUME NEW k \in Handle, CastMove(h, k) PROVE CachedInv(g)'
  BY <1>8 DEF CastMove, Usable, CachedClass, HandlesInv, TypeOK, HandleInv, AttachedInv,
        CachedInv
<1>9. CASE Drop(h)
  BY <1>9 DEF Drop, HandlesInv, TypeOK, HandleInv, AttachedInv, CachedInv, CachedClass
<1>10. CASE Finalize(h)
  BY <1>10 DEF Finalize, HandlesInv, TypeOK, HandleInv, AttachedInv, CachedInv, CachedClass
<1>11. ASSUME NEW r \in Ref, FirstUse(h, r) PROVE CachedInv(g)'
  BY <1>11 DEF FirstUse, HandlesInv, TypeOK, HandleInv, AttachedInv, CachedInv, CachedClass
<1>12. CASE ReleaseLazy(h)
  BY <1>12 DEF ReleaseLazy, FreeHandles, SetAsReleased, HandlesInv, TypeOK, HandleInv,
        AttachedInv, CachedInv, CachedClass
<1>13. ASSUME NEW k \in Handle, NEW r \in Ref, CastMoveStale(h, k, r) PROVE CachedInv(g)'
  BY <1>13 DEF CastMoveStale, HandlesInv, TypeOK, HandleInv, AttachedInv, CachedInv, CachedClass
<1>14. QED
  BY <1>1, <1>2, <1>3, <1>4, <1>5, <1>6, <1>7, <1>8, <1>9, <1>10, <1>11, <1>12, <1>13
     DEF HandleOp, Create, GiveUp, CastTo, Collect

(* An operation on a handle makes, moves or deletes a reference with its owner. *)
LEMMA HandleOwned ==
  ASSUME IInv, NEW h \in Handle, HandleOp(h)
  PROVE  OwnedOnce'
<1>1. CASE WrapNull(h)
  BY <1>1 DEF WrapNull, FromRef, IInv, HandlesInv, TypeOK, HandleInv, AttachedInv, CachedInv,
        OwnedOnce, Owned, Reachable, CallOwned
<1>2. ASSUME NEW r \in Ref, Wrap(h, r) PROVE OwnedOnce'
  BY <1>2 DEF Wrap, FromRef, IInv, HandlesInv, TypeOK, HandleInv, AttachedInv, CachedInv, OwnedOnce, Owned,
        Reachable, CallOwned
<1>3. ASSUME NEW k \in Handle, NEW r \in Ref, CacheClass(h, k, r) PROVE OwnedOnce'
  BY <1>3 DEF CacheClass, FromRef, Usable, IInv, HandlesInv, TypeOK, HandleInv, AttachedInv, CachedInv,
        OwnedOnce, Owned, Reachable, CallOwned
<1>4. CASE Release(h)
  BY <1>4 DEF Release, Usable, FreeHandles, SetAsReleased, CachedClass, IInv, HandlesInv, TypeOK,
        HandleInv, AttachedInv, CachedInv, OwnedOnce, Owned, Reachable, CallOwned
<1>5. CASE ReleaseAgain(h)
  BY <1>5 DEF ReleaseAgain, FreeHandles, SetAsReleased, CachedClass, IInv, HandlesInv, TypeOK,
        HandleInv, AttachedInv, CachedInv, OwnedOnce, Owned, Reachable, CallOwned
<1>6. CASE ToPointer(h)
  BY <1>6 DEF ToPointer, Usable, SetAsReleased, IInv, HandlesInv, TypeOK, HandleInv, AttachedInv,
        CachedInv, OwnedOnce, Owned, Reachable, CallOwned
<1>7. ASSUME NEW k \in Handle, NEW r \in Ref, CastCopy(h, k, r) PROVE OwnedOnce'
  BY <1>7 DEF CastCopy, FromRef, Usable, IInv, HandlesInv, TypeOK, HandleInv, AttachedInv, CachedInv,
        OwnedOnce, Owned, Reachable, CallOwned
<1>8. ASSUME NEW k \in Handle, CastMove(h, k) PROVE OwnedOnce'
  BY <1>8 DEF CastMove, Usable, CachedClass, IInv, HandlesInv, TypeOK, HandleInv, AttachedInv,
        CachedInv, OwnedOnce, Owned, Reachable, CallOwned
<1>9. CASE Drop(h)
  BY <1>9 DEF Drop, IInv, HandlesInv, TypeOK, HandleInv, AttachedInv, CachedInv, OwnedOnce, Owned, Reachable,
        CallOwned
<1>10. CASE Finalize(h)
  BY <1>10 DEF Finalize, IInv, HandlesInv, TypeOK, HandleInv, AttachedInv, CachedInv, OwnedOnce, Owned,
        Reachable, CallOwned
<1>11. ASSUME NEW r \in Ref, FirstUse(h, r) PROVE OwnedOnce'
  BY <1>11 DEF FirstUse, IInv, HandlesInv, TypeOK, HandleInv, AttachedInv, CachedInv, OwnedOnce, Owned, Reachable, CallOwned
<1>12. CASE ReleaseLazy(h)
  BY <1>12 DEF ReleaseLazy, FreeHandles, SetAsReleased, IInv, HandlesInv, TypeOK, HandleInv,
        AttachedInv, CachedInv, OwnedOnce, Owned, Reachable, CallOwned
<1>13. ASSUME NEW k \in Handle, NEW r \in Ref, CastMoveStale(h, k, r) PROVE OwnedOnce'
  BY <1>13 DEF CastMoveStale, IInv, HandlesInv, TypeOK, HandleInv, AttachedInv, CachedInv, OwnedOnce, Owned, Reachable, CallOwned
<1>14. QED
  BY <1>1, <1>2, <1>3, <1>4, <1>5, <1>6, <1>7, <1>8, <1>9, <1>10, <1>11, <1>12, <1>13
     DEF HandleOp, Create, GiveUp, CastTo, Collect

(* The steps of a call keep the types. *)
LEMMA CallType ==
  ASSUME TypeOK, MakeCall
  PROVE  TypeOK'
<1>1. CASE BeginCall
  BY <1>1 DEF BeginCall, TypeOK
<1>2. CASE AddValue
  BY <1>2 DEF AddValue, TypeOK
<1>3. CASE AddThrows
  BY <1>3 DEF AddThrows, TypeOK
<1>4. CASE Call
  BY <1>4 DEF Call, TypeOK
<1>5. CASE Return
  BY <1>5 DEF Return, TypeOK
<1>6. CASE Dispose
  BY <1>6 DEF Dispose, TypeOK
<1>7. CASE EndCall
  BY <1>7 DEF EndCall, TypeOK
<1>8. ASSUME NEW r \in Ref, AddString(r) PROVE TypeOK'
  BY <1>8 DEF AddString, TypeOK
<1>9. QED
  BY <1>1, <1>2, <1>3, <1>4, <1>5, <1>6, <1>7, <1>8
     DEF MakeCall

(* _dispose runs at most once for each argument. *)
LEMMA CallCounts ==
  ASSUME TypeOK, CallInv, MakeCall
  PROVE  CallInv'
<1>1. CASE BeginCall
  BY <1>1 DEF BeginCall, TypeOK, CallInv
<1>2. CASE AddValue
  BY <1>2 DEF AddValue, TypeOK, CallInv
<1>3. CASE AddThrows
  BY <1>3 DEF AddThrows, TypeOK, CallInv
<1>4. CASE Call
  BY <1>4 DEF Call, TypeOK, CallInv
<1>5. CASE Return
  BY <1>5 DEF Return, TypeOK, CallInv
<1>6. CASE Dispose
  BY <1>6 DEF Dispose, TypeOK, CallInv
<1>7. CASE EndCall
  BY <1>7 DEF EndCall, TypeOK, CallInv
<1>8. ASSUME NEW r \in Ref, AddString(r) PROVE CallInv'
  BY <1>8 DEF AddString, TypeOK, CallInv
<1>9. QED
  BY <1>1, <1>2, <1>3, <1>4, <1>5, <1>6, <1>7, <1>8
     DEF MakeCall

(* The strings of a call are deleted by _dispose, all of them and no other: a *)
(* second run of it has nothing to delete.                                    *)
LEMMA CallStrings ==
  ASSUME IInv, LoneString, MakeCall
  PROVE  OwnedOnce'
<1>1. CASE BeginCall
  BY <1>1 DEF BeginCall, IInv, HandlesInv, TypeOK, CallInv, OwnedOnce, Owned, CallOwned
<1>2. CASE AddValue
  BY <1>2 DEF AddValue, IInv, HandlesInv, TypeOK, CallInv, OwnedOnce, Owned, CallOwned
<1>3. CASE AddThrows
  BY <1>3 DEF AddThrows, IInv, HandlesInv, TypeOK, CallInv, OwnedOnce, Owned, CallOwned
<1>4. CASE Call
  BY <1>4 DEF Call, IInv, HandlesInv, TypeOK, CallInv, OwnedOnce, Owned, CallOwned
<1>5. CASE Return
  BY <1>5 DEF Return, IInv, HandlesInv, TypeOK, CallInv, OwnedOnce, Owned, CallOwned
<1>6. CASE Dispose
  BY <1>6 DEF Dispose, LoneString, IInv, HandlesInv, TypeOK, CallInv, OwnedOnce, Owned, CallOwned
<1>7. CASE EndCall
  BY <1>7 DEF EndCall, IInv, HandlesInv, TypeOK, CallInv, OwnedOnce, Owned, CallOwned
<1>8. ASSUME NEW r \in Ref, AddString(r) PROVE OwnedOnce'
  BY <1>8 DEF AddString, IInv, HandlesInv, TypeOK, CallInv, OwnedOnce, Owned, CallOwned
<1>9. QED
  BY <1>1, <1>2, <1>3, <1>4, <1>5, <1>6, <1>7, <1>8
     DEF MakeCall

(* Java and calls leave handles alone. *)
LEMMA HandlesKept ==
  ASSUME HandlesInv, UNCHANGED handleVars
  PROVE  \A h \in Handle : HandleInv(h)' /\ AttachedInv(h)' /\ CachedInv(h)'
<1>. SUFFICES ASSUME NEW h \in Handle
              PROVE  HandleInv(h)' /\ AttachedInv(h)' /\ CachedInv(h)'
  OBVIOUS
<1>1. HandleInv(h) /\ AttachedInv(h) /\ CachedInv(h)
  BY DEF HandlesInv
<1>2. HandleInv(h)'
  BY <1>1 DEF HandleInv
<1>3. AttachedInv(h)'
  BY <1>1 DEF AttachedInv, Reachable
<1>4. CachedInv(h)'
  BY <1>1 DEF CachedInv, CachedClass
<1>5. QED
  BY <1>2, <1>3, <1>4

(* Java deletes what it owns. *)
LEMMA JavaDeletes ==
  ASSUME IInv, NEW r \in Ref, JavaDelete(r)
  PROVE  TypeOK' /\ CallInv' /\ OwnedOnce'
<1>1. TypeOK'
  BY DEF JavaDelete, IInv, HandlesInv, TypeOK
<1>2. CallInv'
  BY DEF JavaDelete, IInv, CallInv
<1>3. OwnedOnce'
  BY DEF JavaDelete, IInv, HandlesInv, TypeOK, OwnedOnce, Owned, CallOwned
<1>4. QED
  BY <1>1, <1>2, <1>3

-----------------------------------------------------------------------------

LEMMA InitIInv == Init => IInv
<1>. SUFFICES ASSUME Init PROVE IInv
  OBVIOUS
<1>1. TypeOK /\ CallInv /\ OwnedOnce
  <2>1. TypeOK
    <3>1. miscast \in BOOLEAN
      BY Zenon DEF Init
    <3>2. QED
      BY <3>1 DEF Init, TypeOK
  <2>2. CallInv
    BY DEF Init, CallInv
  <2>3. Owned
    BY DEF Init, Owned, CallOwned
  <2>4. QED
    BY <2>1, <2>2, <2>3 DEF OwnedOnce
<1>2. \A h \in Handle : HandleInv(h) /\ AttachedInv(h) /\ CachedInv(h)
  BY DEF Init, HandleInv, AttachedInv, CachedInv, CachedClass, Reachable
<1>3. QED
  BY <1>1, <1>2 DEF IInv, HandlesInv

(* The handles keep their invariant, whatever is done and however many arguments *)
(* calls have.                                                                   *)
LEMMA StepHandles == HandlesInv /\ [Next]_vars => HandlesInv'
<1>. SUFFICES ASSUME HandlesInv, [Next]_vars PROVE HandlesInv'
  OBVIOUS
<1>0. TypeOK
  BY DEF HandlesInv
<1>1. ASSUME NEW h \in Handle, HandleOp(h) PROVE HandlesInv'
  BY <1>0, <1>1, HandleType, HandleMade, HandleAttached, HandleCached DEF HandlesInv
<1>2. ASSUME NEW r \in Ref, JavaDelete(r) PROVE HandlesInv'
  <2>1. UNCHANGED handleVars /\ TypeOK'
    BY <1>0, <1>2 DEF JavaDelete, TypeOK
  <2>2. QED
    BY <2>1, HandlesKept DEF HandlesInv
<1>3. CASE MakeCall
  <2>1. UNCHANGED handleVars
    BY <1>3 DEF MakeCall, BeginCall, AddString, AddValue, AddThrows, Call, Return,
       Dispose, EndCall
  <2>2. QED
    BY <1>0, <1>3, <2>1, CallType, HandlesKept DEF HandlesInv
<1>4. CASE UNCHANGED vars
  <2>1. UNCHANGED handleVars /\ TypeOK'
    BY <1>0, <1>4 DEF vars, TypeOK
  <2>2. QED
    BY <2>1, HandlesKept DEF HandlesInv
<1>5. QED
  BY <1>1, <1>2, <1>3, <1>4 DEF Next, HandleOp

LEMMA StepIInv == IInv /\ LoneString /\ [Next]_vars => IInv'
<1>. SUFFICES ASSUME IInv, LoneString, [Next]_vars PROVE IInv'
  OBVIOUS
<1>0. TypeOK /\ CallInv /\ HandlesInv'
  BY StepHandles DEF IInv, HandlesInv
<1>1. ASSUME NEW h \in Handle, HandleOp(h) PROVE CallInv' /\ OwnedOnce'
  <2>1. UNCHANGED callVars
    BY <1>1 DEF HandleOp, Create, GiveUp, CastTo, Collect, WrapNull, Wrap, CacheClass,
       FirstUse, Release, ReleaseAgain, ReleaseLazy, ToPointer, CastCopy, CastMove,
       CastMoveStale, Drop, Finalize
  <2>2. CallInv'
    BY <1>0, <2>1 DEF CallInv
  <2>3. QED
    BY <1>1, <2>2, HandleOwned
<1>2. ASSUME NEW r \in Ref, JavaDelete(r) PROVE CallInv' /\ OwnedOnce'
  BY <1>2, JavaDeletes
<1>3. CASE MakeCall
  <2>1. CallInv'
    BY <1>0, <1>3, CallCounts
  <2>2. OwnedOnce'
    BY <1>3, CallStrings
  <2>3. QED
    BY <1>0, <2>1, <2>2 DEF IInv
<1>4. CASE UNCHANGED vars
  <2>1. CallInv'
    BY <1>0, <1>4 DEF vars, CallInv
  <2>2. OwnedOnce
    BY DEF IInv
  <2>3. OwnedOnce'
    BY <1>4, <2>2 DEF vars, OwnedOnce, Owned, CallOwned
  <2>4. QED
    BY <1>0, <2>1, <2>3 DEF IInv
<1>5. QED
  BY <1>0, <1>1, <1>2, <1>3, <1>4 DEF Next, HandleOp, IInv

(* What handles and their caches keep to, however many arguments calls have. *)
THEOREM HandlesInvariant == Spec => []HandlesInv
<1>1. Init => HandlesInv
  BY InitIInv DEF IInv
<1>2. QED
  BY <1>1, StepHandles, PTL DEF Spec

(* Type correctness. *)
THEOREM ReferenceTypes == Spec => []TypeOK
<1>1. HandlesInv => TypeOK
  BY DEF HandlesInv
<1>2. QED
  BY <1>1, HandlesInvariant, PTL

(* The whole invariant, in every execution where a string is the only argument *)
(* of its call: what handles, their caches and calls keep to.                  *)
THEOREM ReferenceInvariant == Spec /\ []LoneString => []IInv
<1>1. QED
  BY InitIInv, StepIInv, PTL DEF Spec

(* Every global reference has exactly one owner: no release, finalizer, Java   *)
(* or JValueArgs deletes it twice, and none is leaked.                         *)
THEOREM OneOwner == Spec /\ []LoneString => []OwnedOnce
<1>1. IInv => OwnedOnce
  BY DEF IInv
<1>2. QED
  BY <1>1, ReferenceInvariant, PTL

(* A reference is live as long as isReleased of a reachable handle is false.   *)
THEOREM NoDangling == Spec /\ []LoneString => []UnreleasedIsLive
<1>1. IInv => UnreleasedIsLive
  <2>. SUFFICES ASSUME IInv, ~miscast, NEW h \in Handle, Reachable(h),
                       h \notin released, ptr[h] # None
                PROVE  ptr[h] \in live
    BY DEF UnreleasedIsLive
  <2>1. ptr[h] \in attached[h] /\ ptr[h] \in Ref
    BY DEF IInv, HandlesInv, TypeOK, AttachedInv
  <2>2. QED
    BY <2>1 DEF IInv, OwnedOnce, Owned
<1>2. QED
  BY <1>1, ReferenceInvariant, PTL

(* Where no call has more than one argument, the condition holds of itself.    *)
THEOREM OneArgument ==
  ASSUME MaxArgs <= 1
  PROVE  Spec => [](OwnedOnce /\ UnreleasedIsLive)
<1>1. TypeOK => LoneString
  BY DEF TypeOK, LoneString
<1>2. QED
  BY <1>1, ReferenceTypes, OneOwner, NoDangling, PTL

(* The class cached in an object is not released before the object.            *)
THEOREM CachedClassUsable == Spec => []ClassCacheUsable
<1>1. HandlesInv => ClassCacheUsable
  <2>. SUFFICES ASSUME HandlesInv, NEW h \in Handle, jclass[h] \in released
                PROVE  h \in released
    BY DEF ClassCacheUsable
  <2>1. jclass[h] \in CachedClass(h)
    BY DEF HandlesInv, TypeOK, CachedClass
  <2>2. QED
    BY <2>1 DEF HandlesInv, CachedInv
<1>2. QED
  BY <1>1, HandlesInvariant, PTL

(* What the getter and castTo give a released handle: nothing, if it is not a  *)
(* final string that was never used.                                           *)
LEMMA PointerKept ==
  ASSUME HandlesInv, UsedBeforeRelease, [Next]_vars, NEW g \in released
  PROVE  ptr'[g] = ptr[g]
<1>1. g \in Handle /\ g \in born /\ ptr \in [Handle -> Ref \cup {None}]
  BY DEF HandlesInv, TypeOK, HandleInv
<1>2. ASSUME NEW h \in Handle, NEW p, FromRef(h, p) PROVE ptr'[g] = ptr[g]
  BY <1>1, <1>2 DEF FromRef
<1>3. ASSUME NEW h \in Handle, Create(h) PROVE ptr'[g] = ptr[g]
  <2>1. ASSUME NEW r \in Ref, FirstUse(h, r) PROVE ptr'[g] = ptr[g]
    BY <1>1, <2>1 DEF FirstUse, UsedBeforeRelease
  <2>2. QED
    BY <1>2, <1>3, <2>1 DEF Create, WrapNull, Wrap, CacheClass
<1>4. ASSUME NEW h \in Handle, CastTo(h) PROVE ptr'[g] = ptr[g]
  <2>1. ASSUME NEW k \in Handle, CastMove(h, k) PROVE ptr'[g] = ptr[g]
    BY <1>1, <2>1 DEF CastMove
  <2>2. ASSUME NEW k \in Handle, NEW r \in Ref, CastCopy(h, k, r) PROVE ptr'[g] = ptr[g]
    BY <1>2, <2>2 DEF CastCopy
  <2>3. ASSUME NEW k \in Handle, NEW r \in Ref, CastMoveStale(h, k, r)
        PROVE  ptr'[g] = ptr[g]
    BY <1>1, <2>3 DEF CastMoveStale, UsedBeforeRelease
  <2>4. QED
    BY <1>4, <2>1, <2>2, <2>3 DEF CastTo
<1>5. ASSUME NEW h \in Handle, GiveUp(h) \/ Collect(h) PROVE ptr'[g] = ptr[g]
  BY <1>5 DEF GiveUp, Release, ReleaseAgain, ReleaseLazy, ToPointer, Collect, Drop, Finalize
<1>6. ASSUME MakeCall \/ (\E r \in Ref : JavaDelete(r)) \/ UNCHANGED vars
      PROVE  ptr'[g] = ptr[g]
  BY <1>6 DEF MakeCall, BeginCall, AddString, AddValue, AddThrows, Call, Return, Dispose,
     EndCall, JavaDelete, vars, handleVars
<1>7. QED
  BY <1>3, <1>4, <1>5, <1>6 DEF Next

(* Further uses of a released object throw: nothing gives it a reference again, *)
(* where no final string is released before its first use.  The condition is    *)
(* needed, as the run reference_stale_use shows.                                *)
THEOREM ReleasedForGood == Spec /\ []UsedBeforeRelease => FurtherUsesThrow
<1>1. HandlesInv /\ UsedBeforeRelease /\ [Next]_vars
        => [\A h \in released : ptr'[h] = ptr[h]]_vars
  BY PointerKept
<1>2. QED
  BY <1>1, HandlesInvariant, PTL DEF Spec, FurtherUsesThrow

(* No other step than castTo of such a string sets miscast.                     *)
LEMMA NeverMiscast == Spec /\ []UsedBeforeRelease => []~miscast
<1>1. Init => ~miscast
  BY Zenon DEF Init
<1>2. HandlesInv /\ UsedBeforeRelease /\ ~miscast /\ [Next]_vars => ~miscast'
  <2>. SUFFICES ASSUME HandlesInv, UsedBeforeRelease, ~miscast, [Next]_vars
                PROVE  ~miscast'
    OBVIOUS
  <2>1. ASSUME NEW h \in Handle, NEW k \in Handle, NEW r \in Ref, CastMoveStale(h, k, r)
        PROVE  FALSE
    BY <2>1 DEF CastMoveStale, UsedBeforeRelease
  <2>2. CASE UNCHANGED miscast
    BY <2>2
  <2>3. QED
    BY <2>1, <2>2 DEF Next, Create, WrapNull, Wrap, FirstUse, CacheClass, GiveUp, Release,
       ReleaseAgain, ReleaseLazy, ToPointer, CastTo, CastMove, CastCopy, Collect, Drop,
       Finalize, JavaDelete, MakeCall, BeginCall, AddValue, AddThrows, Call, Return,
       Dispose, EndCall, AddString, vars
<1>3. QED
  BY <1>1, <1>2, HandlesInvariant, PTL DEF Spec

(* A program that keeps to both conditions never has a reference with two       *)
(* owners or none, whatever it casts.                                           *)
THEOREM ExactlyOneOwner ==
  Spec /\ []LoneString /\ []UsedBeforeRelease => []Owned
<1>1. OwnedOnce /\ ~miscast => Owned
  BY DEF OwnedOnce
<1>2. QED
  BY <1>1, OneOwner, NeverMiscast, PTL
=============================================================================
