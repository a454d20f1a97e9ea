----------------------------- MODULE RenamerProofs -----------------------------
(***************************************************************************)
(* Proofs about Renamer, for any classes and names and all programs.       *)
(***************************************************************************)
EXTENDS Renamer, SequenceTheorems, FiniteSetTheorems, TLAPS

-----------------------------------------------------------------------------
(* Names. *)

(* A number makes a name another name with the same text. *)
LEMMA NumberedName ==
  ASSUME NEW n \in Name, NEW k \in Nat
  PROVE  /\ WithNumber(n, k) \in DartName
         /\ WithNumber(n, k).text = n.text
         /\ WithNumber(n, k) # n
         /\ WithNumber(n, k).nums # <<>>
<1>1. n \in [text : Text, nums : Seq(Nat)] /\ n.nums \in Seq(Nat)
  BY RenamerAssumption DEF DartName
<1>2. /\ Append(n.nums, k) \in Seq(Nat)
      /\ Append(n.nums, k) # n.nums /\ Append(n.nums, k) # <<>>
  BY <1>1, AppendProperties, EmptySeq
<1>3. /\ WithNumber(n, k) \in [text : Text, nums : Seq(Nat)]
      /\ WithNumber(n, k).text = n.text
      /\ WithNumber(n, k).nums = Append(n.nums, k)
  BY <1>1, <1>2 DEF WithNumber
<1>4. QED
  BY <1>2, <1>3 DEF DartName

(* Numbers can be told from the names they are appended to. *)
LEMMA WithNumberApart ==
  ASSUME NEW n \in Name, NEW o \in Name, NEW k \in Nat, NEW j \in Nat,
         WithNumber(n, k) = WithNumber(o, j)
  PROVE  n = o /\ k = j
<1>1. /\ n.nums \in Seq(Nat) /\ o.nums \in Seq(Nat)
      /\ n = [text |-> n.text, nums |-> n.nums] /\ o = [text |-> o.text, nums |-> o.nums]
  BY RenamerAssumption DEF DartName
<1>2. /\ WithNumber(n, k).nums = Append(n.nums, k) /\ WithNumber(n, k).text = n.text
      /\ WithNumber(o, j).nums = Append(o.nums, j) /\ WithNumber(o, j).text = o.text
  BY RenamerAssumption DEF WithNumber, DartName
<1>3. n.nums = o.nums /\ k = j
  <2>1. Append(n.nums, k) = Append(o.nums, j)
    BY <1>2
  <2>2. QED
    BY <1>1, <2>1, AppendInjective
<1>4. QED
  BY <1>1, <1>2, <1>3

(* A name with a number extends the name. *)
LEMMA WithNumberExtends ==
  ASSUME NEW n \in Name, NEW k \in Nat
  PROVE  Extends(WithNumber(n, k), n)
<1>1. n.nums \in Seq(Nat) /\ WithNumber(n, k).nums = Append(n.nums, k)
  BY RenamerAssumption DEF WithNumber, DartName
<1>2. Append(n.nums, k) # <<>> /\ Append(n.nums, k)[Len(Append(n.nums, k))] = k
  BY <1>1
<1>3. QED
  BY <1>1, <1>2 DEF Extends

(* Different numbers make different names of a name, and names of two names are *)
(* the same only if one of these extends the other. *)
LEMMA NumberedApart ==
  ASSUME NEW n \in Name, NEW o \in Name, NEW k \in Nat, NEW j \in Nat,
         Numbered(n, k) = Numbered(o, j)
  PROVE  (n = o /\ k = j) \/ Ambiguous(n, o)
<1>1. /\ (k = 0 /\ Numbered(n, k) = n) \/ Numbered(n, k) = WithNumber(n, k)
      /\ (j = 0 /\ Numbered(o, j) = o) \/ Numbered(o, j) = WithNumber(o, j)
  BY DEF Numbered, KeywordRename
<1>2. CASE n # o
  <2>1. ~(Numbered(n, k) = WithNumber(n, k) /\ Numbered(o, j) = WithNumber(o, j))
    BY <1>2, WithNumberApart
  <2>2. CASE Numbered(n, k) = n
    <3>1. n = WithNumber(o, j)
      BY <1>1, <1>2, <2>2
    <3>2. QED
      BY <3>1, WithNumberExtends DEF Ambiguous
  <2>3. CASE Numbered(o, j) = o
    <3>1. o = WithNumber(n, k)
      BY <1>1, <1>2, <2>3
    <3>2. QED
      BY <3>1, WithNumberExtends DEF Ambiguous
  <2>4. QED
    BY <1>1, <2>1, <2>2, <2>3
<1>3. CASE n = o
  BY <1>1, <1>3, WithNumberApart, NumberedName
<1>4. QED
  BY <1>2, <1>3

(* Neither a keyword nor, with a number, a member of JObject. *)
LEMMA NumberedFree ==
  ASSUME NEW n \in Name, NEW k \in Nat, n \in Defined => k > 0
  PROVE  Numbered(n, k) \in DartName /\ Numbered(n, k) \notin Keyword \cup Defined
BY NumberedName, RenamerAssumption DEF Numbered, KeywordRename

(* What _renameConflict returns. *)
LEMMA ConflictNumbered ==
  ASSUME NEW counts \in Counts, NEW n \in Name
  PROVE  /\ RenameConflict(counts, n) = Numbered(n, counts[n])
         /\ counts[n] \in Nat
         /\ RenameConflict(counts, n) \in DartName
         /\ Counted(counts, n) \in Counts
         /\ Counted(counts, n)[n] = counts[n] + 1
         /\ \A o \in Name : o # n => Counted(counts, n)[o] = counts[o]
BY NumberedName, RenamerAssumption DEF RenameConflict, Numbered, KeywordRename, Counts, Counted

-----------------------------------------------------------------------------
(* Programs. *)

(* What RenamerAssumption says of one class of the program. *)
LEMMA ProgramFacts ==
  ASSUME TypeOK, NEW c \in Class
  PROVE  /\ program.super[c] \in Class \cup {Root}
         /\ program.methods[c] \in Seq(Method)
         /\ program.fields[c] \in Seq(Name)
         /\ program.rank[c] \in Nat
         /\ program.super[c] # Root => program.rank[program.super[c]] < program.rank[c]
         /\ \A j, k \in DOMAIN program.methods[c] :
              program.methods[c][j] = program.methods[c][k] => j = k
         /\ \A j, k \in DOMAIN program.fields[c] :
              program.fields[c][j] = program.fields[c][k] => j = k
BY RenamerAssumption DEF TypeOK

(* A member is a method or, after the methods, a field. *)
LEMMA Positions ==
  ASSUME NEW a \in Nat, NEW b \in Nat, NEW m, m = a + b
  PROVE  /\ m \in Nat
         /\ \A k \in 1..m : k <= a => k \in 1..a
         /\ \A k \in 1..m : k > a => k - a \in 1..b
         /\ \A k \in 1..m : k <= a \/ k > a
OBVIOUS

(* Members, and what they are named. *)
LEMMA MemberFacts ==
  ASSUME TypeOK, NEW c \in Class
  PROVE  /\ Len(program.methods[c]) \in Nat /\ Len(program.fields[c]) \in Nat
         /\ Members(c) \in Nat /\ Members(c) = Len(program.methods[c]) + Len(program.fields[c])
         /\ \A k \in 1..Len(program.methods[c]) :
              /\ program.methods[c][k] \in Method /\ program.methods[c][k].name \in Name
         /\ \A k \in 1..Members(c) : k > Len(program.methods[c]) =>
              program.fields[c][k - Len(program.methods[c])] \in Name
         /\ \A k \in 1..Members(c) : JavaName(c, k) \in Name
<1>1. program.methods[c] \in Seq(Method) /\ program.fields[c] \in Seq(Name)
  BY ProgramFacts
<1>2. Len(program.methods[c]) \in Nat /\ Len(program.fields[c]) \in Nat
  BY <1>1
<1>3. \A k \in 1..Len(program.methods[c]) :
        program.methods[c][k] \in Method /\ program.methods[c][k].name \in Name
  BY <1>1, RenamerAssumption
<1>4. Members(c) = Len(program.methods[c]) + Len(program.fields[c])
  BY DEF Members
<1>5. /\ Members(c) \in Nat
      /\ \A k \in 1..Members(c) :
           /\ k <= Len(program.methods[c]) => k \in 1..Len(program.methods[c])
           /\ k > Len(program.methods[c]) =>
                k - Len(program.methods[c]) \in 1..Len(program.fields[c])
           /\ k <= Len(program.methods[c]) \/ k > Len(program.methods[c])
  <2>1. PICK a \in Nat, b \in Nat :
          a = Len(program.methods[c]) /\ b = Len(program.fields[c])
    BY <1>2
  <2>2. Members(c) = a + b
    BY <1>4, <2>1
  <2>3. /\ Members(c) \in Nat
        /\ \A k \in 1..Members(c) :
             /\ k <= a => k \in 1..a
             /\ k > a => k - a \in 1..b
             /\ k <= a \/ k > a
    BY <2>2, Positions
  <2>4. QED
    BY <2>1, <2>3
<1>6. \A k \in 1..Members(c) : k > Len(program.methods[c]) =>
        program.fields[c][k - Len(program.methods[c])] \in Name
  <2>1. \A j \in 1..Len(program.fields[c]) : program.fields[c][j] \in Name
    BY <1>1
  <2>2. QED
    BY <1>5, <2>1
<1>7. \A k \in 1..Members(c) : JavaName(c, k) \in Name
  BY <1>3, <1>5, <1>6 DEF JavaName
<1>8. QED
  BY <1>2, <1>3, <1>4, <1>5, <1>6, <1>7

-----------------------------------------------------------------------------
(* Visits. *)

VisitsInv == TypeOK /\ StackInv /\ VisitInv

(* The stack when a visit begins. *)
LEMMA Push ==
  ASSUME stack \in Seq(Class), NEW c \in Class, stack' = <<c>> \o stack
  PROVE  /\ stack' \in Seq(Class)
         /\ DOMAIN stack' = 1..Len(stack) + 1 /\ stack'[1] = c
         /\ \A i \in DOMAIN stack' : i # 1 => i - 1 \in DOMAIN stack /\ stack'[i] = stack[i - 1]
         /\ \A d : OnStack(d)' <=> d = c \/ OnStack(d)
<1>1. /\ stack' \in Seq(Class)
      /\ DOMAIN stack' = 1..Len(stack) + 1 /\ stack'[1] = c
      /\ \A i \in 1..Len(stack) + 1 : i # 1 => i - 1 \in 1..Len(stack) /\ stack'[i] = stack[i - 1]
      /\ \A i \in 1..Len(stack) : i + 1 \in 1..Len(stack) + 1 /\ stack'[i + 1] = stack[i]
      /\ 1 \in 1..Len(stack) + 1
  OBVIOUS
<1>2. DOMAIN stack = 1..Len(stack)
  OBVIOUS
<1>3. ASSUME NEW d PROVE OnStack(d)' <=> d = c \/ OnStack(d)
  <2>1. ASSUME NEW i \in 1..Len(stack) + 1, stack'[i] = d PROVE d = c \/ OnStack(d)
    BY <1>1, <1>2, <2>1 DEF OnStack
  <2>2. ASSUME NEW i \in 1..Len(stack), stack[i] = d
        PROVE  \E j \in 1..Len(stack) + 1 : stack'[j] = d
    BY <1>1, <2>2
  <2>3. QED
    BY <1>1, <1>2, <2>1, <2>2, Zenon DEF OnStack
<1>4. QED
  BY <1>1, <1>2, <1>3

(* The stack when a visit returns. *)
LEMMA Pop ==
  ASSUME stack \in Seq(Class), stack # <<>>, stack' = Tail(stack)
  PROVE  /\ stack' \in Seq(Class)
         /\ \A i \in DOMAIN stack' : i + 1 \in DOMAIN stack /\ stack'[i] = stack[i + 1]
         /\ \A d : OnStack(d) <=> d = Head(stack) \/ OnStack(d)'
<1>1. /\ stack' \in Seq(Class) /\ Len(stack) \in Nat \ {0}
      /\ DOMAIN stack' = 1..Len(stack) - 1 /\ DOMAIN stack = 1..Len(stack)
      /\ \A i \in 1..Len(stack) - 1 : stack'[i] = stack[i + 1]
      /\ Head(stack) = stack[1]
  OBVIOUS
<1>2. /\ \A i \in 1..Len(stack) - 1 : i + 1 \in 1..Len(stack)
      /\ \A i \in 1..Len(stack) : i # 1 => i - 1 \in 1..Len(stack) - 1 /\ (i - 1) + 1 = i
      /\ 1 \in 1..Len(stack)
  BY <1>1
<1>3. ASSUME NEW d PROVE OnStack(d) <=> d = Head(stack) \/ OnStack(d)'
  <2>1. ASSUME NEW i \in 1..Len(stack), stack[i] = d
        PROVE  d = Head(stack) \/ \E j \in 1..Len(stack) - 1 : stack'[j] = d
    BY <1>1, <1>2, <2>1
  <2>2. ASSUME NEW i \in 1..Len(stack) - 1, stack'[i] = d
        PROVE  \E j \in 1..Len(stack) : stack[j] = d
    BY <1>1, <1>2, <2>2
  <2>3. QED
    BY <1>1, <1>2, <2>1, <2>2, Zenon DEF OnStack
<1>4. QED
  BY <1>1, <1>2, <1>3

(* The class being visited. *)
LEMMA Top ==
  ASSUME VisitsInv, stack # <<>>
  PROVE  /\ Head(stack) \in Class /\ Head(stack) \in renamed \ program.imported
         /\ 1 \in DOMAIN stack /\ Head(stack) = stack[1]
         /\ OnStack(Head(stack)) /\ ~Finished(Head(stack))
         /\ \A i \in DOMAIN stack : i = 1 \/ 1 < i
         /\ \A i \in DOMAIN stack : i # 1 => stack[i] # Head(stack) /\ stack[i] \notin inherited
         /\ ~OnStack(program.super[Head(stack)])
<1>1. /\ stack \in Seq(Class) /\ DOMAIN stack = 1..Len(stack) /\ Len(stack) \in Nat \ {0}
      /\ Head(stack) = stack[1] /\ Head(stack) \in Class
  BY DEF VisitsInv, TypeOK
<1>2. 1 \in DOMAIN stack /\ \A i \in DOMAIN stack : i = 1 \/ 1 < i
  BY <1>1
<1>3. \A i \in DOMAIN stack : stack[i] \in Class
  BY <1>1
<1>4. \A d \in Class : program.rank[d] \in Nat
  BY ProgramFacts DEF VisitsInv
<1>5. \A i \in DOMAIN stack : i # 1 =>
        program.rank[stack[1]] < program.rank[stack[i]] /\ stack[i] \notin inherited
  BY <1>2 DEF VisitsInv, StackInv
<1>6. \A i \in DOMAIN stack : i # 1 => stack[i] # Head(stack)
  BY <1>1, <1>3, <1>4, <1>5
<1>7. ASSUME OnStack(program.super[Head(stack)]) PROVE FALSE
  <2>1. PICK i \in DOMAIN stack : stack[i] = program.super[Head(stack)]
    BY <1>7 DEF OnStack
  <2>2. stack[i] # Root
    BY <1>3, RenamerAssumption
  <2>3. program.rank[stack[i]] < program.rank[stack[1]]
    BY <1>1, <2>1, <2>2, ProgramFacts DEF VisitsInv
  <2>4. CASE i = 1
    BY <1>1, <1>4, <2>3, <2>4
  <2>5. CASE i # 1
    BY <1>1, <1>3, <1>4, <1>5, <2>3, <2>5
  <2>6. QED
    BY <2>4, <2>5
<1>8. QED
  BY <1>1, <1>2, <1>5, <1>6, <1>7 DEF VisitsInv, StackInv, OnStack, Finished

(* The numbers that a symbol file has. *)
LEMMA ImportedNumber ==
  ASSUME NEW p \in Programs, NEW c \in Class, NEW m \in Method
  PROVE  IF \E j \in DOMAIN p.methods[c] : p.methods[c][j] = m
           THEN ImportedNums(p, c)[m] \in Nat
           ELSE ImportedNums(p, c)[m] = None
<1>1. ASSUME NEW at \in DOMAIN p.methods[c]
      PROVE  Cardinality({k \in 1..at - 1 : p.methods[c][k].name = m.name})
               + (IF m.name \in Defined THEN 1 ELSE 0) \in Nat
  <2>1. p.methods[c] \in Seq(Method)
    BY RenamerAssumption
  <2>2. PICK b \in Int : b = at - 1
    BY <2>1
  <2>3. IsFiniteSet(1..at - 1)
    BY <2>2, FS_Interval
  <2>4. Cardinality({k \in 1..at - 1 : p.methods[c][k].name = m.name}) \in Nat
    BY <2>3, FS_Subset, FS_CardinalityType
  <2>5. QED
    BY <2>4
<1>2. QED
  BY <1>1 DEF ImportedNums

(* No visit has begun. *)
LEMMA VisitsInit == Init => VisitsInv
<1> SUFFICES ASSUME Init PROVE VisitsInv
  OBVIOUS
<1>1. program \in Programs /\ program.imported \subseteq Class
  BY RenamerAssumption DEF Init
<1>2. nums \in [Class -> [Method -> Nat \cup {None}]]
  <2>1. ASSUME NEW c \in Class PROVE ImportedNums(program, c) \in [Method -> Nat \cup {None}]
    <3>1. \A m \in Method : ImportedNums(program, c)[m] \in Nat \cup {None}
      BY <1>1, ImportedNumber
    <3>2. QED
      BY <3>1 DEF ImportedNums
  <2>2. QED
    BY <1>1, <2>1 DEF Init
<1>3. TypeOK
  BY <1>1, <1>2, EmptySeq DEF Init, TypeOK, Counts
<1>4. DOMAIN stack = {}
  BY DEF Init
<1>5. StackInv
  BY <1>4 DEF StackInv
<1>6. VisitInv
  <2>1. \A c \in Class : Members(c) \in Nat /\ done[c] = 0
    BY <1>3, MemberFacts DEF Init
  <2>2. inherited = {} /\ renamed = program.imported
    BY DEF Init
  <2>3. QED
    BY <2>1, <2>2 DEF VisitInv
<1>7. QED
  BY <1>3, <1>5, <1>6 DEF VisitsInv

(* A visit that begins keeps the types. *)
LEMMA VisitTypes ==
  ASSUME TypeOK, NEW c, Visit(c)
  PROVE  TypeOK'
<1>1. /\ classNameCounts \in Counts /\ c \in Class /\ Simple[c] \in Name
      /\ stack \in Seq(Class) /\ renamed \subseteq Class
  BY RenamerAssumption DEF TypeOK, Visit
<1>2. /\ RenameConflict(classNameCounts, Simple[c]) \in DartName
      /\ Counted(classNameCounts, Simple[c]) \in Counts
  BY <1>1, ConflictNumbered
<1>3. uniqueName' \in [Class -> DartName \cup {None}] /\ classNameCounts' \in Counts
  BY <1>1, <1>2 DEF TypeOK, Visit
<1>4. nameCounts' \in [Class -> Counts]
  BY DEF TypeOK, Visit, Counts
<1>5. stack' \in Seq(Class)
  BY <1>1, Push DEF Visit
<1>6. QED
  BY <1>1, <1>3, <1>4, <1>5 DEF TypeOK, Visit

(* A class that a visit begins with is the superclass of the one below it. *)
LEMMA VisitVisits ==
  ASSUME VisitsInv, NEW c, VisitNext(c) \/ (VisitSuper /\ c = program.super[Head(stack)])
  PROVE  VisitsInv'
<1>1. Visit(c) /\ (stack = <<>> \/ (stack # <<>> /\ c = program.super[Head(stack)]))
  <2>1. CASE VisitNext(c)
    <3>1. stack = <<>> /\ Visit(c)
      BY <2>1, Zenon DEF VisitNext
    <3>2. QED
      BY <3>1
  <2>2. CASE VisitSuper /\ c = program.super[Head(stack)]
    <3>1. stack # <<>>
      BY <2>2 DEF VisitSuper
    <3>2. Visit(c)
      BY <2>2 DEF VisitSuper, Visit
    <3>3. QED
      BY <2>2, <3>1, <3>2
  <2>3. QED
    BY <2>1, <2>2
<1>2. TypeOK'
  BY <1>1, VisitTypes DEF VisitsInv
<1>3. /\ c \in Class /\ c \notin renamed /\ c \notin inherited /\ c \notin program.imported
      /\ stack \in Seq(Class) /\ program' = program /\ inherited' = inherited /\ done' = done
      /\ renamed' = renamed \cup {c}
      /\ stack' = <<c>> \o stack
  BY <1>1 DEF Visit, VisitsInv, VisitInv, TypeOK
<1>4. /\ DOMAIN stack' = 1..Len(stack) + 1 /\ stack'[1] = c
      /\ \A i \in DOMAIN stack' : i # 1 => i - 1 \in DOMAIN stack /\ stack'[i] = stack[i - 1]
      /\ \A d : OnStack(d)' <=> d = c \/ OnStack(d)
  BY <1>3, Push
<1>5. \A i \in DOMAIN stack : stack[i] \notin inherited
  <2>1. CASE stack = <<>>
    BY <2>1
  <2>2. CASE stack # <<>>
    <3>1. c = program.super[Head(stack)]
      BY <1>1, <2>2
    <3>2. Head(stack) \notin inherited
      BY <1>3, <2>2, <3>1, Top DEF VisitsInv, VisitInv, Finished
    <3>3. QED
      BY <2>2, <3>2, Top
  <2>3. QED
    BY <2>1, <2>2
<1>6. \A i \in DOMAIN stack : program.rank[c] < program.rank[stack[i]]
  <2>1. CASE stack = <<>>
    BY <2>1
  <2>2. CASE stack # <<>>
    <3>1. c = program.super[Head(stack)] /\ c # Root
      BY <1>1, <1>3, <2>2, RenamerAssumption
    <3>2. Head(stack) \in Class /\ Head(stack) = stack[1] /\ 1 \in DOMAIN stack
      BY <2>2, Top
    <3>3. /\ program.rank[c] \in Nat /\ program.rank[stack[1]] \in Nat
          /\ program.rank[c] < program.rank[stack[1]]
      BY <1>3, <3>1, <3>2, ProgramFacts DEF VisitsInv
    <3>4. ASSUME NEW i \in DOMAIN stack PROVE program.rank[c] < program.rank[stack[i]]
      <4>1. stack[i] \in Class
        BY <1>3
      <4>2. program.rank[stack[i]] \in Nat
        BY <4>1, ProgramFacts DEF VisitsInv
      <4>3. i = 1 \/ program.rank[stack[1]] < program.rank[stack[i]]
        BY <2>2, <3>2, Top DEF VisitsInv, StackInv
      <4>4. QED
        BY <3>3, <4>2, <4>3
    <3>5. QED
      BY <3>4
  <2>3. QED
    BY <2>1, <2>2
<1>7. StackInv'
  <2>1. \A i \in DOMAIN stack' : stack'[i] \in renamed' \ program'.imported
    BY <1>3, <1>4 DEF VisitsInv, StackInv
  <2>2. ASSUME NEW i \in DOMAIN stack', NEW j \in DOMAIN stack', i < j
        PROVE  /\ program'.rank[stack'[i]] < program'.rank[stack'[j]]
               /\ stack'[j] \notin inherited'
    <3>1. i \in Int /\ j \in Int /\ j # 1 /\ j - 1 \in DOMAIN stack /\ stack'[j] = stack[j - 1]
      BY <1>3, <1>4, <2>2
    <3>2. CASE i = 1
      BY <1>3, <1>4, <1>5, <1>6, <3>1, <3>2
    <3>3. CASE i # 1
      <4>1. i - 1 \in DOMAIN stack /\ stack'[i] = stack[i - 1] /\ i - 1 < j - 1
        BY <1>4, <2>2, <3>1, <3>3
      <4>2. QED
        BY <1>3, <3>1, <4>1 DEF VisitsInv, StackInv
    <3>4. QED
      BY <3>2, <3>3
  <2>3. QED
    BY <2>1, <2>2 DEF StackInv
<1>8. \A d : Finished(d) => Finished(d)'
  BY <1>3, <1>4 DEF Finished, Members
<1>9. VisitInv'
  BY <1>3, <1>4, <1>8 DEF VisitInv, VisitsInv, Members
<1>10. QED
  BY <1>2, <1>7, <1>9 DEF VisitsInv

(* A class has the counts of a superclass that is finished. *)
LEMMA InheritVisits ==
  ASSUME VisitsInv, Inherit
  PROVE  VisitsInv'
<1> DEFINE c == Head(stack)
           s == program.super[c]
<1>1. /\ stack # <<>> /\ c \notin inherited /\ s \in renamed \cup {Root}
      /\ inherited' = inherited \cup {c}
      /\ program' = program /\ renamed' = renamed /\ stack' = stack /\ done' = done
  BY DEF Inherit
<1>2. /\ c \in Class /\ c \in renamed \ program.imported /\ OnStack(c) /\ ~OnStack(s)
      /\ \A i \in DOMAIN stack : i = 1 \/ 1 < i
      /\ \A i \in DOMAIN stack : i # 1 => stack[i] # c /\ stack[i] \notin inherited
  BY <1>1, Top
<1>3. TypeOK'
  <2>1. s # Root => s \in Class
    BY <1>2, ProgramFacts DEF VisitsInv
  <2>2. nameCounts' \in [Class -> Counts]
    BY <1>2, <2>1 DEF Inherit, VisitsInv, TypeOK, Counts
  <2>3. QED
    BY <1>1, <1>2, <2>2 DEF TypeOK, VisitsInv, Inherit
<1>4. StackInv'
  <2>1. \A i, j \in DOMAIN stack : i < j => j # 1
    BY DEF VisitsInv, TypeOK
  <2>2. QED
    BY <1>1, <1>2, <2>1 DEF VisitsInv, StackInv
<1>5. \A d : OnStack(d)' <=> OnStack(d)
  BY <1>1 DEF OnStack
<1>6. \A d : Finished(d) => Finished(d)'
  BY <1>1, <1>5 DEF Finished, Members
<1>7. s \in Class \ program.imported => Finished(s)
  BY <1>1, <1>2, RenamerAssumption DEF VisitsInv, VisitInv
<1>8. VisitInv'
  BY <1>1, <1>2, <1>5, <1>6, <1>7 DEF VisitInv, VisitsInv, Members
<1>9. QED
  BY <1>3, <1>4, <1>8 DEF VisitsInv

(* A visit that returns is finished. *)
LEMMA ReturnVisits ==
  ASSUME VisitsInv, NEW c, c = Head(stack), Return
  PROVE  VisitsInv'
<1>1. /\ stack # <<>> /\ c \in inherited /\ done[c] = Members(c) /\ stack' = Tail(stack)
      /\ program' = program /\ renamed' = renamed /\ inherited' = inherited /\ done' = done
      /\ stack \in Seq(Class)
  BY DEF Return, VisitsInv, TypeOK
<1>2. /\ stack' \in Seq(Class)
      /\ \A i \in DOMAIN stack' : i + 1 \in DOMAIN stack /\ stack'[i] = stack[i + 1]
      /\ \A d : OnStack(d) <=> d = c \/ OnStack(d)'
  BY <1>1, Pop
<1>3. c \in Class /\ \A i \in DOMAIN stack : i # 1 => stack[i] # c
  BY <1>1, Top
<1>4. TypeOK'
  BY <1>1, <1>2 DEF TypeOK, VisitsInv, Return
<1>5. StackInv'
  <2>1. \A i, j \in DOMAIN stack' : i < j => i + 1 < j + 1
    BY <1>2
  <2>2. QED
    BY <1>1, <1>2, <2>1 DEF VisitsInv, StackInv
<1>6. ~OnStack(c)'
  <2>1. \A i \in DOMAIN stack' : i + 1 # 1
    BY <1>2
  <2>2. QED
    BY <1>2, <1>3, <2>1 DEF OnStack
<1>7. \A d : Finished(d) \/ d = c => Finished(d)'
  BY <1>1, <1>2, <1>6 DEF Finished, Members
<1>8. VisitInv'
  BY <1>1, <1>2, <1>7 DEF VisitInv, VisitsInv, Members
<1>9. QED
  BY <1>4, <1>5, <1>8 DEF VisitsInv

(* Naming a member of the class being visited. *)
LEMMA MemberVisits ==
  ASSUME VisitsInv, NEW c \in Class, NEW k \in 1..Members(c), AtMember(c, k), TypeOK'
  PROVE  VisitsInv'
<1>1. /\ stack # <<>> /\ c = Head(stack) /\ c \in inherited
      /\ done' = [done EXCEPT ![c] = k]
      /\ program' = program /\ renamed' = renamed /\ inherited' = inherited /\ stack' = stack
  BY DEF AtMember
<1>2. c \in renamed \ program.imported /\ OnStack(c) /\ ~Finished(c)
  BY <1>1, Top
<1>3. \A d : OnStack(d)' <=> OnStack(d)
  BY <1>1 DEF OnStack
<1>4. \A d \in Class : d # c => done'[d] = done[d]
  BY <1>1 DEF VisitsInv, TypeOK
<1>5. done'[c] = k /\ k <= Members(c)
  BY <1>1, MemberFacts DEF VisitsInv, TypeOK
<1>6. \A d \in Class : Finished(d) => Finished(d)'
  BY <1>1, <1>2, <1>3, <1>4 DEF Finished, Members
<1>7. StackInv'
  BY <1>1 DEF VisitsInv, StackInv
<1>8. VisitInv'
  BY <1>1, <1>2, <1>3, <1>4, <1>5, <1>6 DEF VisitInv, VisitsInv, Members
<1>9. QED
  BY <1>7, <1>8 DEF VisitsInv

(* The member that RenameMethod or RenameField names. *)
LEMMA MethodVisits ==
  ASSUME VisitsInv, NEW c \in Class, NEW k \in 1..Members(c), RenameMethod(c, k)
  PROVE  VisitsInv'
<1> DEFINE m == program.methods[c][k]
           n == m.name
<1>1. AtMember(c, k) /\ k <= Len(program.methods[c]) /\ TypeOK
  BY DEF RenameMethod, VisitsInv
<1>2. k \in 1..Len(program.methods[c]) /\ k \in Nat
  BY <1>1, MemberFacts
<1>3. m \in Method /\ n \in Name
  BY <1>1, <1>2, MemberFacts
<1>4. nameCounts[c] \in Counts
  BY <1>1 DEF TypeOK
<1>5. /\ RenameConflict(nameCounts[c], n) \in DartName
      /\ Counted(nameCounts[c], n) \in Counts /\ nameCounts[c][n] \in Nat
  BY <1>3, <1>4, ConflictNumbered
<1>6. KeywordRename(n) \in DartName /\ \A j \in Nat : WithNumber(n, j) \in DartName
  BY <1>3, NumberedName, RenamerAssumption DEF KeywordRename
<1>7. SuperNum(c, m) \in Nat \cup {None}
  BY <1>1, <1>3, ProgramFacts DEF SuperNum, TypeOK
<1>8. /\ methodName' \in [Class -> [Method -> DartName \cup {None}]]
      /\ nums' \in [Class -> [Method -> Nat \cup {None}]]
      /\ nameCounts' \in [Class -> Counts]
  <2>1. CASE /\ SuperNum(c, m) # None
             /\ methodName' = [methodName EXCEPT ![c][m] =
                                 IF SuperNum(c, m) = 0 THEN KeywordRename(n)
                                 ELSE WithNumber(n, SuperNum(c, m))]
             /\ nums' = [nums EXCEPT ![c][m] = SuperNum(c, m)]
             /\ UNCHANGED nameCounts
    BY <1>1, <1>3, <1>6, <1>7, <2>1 DEF TypeOK
  <2>2. CASE /\ methodName' = [methodName EXCEPT ![c][m] = RenameConflict(nameCounts[c], n)]
             /\ nameCounts' = [nameCounts EXCEPT ![c] = Counted(@, n)]
             /\ nums' = [nums EXCEPT ![c][m] = nameCounts[c][n]]
    BY <1>1, <1>3, <1>5, <2>2 DEF TypeOK
  <2>3. QED
    BY <2>1, <2>2 DEF RenameMethod
<1>9. /\ done' = [done EXCEPT ![c] = k] /\ fieldName' = fieldName
      /\ UNCHANGED <<program, renamed, stack, inherited, classNameCounts, uniqueName>>
  BY <1>1 DEF AtMember, RenameMethod
<1>10. TypeOK'
  BY <1>1, <1>2, <1>8, <1>9 DEF TypeOK
<1>11. QED
  BY <1>1, <1>10, MemberVisits

(* The same for a field. *)
LEMMA FieldVisits ==
  ASSUME VisitsInv, NEW c \in Class, NEW k \in 1..Members(c), RenameField(c, k)
  PROVE  VisitsInv'
<1> DEFINE n == program.fields[c][k - Len(program.methods[c])]
<1>1. AtMember(c, k) /\ k > Len(program.methods[c]) /\ TypeOK
  BY DEF RenameField, VisitsInv
<1>2. k \in Nat /\ n \in Name /\ nameCounts[c] \in Counts
  <2>1. Members(c) \in Nat /\ n \in Name
    BY <1>1, MemberFacts
  <2>2. k \in Nat
    BY <2>1
  <2>3. QED
    BY <1>1, <2>1, <2>2 DEF TypeOK
<1>3. /\ RenameConflict(nameCounts[c], n) \in DartName
      /\ Counted(nameCounts[c], n) \in Counts
  BY <1>2, ConflictNumbered
<1>4. /\ fieldName' = [fieldName EXCEPT ![c][n] = RenameConflict(nameCounts[c], n)]
      /\ nameCounts' = [nameCounts EXCEPT ![c] = Counted(@, n)]
      /\ UNCHANGED <<nums, methodName>>
  BY DEF RenameField
<1>5. /\ fieldName' \in [Class -> [Name -> DartName \cup {None}]]
      /\ nameCounts' \in [Class -> Counts]
  BY <1>1, <1>2, <1>3, <1>4 DEF TypeOK
<1>6. /\ done' = [done EXCEPT ![c] = k]
      /\ UNCHANGED <<program, renamed, stack, inherited, classNameCounts, uniqueName>>
  BY <1>1 DEF AtMember
<1>7. TypeOK'
  BY <1>1, <1>2, <1>4, <1>5, <1>6 DEF TypeOK
<1>8. QED
  BY <1>1, <1>7, MemberVisits


(* Every step keeps the invariant of the visits. *)
LEMMA VisitsNext == VisitsInv /\ [Next]_vars => VisitsInv'
<1> SUFFICES ASSUME VisitsInv, [Next]_vars PROVE VisitsInv'
  OBVIOUS
<1>1. CASE Next
  <2>1. ASSUME NEW c \in Class, VisitNext(c) PROVE VisitsInv'
    BY <2>1, VisitVisits
  <2>2. ASSUME VisitSuper PROVE VisitsInv'
    <3>1. PICK c : c = program.super[Head(stack)]
      OBVIOUS
    <3>2. QED
      BY <2>2, <3>1, VisitVisits
  <2>3. ASSUME Return PROVE VisitsInv'
    <3>1. PICK c : c = Head(stack)
      OBVIOUS
    <3>2. QED
      BY <2>3, <3>1, ReturnVisits
  <2>4. QED
    BY <1>1, <2>1, <2>2, <2>3, InheritVisits, MethodVisits, FieldVisits, Zenon DEF Next
<1>2. CASE UNCHANGED vars
  BY <1>2 DEF vars, VisitsInv, TypeOK, StackInv, VisitInv, Finished, OnStack, Members
<1>3. QED
  BY <1>1, <1>2

-----------------------------------------------------------------------------
(* The names of classes. *)

ClassInv == VisitsInv /\ ClassNameInv /\ ClassesDistinct

(* The name of a class has a number that no class with its simple name has. *)
LEMMA ClassVisit ==
  ASSUME ClassInv, NEW c, Visit(c)
  PROVE  ClassNameInv' /\ ClassesDistinct'
<1>1. /\ c \in Class /\ classNameCounts \in Counts /\ uniqueName \in [Class -> DartName \cup {None}]
      /\ \A d \in Class : Simple[d] \in Name
  BY RenamerAssumption DEF ClassInv, VisitsInv, TypeOK, Visit
<1>2. PICK n \in Name, h \in Nat : n = Simple[c] /\ h = classNameCounts[n]
  BY <1>1 DEF Counts
<1>3. /\ uniqueName'[c] = Numbered(n, h)
      /\ \A d \in Class : d # c => uniqueName'[d] = uniqueName[d]
      /\ classNameCounts'[n] = h + 1
      /\ \A o \in Name : o # n => classNameCounts'[o] = classNameCounts[o]
  BY <1>1, <1>2, ConflictNumbered DEF Visit
<1>4. \A o \in Name : /\ classNameCounts[o] \in Nat /\ classNameCounts'[o] \in Nat
                      /\ classNameCounts[o] <= classNameCounts'[o]
  BY <1>1, <1>2, <1>3 DEF Counts
<1>5. ASSUME NEW d \in Class, d # c, uniqueName'[d] # None
      PROVE  \E k \in Nat : /\ k < classNameCounts[Simple[d]]
                            /\ uniqueName'[d] = Numbered(Simple[d], k)
  <2>1. PICK k \in 0..classNameCounts[Simple[d]] - 1 : uniqueName[d] = Numbered(Simple[d], k)
    BY <1>3, <1>5 DEF ClassInv, ClassNameInv
  <2>2. k \in Nat /\ k < classNameCounts[Simple[d]]
    BY <1>1, <1>4, <2>1
  <2>3. QED
    BY <1>3, <1>5, <2>1, <2>2
<1>6. ClassNameInv'
  <2>1. ASSUME NEW d \in Class, uniqueName'[d] # None
        PROVE  \E k \in 0..classNameCounts'[Simple[d]] - 1 : uniqueName'[d] = Numbered(Simple[d], k)
    <3>1. CASE d = c
      <4>1. h \in 0..classNameCounts'[n] - 1
        BY <1>2, <1>3
      <4>2. QED
        BY <1>2, <1>3, <3>1, <4>1
    <3>2. CASE d # c
      <4>1. PICK k \in Nat : /\ k < classNameCounts[Simple[d]]
                             /\ uniqueName'[d] = Numbered(Simple[d], k)
        BY <1>5, <2>1, <3>2
      <4>2. k \in 0..classNameCounts'[Simple[d]] - 1
        BY <1>1, <1>4, <4>1
      <4>3. QED
        BY <4>1, <4>2
    <3>3. QED
      BY <3>1, <3>2
  <2>2. ASSUME NEW d \in Class, d \in renamed' \ program'.imported
        PROVE  uniqueName'[d] # None
    <3>1. CASE d = c
      <4>1. uniqueName'[c] \in DartName
        BY <1>2, <1>3, NumberedName, RenamerAssumption DEF Numbered, KeywordRename
      <4>2. QED
        BY <3>1, <4>1, RenamerAssumption
    <3>2. CASE d # c
      BY <1>3, <2>2, <3>2 DEF Visit, ClassInv, ClassNameInv
    <3>3. QED
      BY <3>1, <3>2
  <2>3. QED
    BY <2>1, <2>2 DEF ClassNameInv
<1>7. ASSUME NEW d \in Class, d # c, uniqueName'[d] # None, uniqueName'[d] = uniqueName'[c]
      PROVE  Ambiguous(Simple[c], Simple[d]) /\ Ambiguous(Simple[d], Simple[c])
  <2>1. PICK k \in Nat : /\ k < classNameCounts[Simple[d]]
                         /\ uniqueName'[d] = Numbered(Simple[d], k)
    BY <1>5, <1>7
  <2>2. (n = Simple[d] /\ h = k) \/ Ambiguous(n, Simple[d])
    <3>1. Simple[d] \in Name /\ Numbered(n, h) = Numbered(Simple[d], k)
      BY <1>1, <1>3, <1>7, <2>1
    <3>2. QED
      BY <3>1, NumberedApart
  <2>3. ~(n = Simple[d] /\ h = k)
    BY <1>2, <2>1
  <2>4. QED
    BY <1>2, <2>2, <2>3 DEF Ambiguous
<1>8. ClassesDistinct'
  BY <1>3, <1>7 DEF ClassInv, ClassesDistinct
<1>9. QED
  BY <1>6, <1>8

(* No class has a name at first. *)
LEMMA ClassInit == Init => ClassInv
BY VisitsInit DEF Init, ClassInv, ClassNameInv, ClassesDistinct

(* Every step keeps the invariant of the class names. *)
LEMMA ClassNext == ClassInv /\ [Next]_vars => ClassInv'
<1> SUFFICES ASSUME ClassInv, [Next]_vars PROVE ClassInv'
  OBVIOUS
<1>1. VisitsInv'
  BY VisitsNext DEF ClassInv
<1>2. (\E c : Visit(c)) \/ UNCHANGED <<program, renamed, uniqueName, classNameCounts>>
  <2>1. (\E c \in Class : VisitNext(c)) \/ VisitSuper => \E c : Visit(c)
    BY DEF VisitNext, VisitSuper
  <2>2. Inherit \/ Return => UNCHANGED <<program, renamed, uniqueName, classNameCounts>>
    BY DEF Inherit, Return
  <2>3. ASSUME NEW c \in Class, NEW k \in 1..Members(c), RenameMethod(c, k) \/ RenameField(c, k)
        PROVE  UNCHANGED <<program, renamed, uniqueName, classNameCounts>>
    BY <2>3 DEF RenameMethod, RenameField, AtMember
  <2>4. UNCHANGED vars => UNCHANGED <<program, renamed, uniqueName, classNameCounts>>
    BY DEF vars
  <2>5. QED
    BY <2>1, <2>2, <2>3, <2>4 DEF Next
<1>3. ASSUME UNCHANGED <<program, renamed, uniqueName, classNameCounts>>
      PROVE  ClassNameInv' /\ ClassesDistinct'
  BY <1>3 DEF ClassInv, ClassNameInv, ClassesDistinct
<1>4. QED
  BY <1>1, <1>2, <1>3, ClassVisit DEF ClassInv

-----------------------------------------------------------------------------
(* The names of methods. *)

MethodsInv == VisitsInv /\ MethodInv /\ OverrideKeepsName

(* Members are named after those of the superclass, which is another class. *)
LEMMA SuperFinished ==
  ASSUME VisitsInv, NEW c \in inherited, program.super[c] # Root
  PROVE  /\ c \in Class /\ c \notin program.imported
         /\ program.super[c] \in Class /\ program.super[c] # c
         /\ program.super[c] \notin program.imported =>
              /\ Finished(program.super[c]) /\ program.super[c] \in inherited
              /\ done[program.super[c]] = Members(program.super[c])
<1>1. c \in Class /\ c \notin program.imported
  BY DEF VisitsInv, VisitInv, TypeOK
<1>2. program.super[c] \in Class /\ program.rank[program.super[c]] < program.rank[c]
  BY <1>1, ProgramFacts DEF VisitsInv
<1>3. program.super[c] # c
  BY <1>1, <1>2, ProgramFacts DEF VisitsInv
<1>4. program.super[c] \notin program.imported => Finished(program.super[c])
  BY <1>1, <1>2 DEF VisitsInv, VisitInv
<1>5. QED
  BY <1>1, <1>2, <1>3, <1>4 DEF Finished

(* The number of a method in the superclass. *)
LEMMA SuperNumber ==
  ASSUME MethodsInv, NEW c \in inherited, NEW m \in Method
  PROVE  /\ SuperNum(c, m) # None <=>
              /\ program.super[c] # Root
              /\ \E j \in DOMAIN program.methods[program.super[c]] :
                   program.methods[program.super[c]][j] = m
         /\ SuperNum(c, m) # None =>
              /\ SuperNum(c, m) \in Nat
              /\ program.super[c] \in program.imported =>
                   SuperNum(c, m) = ImportedNums(program, program.super[c])[m]
              /\ program.super[c] \notin program.imported =>
                   methodName[program.super[c]][m] = Numbered(m.name, SuperNum(c, m))
<1> DEFINE s == program.super[c]
<1>1. CASE s = Root
  BY <1>1 DEF SuperNum
<1>2. CASE s # Root
  <2>1. s \in Class /\ SuperNum(c, m) = nums[s][m]
    BY <1>2, SuperFinished DEF SuperNum, MethodsInv
  <2>2. nums[s][m] \in Nat \cup {None}
    BY <2>1 DEF MethodsInv, VisitsInv, TypeOK
  <2>3. CASE s \in program.imported
    <3>1. nums[s][m] = ImportedNums(program, s)[m]
      BY <2>1, <2>3 DEF MethodsInv, MethodInv
    <3>2. program \in Programs
      BY DEF MethodsInv, VisitsInv, TypeOK
    <3>3. QED
      BY <1>2, <2>1, <2>2, <2>3, <3>1, <3>2, ImportedNumber, RenamerAssumption
  <2>4. CASE s \notin program.imported
    <3>1. done[s] = Members(s)
      BY <1>2, <2>4, SuperFinished DEF MethodsInv
    <3>2. /\ nums[s][m] # None <=>
               \E k \in 1..Members(s) :
                 k <= Len(program.methods[s]) /\ program.methods[s][k] = m
          /\ nums[s][m] # None => methodName[s][m] = Numbered(m.name, nums[s][m])
      BY <2>1, <2>4, <3>1 DEF MethodsInv, MethodInv
    <3>3. \A k : k \in DOMAIN program.methods[s] <=>
                   k \in 1..Members(s) /\ k <= Len(program.methods[s])
      <4>1. DOMAIN program.methods[s] = 1..Len(program.methods[s])
        BY <2>1, ProgramFacts DEF MethodsInv, VisitsInv
      <4>2. PICK a \in Nat, b \in Nat :
              a = Len(program.methods[s]) /\ Members(s) = a + b
        BY <2>1, MemberFacts DEF MethodsInv, VisitsInv
      <4>3. QED
        BY <4>1, <4>2
    <3>4. QED
      BY <1>2, <2>1, <2>2, <2>4, <3>2, <3>3
  <2>5. QED
    BY <2>3, <2>4
<1>3. QED
  BY <1>1, <1>2

(* The methods that are named, with the k-th member. *)
LEMMA NamedNext ==
  ASSUME VisitsInv, NEW c \in Class, NEW k \in 1..Members(c), AtMember(c, k)
  PROVE  /\ c \in inherited /\ c = Head(stack) /\ ~Finished(c) /\ c \notin program.imported
         /\ k \in Nat /\ done[c] \in Nat /\ k = done[c] + 1 /\ done'[c] = k
         /\ 1..k = 1..done[c] \cup {k} /\ k \notin 1..done[c]
         /\ \A j \in 1..done[c] : j \in 1..Members(c)
         /\ \A d \in Class : d # c => done'[d] = done[d]
         /\ program' = program
<1>1. /\ stack # <<>> /\ c = Head(stack) /\ c \in inherited /\ k = done[c] + 1
      /\ done' = [done EXCEPT ![c] = k] /\ program' = program
      /\ done \in [Class -> Nat]
  BY DEF AtMember, VisitsInv, TypeOK
<1>2. /\ done[c] \in Nat /\ k \in Nat /\ 1..k = 1..done[c] \cup {k} /\ k \notin 1..done[c]
  BY <1>1
<1>3. \A j \in 1..done[c] : j \in 1..Members(c)
  <2>1. PICK h \in Nat : h = Members(c)
    BY MemberFacts DEF VisitsInv
  <2>2. QED
    BY <1>1, <1>2, <2>1
<1>4. QED
  BY <1>1, <1>2, <1>3, Top

(* What RenameMethod does to the numbers, names and counts. *)
LEMMA MethodStep ==
  ASSUME MethodsInv, NEW c \in Class, NEW k \in 1..Members(c), RenameMethod(c, k),
         NEW m, m = program.methods[c][k]
  PROVE  /\ AtMember(c, k) /\ k <= Len(program.methods[c]) /\ k \in DOMAIN program.methods[c]
         /\ m \in Method /\ m.name \in Name
         /\ nums'[c][m] \in Nat /\ methodName'[c][m] = Numbered(m.name, nums'[c][m])
         /\ \A o \in Method : o # m => /\ nums'[c][o] = nums[c][o]
                                       /\ methodName'[c][o] = methodName[c][o]
         /\ \A d \in Class : d # c => /\ nums'[d] = nums[d]
                                      /\ methodName'[d] = methodName[d]
         /\ SuperNum(c, m) # None => nums'[c][m] = SuperNum(c, m) /\ nameCounts' = nameCounts
         /\ SuperNum(c, m) = None =>
              /\ nums'[c][m] = nameCounts[c][m.name]
              /\ nameCounts' = [nameCounts EXCEPT ![c] = Counted(@, m.name)]
         /\ fieldName' = fieldName
<1>1. AtMember(c, k) /\ k <= Len(program.methods[c]) /\ TypeOK /\ c \in inherited
  BY DEF RenameMethod, MethodsInv, VisitsInv, AtMember
<1>2. k \in 1..Len(program.methods[c]) /\ k \in DOMAIN program.methods[c]
  BY <1>1, MemberFacts, ProgramFacts
<1>3. m \in Method /\ m.name \in Name
  BY <1>1, <1>2, MemberFacts
<1>4. /\ RenameConflict(nameCounts[c], m.name) = Numbered(m.name, nameCounts[c][m.name])
      /\ nameCounts[c][m.name] \in Nat
  BY <1>1, <1>3, ConflictNumbered DEF TypeOK
<1>5. CASE /\ SuperNum(c, m) # None
           /\ methodName' = [methodName EXCEPT ![c][m] =
                               IF SuperNum(c, m) = 0 THEN KeywordRename(m.name)
                               ELSE WithNumber(m.name, SuperNum(c, m))]
           /\ nums' = [nums EXCEPT ![c][m] = SuperNum(c, m)]
           /\ UNCHANGED nameCounts
  <2>1. SuperNum(c, m) \in Nat
    BY <1>1, <1>3, <1>5, SuperNumber
  <2>2. methodName'[c][m] = Numbered(m.name, SuperNum(c, m)) /\ nums'[c][m] = SuperNum(c, m)
    BY <1>1, <1>3, <1>5 DEF TypeOK, Numbered
  <2>3. /\ \A o \in Method : o # m => /\ nums'[c][o] = nums[c][o]
                                      /\ methodName'[c][o] = methodName[c][o]
        /\ \A d \in Class : d # c => /\ nums'[d] = nums[d]
                                     /\ methodName'[d] = methodName[d]
    BY <1>1, <1>3, <1>5 DEF TypeOK
  <2>4. QED
    BY <1>1, <1>2, <1>3, <1>5, <2>1, <2>2, <2>3 DEF RenameMethod
<1>6. CASE /\ SuperNum(c, m) = None
           /\ methodName' = [methodName EXCEPT ![c][m] = RenameConflict(nameCounts[c], m.name)]
           /\ nameCounts' = [nameCounts EXCEPT ![c] = Counted(@, m.name)]
           /\ nums' = [nums EXCEPT ![c][m] = nameCounts[c][m.name]]
  <2>1. /\ methodName'[c][m] = Numbered(m.name, nameCounts[c][m.name])
        /\ nums'[c][m] = nameCounts[c][m.name]
    BY <1>1, <1>3, <1>4, <1>6 DEF TypeOK
  <2>2. /\ \A o \in Method : o # m => /\ nums'[c][o] = nums[c][o]
                                      /\ methodName'[c][o] = methodName[c][o]
        /\ \A d \in Class : d # c => /\ nums'[d] = nums[d]
                                     /\ methodName'[d] = methodName[d]
    BY <1>1, <1>3, <1>6 DEF TypeOK
  <2>3. QED
    BY <1>1, <1>2, <1>3, <1>4, <1>6, <2>1, <2>2 DEF RenameMethod
<1>7. QED
  BY <1>5, <1>6 DEF RenameMethod

(* A method that is named overrides one that was, or is one of a class whose *)
(* subclasses have no names yet. *)
LEMMA MethodKeeps ==
  ASSUME MethodsInv, NEW c \in Class, NEW k \in 1..Members(c), RenameMethod(c, k)
  PROVE  MethodInv' /\ OverrideKeepsName'
<1>1. PICK m : m = program.methods[c][k]
  OBVIOUS
<1>2. /\ AtMember(c, k) /\ k <= Len(program.methods[c]) /\ k \in DOMAIN program.methods[c]
      /\ m \in Method
      /\ nums'[c][m] \in Nat /\ methodName'[c][m] = Numbered(m.name, nums'[c][m])
      /\ \A o \in Method : o # m => /\ nums'[c][o] = nums[c][o]
                                    /\ methodName'[c][o] = methodName[c][o]
      /\ \A d \in Class : d # c => /\ nums'[d] = nums[d]
                                   /\ methodName'[d] = methodName[d]
      /\ SuperNum(c, m) # None => nums'[c][m] = SuperNum(c, m)
  BY <1>1, MethodStep
<1>3. /\ c \in inherited /\ ~Finished(c) /\ c \notin program.imported
      /\ done'[c] = k /\ 1..k = 1..done[c] \cup {k} /\ k \notin 1..done[c]
      /\ \A j \in 1..done[c] : j \in 1..Members(c)
      /\ \A d \in Class : d # c => done'[d] = done[d]
      /\ program' = program
  BY <1>2, NamedNext DEF MethodsInv
<1>4. \A j \in 1..done[c] : j <= Len(program.methods[c]) =>
        program.methods[c][j] # m /\ program.methods[c][j] \in Method
  <2>1. \A j \in 1..done[c] : j <= Len(program.methods[c]) =>
          j \in DOMAIN program.methods[c] /\ program.methods[c][j] \in Method
    <3>1. program.methods[c] \in Seq(Method)
      BY ProgramFacts DEF MethodsInv, VisitsInv
    <3>2. PICK a \in Nat : a = Len(program.methods[c])
      BY <3>1
    <3>3. \A j \in 1..done[c] : j <= a => j \in 1..a
      BY <1>3, <3>2
    <3>4. QED
      BY <3>1, <3>2, <3>3
  <2>2. QED
    BY <1>1, <1>2, <1>3, <2>1, ProgramFacts DEF MethodsInv, VisitsInv
<1>5. MethodInv'
  <2>1. ASSUME NEW d \in Class, d # c
        PROVE  IF d \in program'.imported THEN nums'[d] = ImportedNums(program, d)
               ELSE \A o \in Method :
                      /\ (nums'[d][o] # None) <=>
                           \E j \in 1..done'[d] :
                             j <= Len(program'.methods[d]) /\ program'.methods[d][j] = o
                      /\ nums'[d][o] # None => methodName'[d][o] = Numbered(o.name, nums'[d][o])
    BY <1>2, <1>3, <2>1 DEF MethodsInv, MethodInv
  <2>2. ASSUME NEW o \in Method
        PROVE  /\ (nums'[c][o] # None) <=>
                    \E j \in 1..done'[c] :
                      j <= Len(program'.methods[c]) /\ program'.methods[c][j] = o
               /\ nums'[c][o] # None => methodName'[c][o] = Numbered(o.name, nums'[c][o])
    <3>1. CASE o = m
      BY <1>1, <1>2, <1>3, <3>1, RenamerAssumption
    <3>2. CASE o # m
      BY <1>1, <1>2, <1>3, <1>4, <3>2 DEF MethodsInv, MethodInv
    <3>3. QED
      BY <3>1, <3>2
  <2>3. QED
    BY <1>3, <2>1, <2>2 DEF MethodInv
<1>6. OverrideKeepsName'
  <2> SUFFICES ASSUME NEW d \in Class, NEW j \in 1..done'[d], Overrides(d, j)'
               PROVE  methodName'[d][program.methods[d][j]] =
                        IF program.super[d] \in program.imported
                          THEN Numbered(program.methods[d][j].name,
                                 ImportedNums(program, program.super[d])[program.methods[d][j]])
                          ELSE methodName'[program.super[d]][program.methods[d][j]]
    BY <1>3 DEF OverrideKeepsName
  <2> DEFINE s == program.super[d]
             o == program.methods[d][j]
  <2>1. Overrides(d, j)
    BY <1>3 DEF Overrides
  <2>2. CASE d # c
    <3>1. j \in 1..done[d] /\ methodName'[d] = methodName[d]
      BY <1>2, <1>3, <2>2
    <3>2. d \in inherited
      <4>1. done[d] # 0
        BY <3>1
      <4>2. QED
        BY <4>1 DEF MethodsInv, VisitsInv, VisitInv
    <3>3. s # Root
      BY <2>1 DEF Overrides
    <3>4. s \notin program.imported => s \in Class /\ s # c
      BY <1>3, <3>2, <3>3, SuperFinished DEF MethodsInv
    <3>5. s \notin program.imported => methodName'[s] = methodName[s]
      BY <1>2, <3>4
    <3>6. QED
      BY <2>1, <3>1, <3>5 DEF MethodsInv, OverrideKeepsName
  <2>3. CASE d = c /\ j # k
    <3>1. j \in 1..done[c] /\ j <= Len(program.methods[c])
      BY <1>3, <2>1, <2>3 DEF Overrides
    <3>2. o \in Method /\ o # m
      BY <1>4, <2>3, <3>1
    <3>3. s # Root
      BY <2>1 DEF Overrides
    <3>4. s \notin program.imported => s \in Class /\ s # c
      BY <1>3, <2>3, <3>3, SuperFinished DEF MethodsInv
    <3>5. methodName'[c][o] = methodName[c][o]
          /\ (s \notin program.imported => methodName'[s] = methodName[s])
      BY <1>2, <3>2, <3>4
    <3>6. QED
      BY <2>1, <2>3, <3>1, <3>5 DEF MethodsInv, OverrideKeepsName
  <2>4. CASE d = c /\ j = k
    <3>1. s = program.super[c] /\ s # Root /\ o = m
          /\ \E i \in DOMAIN program.methods[s] : program.methods[s][i] = m
      BY <1>1, <2>1, <2>4 DEF Overrides
    <3>2. SuperNum(c, m) # None
      BY <1>2, <1>3, <3>1, SuperNumber
    <3>3. methodName'[c][m] = Numbered(m.name, SuperNum(c, m))
      BY <1>2, <3>2
    <3>4. s \notin program.imported => methodName'[s] = methodName[s]
      BY <1>2, <1>3, <3>1, SuperFinished DEF MethodsInv
    <3>5. QED
      BY <1>2, <1>3, <2>4, <3>1, <3>2, <3>3, <3>4, SuperNumber
  <2>5. QED
    BY <2>2, <2>3, <2>4
<1>7. QED
  BY <1>5, <1>6

(* A field that is named leaves the methods alone. *)
LEMMA FieldKeeps ==
  ASSUME MethodsInv, NEW c \in Class, NEW k \in 1..Members(c), RenameField(c, k)
  PROVE  MethodInv' /\ OverrideKeepsName'
<1>1. /\ AtMember(c, k) /\ k > Len(program.methods[c])
      /\ nums' = nums /\ methodName' = methodName
  BY DEF RenameField
<1>2. /\ done'[c] = k /\ 1..k = 1..done[c] \cup {k}
      /\ \A d \in Class : d # c => done'[d] = done[d]
      /\ program' = program /\ k \in Nat
  BY <1>1, NamedNext DEF MethodsInv
<1>3. ~(k <= Len(program.methods[c]))
  BY <1>1, <1>2, MemberFacts DEF MethodsInv, VisitsInv
<1>4. \A d \in Class : \A j : (j \in 1..done'[d] /\ j <= Len(program.methods[d])) <=>
                              (j \in 1..done[d] /\ j <= Len(program.methods[d]))
  BY <1>2, <1>3
<1>5. MethodInv'
  BY <1>1, <1>2, <1>4 DEF MethodsInv, MethodInv
<1>6. OverrideKeepsName'
  <2>1. \A d \in Class : \A j \in 1..done'[d] : Overrides(d, j)' =>
          j \in 1..done[d] /\ Overrides(d, j)
    BY <1>2, <1>4 DEF Overrides
  <2>2. QED
    BY <1>1, <1>2, <2>1 DEF MethodsInv, OverrideKeepsName
<1>7. QED
  BY <1>5, <1>6

(* No method has a name at first. *)
LEMMA MethodsInit == Init => MethodsInv
<1> SUFFICES ASSUME Init PROVE MethodsInv
  OBVIOUS
<1>1. VisitsInv
  BY VisitsInit
<1>2. \A c \in Class : done[c] = 0 /\ \A k : k \notin 1..done[c]
  BY DEF Init
<1>3. MethodInv
  BY <1>2 DEF Init, MethodInv
<1>4. OverrideKeepsName
  BY <1>2 DEF OverrideKeepsName
<1>5. QED
  BY <1>1, <1>3, <1>4 DEF MethodsInv

(* Every step keeps the invariant of the methods. *)
LEMMA MethodsNext == MethodsInv /\ [Next]_vars => MethodsInv'
<1> SUFFICES ASSUME MethodsInv, [Next]_vars PROVE MethodsInv'
  OBVIOUS
<1>1. VisitsInv'
  BY VisitsNext DEF MethodsInv
<1>2. \/ \E c \in Class : \E k \in 1..Members(c) : RenameMethod(c, k) \/ RenameField(c, k)
      \/ UNCHANGED <<program, done, nums, methodName>>
  BY DEF Next, vars, VisitNext, VisitSuper, Visit, Inherit, Return
<1>3. ASSUME UNCHANGED <<program, done, nums, methodName>> PROVE MethodInv' /\ OverrideKeepsName'
  BY <1>3 DEF MethodsInv, MethodInv, OverrideKeepsName, Overrides
<1>4. MethodInv' /\ OverrideKeepsName'
  BY <1>2, <1>3, MethodKeeps, FieldKeeps
<1>5. QED
  BY <1>1, <1>4 DEF MethodsInv

-----------------------------------------------------------------------------
(* The members of a class and of its superclasses. *)

(* A class is in its lineage. *)
LEMMA LineageSelf ==
  ASSUME NEW c \in Class
  PROVE  c \in Lineage(c) /\ Lineage(c) \subseteq Class
BY DEF Lineage

(* The lineage of a class is in every closed set that has the class. *)
LEMMA LineageLeast ==
  ASSUME NEW c \in Class, NEW S \in SUBSET Class, c \in S, Closed(S)
  PROVE  Lineage(c) \subseteq S
BY DEF Lineage

(* A lineage is closed. *)
LEMMA LineageClosed ==
  ASSUME NEW c \in Class
  PROVE  Closed(Lineage(c))
<1> SUFFICES ASSUME NEW d \in Lineage(c), program.super[d] \in Class \ program.imported
             PROVE  program.super[d] \in Lineage(c)
  BY DEF Closed
<1>1. ASSUME NEW S \in SUBSET Class, c \in S, Closed(S) PROVE program.super[d] \in S
  <2>1. d \in S
    BY <1>1, LineageLeast
  <2>2. QED
    BY <1>1, <2>1 DEF Closed
<1>2. QED
  BY <1>1 DEF Lineage

(* The lineage of a class is the class with the lineage of its superclass. *)
LEMMA LineageStep ==
  ASSUME NEW c \in Class
  PROVE  /\ program.super[c] \in Class \ program.imported =>
              Lineage(c) = {c} \cup Lineage(program.super[c])
         /\ program.super[c] \notin Class \ program.imported => Lineage(c) = {c}
<1>1. ASSUME program.super[c] \in Class \ program.imported
      PROVE  Lineage(c) = {c} \cup Lineage(program.super[c])
  <2>1. PICK s \in Class : s = program.super[c]
    BY <1>1
  <2>2. Lineage(s) \subseteq Lineage(c)
    <3>1. s \in Lineage(c) /\ Lineage(c) \in SUBSET Class /\ Closed(Lineage(c))
      BY <1>1, <2>1, LineageSelf, LineageClosed DEF Closed
    <3>2. QED
      BY <3>1, LineageLeast
  <2>3. Lineage(c) \subseteq {c} \cup Lineage(s)
    <3>1. {c} \cup Lineage(s) \in SUBSET Class
      BY LineageSelf
    <3>2. Closed({c} \cup Lineage(s))
      BY <2>1, LineageSelf, LineageClosed DEF Closed
    <3>3. QED
      BY <3>1, <3>2, LineageLeast
  <2>4. QED
    BY <2>1, <2>2, <2>3, LineageSelf
<1>2. ASSUME program.super[c] \notin Class \ program.imported
      PROVE  Lineage(c) = {c}
  <2>1. Closed({c})
    BY <1>2 DEF Closed
  <2>2. QED
    BY <2>1, LineageLeast, LineageSelf
<1>3. QED
  BY <1>1, <1>2

(* All superclasses of a class that has their counts are finished. *)
LEMMA LineageFinished ==
  ASSUME VisitsInv, NEW c \in inherited
  PROVE  \A d \in Lineage(c) : d \in Class /\ (d = c \/ Finished(d))
<1> DEFINE S == {d \in Class : d = c \/ Finished(d)}
<1>1. c \in Class
  BY DEF VisitsInv, TypeOK
<1>2. Closed(S)
  <2> SUFFICES ASSUME NEW d \in S, program.super[d] \in Class \ program.imported
               PROVE  Finished(program.super[d])
    BY DEF Closed
  <2>1. d \in inherited /\ d \in Class
    BY DEF Finished
  <2>2. QED
    BY <2>1 DEF VisitsInv, VisitInv
<1>3. S \in SUBSET Class /\ c \in S
  BY <1>1
<1>4. Lineage(c) \subseteq S
  BY <1>1, <1>2, <1>3, LineageLeast
<1>5. QED
  BY <1>4

(* Lineages depend on the program only. *)
LEMMA LineageSame ==
  ASSUME program' = program, NEW c
  PROVE  /\ Lineage(c)' = Lineage(c)
         /\ BelowImported(c)' = BelowImported(c)
BY DEF Lineage, Closed, BelowImported

(* The superclass of a class that is not below an imported one. *)
LEMMA SuperLineage ==
  ASSUME VisitsInv, NEW c \in inherited, ~BelowImported(c), program.super[c] # Root
  PROVE  /\ program.super[c] \in Class /\ program.super[c] \notin program.imported
         /\ program.super[c] \in inherited /\ ~BelowImported(program.super[c])
         /\ done[program.super[c]] = Members(program.super[c])
         /\ Lineage(c) = {c} \cup Lineage(program.super[c])
<1>1. c \in Class /\ program.super[c] \in Class
  BY SuperFinished
<1>2. program.super[c] \notin program.imported
  BY <1>1, LineageSelf DEF BelowImported
<1>3. Lineage(c) = {c} \cup Lineage(program.super[c])
  BY <1>1, <1>2, LineageStep
<1>4. ~BelowImported(program.super[c])
  BY <1>3 DEF BelowImported
<1>5. QED
  BY <1>1, <1>2, <1>3, <1>4, SuperFinished

(* The members that a class has are members of its lineage. *)
LEMMA VisibleMembers ==
  ASSUME VisitsInv, NEW c \in inherited, NEW x \in Visible(c)
  PROVE  /\ x[1] \in Lineage(c) /\ x[1] \in Class /\ x = <<x[1], x[2]>>
         /\ x[2] \in 1..done[x[1]] /\ x[2] \in 1..Members(x[1])
         /\ JavaName(x[1], x[2]) \in Name
<1>1. PICK d \in Lineage(c) : \E k \in 1..done[d] : x = <<d, k>>
  BY DEF Visible, NamedMembers
<1>2. PICK k \in 1..done[d] : x = <<d, k>>
  BY <1>1
<1>3. d \in Class
  BY LineageFinished
<1>4. k \in 1..Members(d)
  <2>1. PICK a \in Nat, b \in Nat : a = done[d] /\ b = Members(d)
    BY <1>3, MemberFacts DEF VisitsInv, TypeOK
  <2>2. a <= b
    BY <1>3, <2>1 DEF VisitsInv, VisitInv
  <2>3. QED
    BY <2>1, <2>2
<1>5. JavaName(d, k) \in Name
  BY <1>3, <1>4, MemberFacts DEF VisitsInv
<1>6. QED
  BY <1>2, <1>3, <1>4, <1>5

-----------------------------------------------------------------------------
(* The names of members. *)

MembersInv == MethodsInv /\ CountInv /\ MembersDistinct

(* The members of a class are the same while its lineage has no new ones. *)
LEMMA VisibleSame ==
  ASSUME program' = program, NEW c \in Class, \A d \in Lineage(c) : done'[d] = done[d]
  PROVE  Visible(c)' = Visible(c)
<1>1. Lineage(c)' = Lineage(c)
  BY LineageSame
<1>2. \A d \in Lineage(c) : NamedMembers(d)' = NamedMembers(d)
  BY DEF NamedMembers
<1>3. QED
  BY <1>1, <1>2 DEF Visible

(* The members of a class, when the k-th is named. *)
LEMMA VisibleNext ==
  ASSUME VisitsInv, NEW c \in Class, NEW k \in 1..Members(c), AtMember(c, k)
  PROVE  /\ Visible(c)' = Visible(c) \cup {<<c, k>>} /\ <<c, k>> \notin Visible(c)
         /\ \A d \in inherited : d # c => Visible(d)' = Visible(d)
<1>1. /\ c \in inherited /\ ~Finished(c)
      /\ k \in Nat /\ done'[c] = k /\ 1..k = 1..done[c] \cup {k} /\ k \notin 1..done[c]
      /\ \A d \in Class : d # c => done'[d] = done[d]
      /\ program' = program
  BY NamedNext
<1>2. \A d \in inherited : d \in Class
  BY DEF VisitsInv, TypeOK
<1>3. ASSUME NEW d \in inherited, d # c PROVE Visible(d)' = Visible(d)
  <2>1. \A e \in Lineage(d) : e \in Class /\ e # c
    BY <1>1, <1>3, LineageFinished
  <2>2. QED
    BY <1>1, <1>2, <2>1, VisibleSame
<1>4. Visible(c)' = Visible(c) \cup {<<c, k>>}
  <2>1. Lineage(c)' = Lineage(c) /\ c \in Lineage(c)
    BY <1>1, LineageSame, LineageSelf
  <2>2. \A d \in Lineage(c) : d # c => NamedMembers(d)' = NamedMembers(d)
    BY <1>1, LineageSelf DEF NamedMembers
  <2>3. NamedMembers(c)' = NamedMembers(c) \cup {<<c, k>>}
    BY <1>1 DEF NamedMembers
  <2>4. QED
    BY <2>1, <2>2, <2>3 DEF Visible
<1>5. <<c, k>> \notin Visible(c)
  BY <1>1, VisibleMembers
<1>6. QED
  BY <1>3, <1>4, <1>5

(* Members whose names do not change stay apart. *)
LEMMA ApartSame ==
  ASSUME program' = program, NEW x, NEW y,
         DartNameOf(x[1], x[2])' = DartNameOf(x[1], x[2]),
         DartNameOf(y[1], y[2])' = DartNameOf(y[1], y[2])
  PROVE  Apart(x, y)' <=> Apart(x, y)
BY DEF Apart, JavaName, SameMethod

(* Apart is symmetric. *)
LEMMA ApartSymmetric ==
  ASSUME NEW x, NEW y, Apart(x, y)
  PROVE  Apart(y, x)
BY DEF Apart, SameMethod, Ambiguous

(* A number below a count is below a larger one. *)
LEMMA TakenSame ==
  ASSUME program' = program, NEW c, NEW d, NEW x,
         NumberTaken(c, x),
         DartNameOf(x[1], x[2])' = DartNameOf(x[1], x[2]),
         NEW n, n = JavaName(x[1], x[2]),
         nameCounts[c][n] \in Nat, nameCounts'[d][n] \in Nat,
         nameCounts[c][n] <= nameCounts'[d][n]
  PROVE  NumberTaken(d, x)'
<1>1. PICK k \in 0..nameCounts[c][n] - 1 :
        (n \in Defined => k > 0) /\ DartNameOf(x[1], x[2]) = Numbered(n, k)
  BY DEF NumberTaken
<1>2. k \in 0..nameCounts'[d][n] - 1
  <2>1. PICK a \in Nat, b \in Nat : a = nameCounts[c][n] /\ b = nameCounts'[d][n]
    OBVIOUS
  <2>2. QED
    BY <1>1, <2>1
<1>3. JavaName(x[1], x[2])' = n
  BY DEF JavaName
<1>4. QED
  BY <1>1, <1>2, <1>3 DEF NumberTaken

(* A name with a number that is taken is free for a member. *)
LEMMA TakenFree ==
  ASSUME NEW n \in Name, NEW name, NEW top \in Nat,
         \E k \in 0..top - 1 : (n \in Defined => k > 0) /\ name = Numbered(n, k)
  PROVE  name \notin Keyword \cup Defined
BY NumberedFree

(* The k-th member of class c has a name, and its earlier members keep theirs. *)
LEMMA MemberNamed ==
  ASSUME MembersInv, VisitsInv', NEW c \in Class, NEW k \in 1..Members(c), AtMember(c, k),
         \A d \in Class : \A j \in 1..done[d] : DartNameOf(d, j)' = DartNameOf(d, j),
         \A d \in Class : d # c => nameCounts'[d] = nameCounts[d],
         \A n \in Name : nameCounts[c][n] <= nameCounts'[c][n],
         ~BelowImported(c) => NumberTaken(c, <<c, k>>)',
         ~BelowImported(c) => \A y \in Visible(c) : Apart(<<c, k>>, y)'
  PROVE  CountInv' /\ MembersDistinct'
<1>1. /\ c \in inherited /\ ~Finished(c) /\ c \notin program.imported
      /\ k \in Nat /\ done'[c] = k /\ 1..k = 1..done[c] \cup {k}
      /\ \A d \in Class : d # c => done'[d] = done[d]
      /\ program' = program
      /\ UNCHANGED <<renamed, inherited>>
  BY NamedNext DEF MembersInv, MethodsInv, AtMember
<1>2. \A d \in inherited : d \in Class
  BY DEF MembersInv, MethodsInv, VisitsInv, TypeOK
<1>3. \A d \in Class : \A n \in Name : /\ nameCounts[d][n] \in Nat /\ nameCounts'[d][n] \in Nat
                                      /\ nameCounts[d][n] <= nameCounts'[d][n]
  <2>1. \A d \in Class : \A n \in Name : nameCounts[d][n] \in Nat /\ nameCounts'[d][n] \in Nat
    BY DEF MembersInv, MethodsInv, VisitsInv, TypeOK, Counts
  <2>2. \A d \in Class : d # c => \A n \in Name : nameCounts[d][n] <= nameCounts'[d][n]
    BY <2>1
  <2>3. QED
    BY <2>1, <2>2
<1>4. ASSUME NEW d \in inherited, d # c PROVE Visible(d)' = Visible(d)
  BY <1>4, VisibleNext DEF MembersInv, MethodsInv
<1>5. Visible(c)' = Visible(c) \cup {<<c, k>>}
  BY VisibleNext DEF MembersInv, MethodsInv
<1>6. ASSUME NEW d \in inherited, NEW x \in Visible(d)
      PROVE  DartNameOf(x[1], x[2])' = DartNameOf(x[1], x[2])
  BY <1>6, VisibleMembers DEF MembersInv, MethodsInv
<1>7. ASSUME NEW d \in inherited, ~BelowImported(d), NEW x \in Visible(d)
      PROVE  NumberTaken(d, x)'
  <2>1. PICK n \in Name : n = JavaName(x[1], x[2])
    BY <1>7, VisibleMembers DEF MembersInv, MethodsInv
  <2>2. NumberTaken(d, x)
    BY <1>7 DEF MembersInv, CountInv
  <2>3. /\ nameCounts[d][n] \in Nat /\ nameCounts'[d][n] \in Nat
        /\ nameCounts[d][n] <= nameCounts'[d][n]
    BY <1>2, <1>3
  <2>4. DartNameOf(x[1], x[2])' = DartNameOf(x[1], x[2])
    BY <1>6
  <2>5. QED
    BY <1>1, <2>1, <2>2, <2>3, <2>4, TakenSame
<1>8. ASSUME NEW d \in inherited, ~BelowImported(d), NEW x \in Visible(d), NEW y \in Visible(d)
      PROVE  Apart(x, y)'
  <2>1. Apart(x, y)
    BY <1>8 DEF MembersInv, MembersDistinct
  <2>2. QED
    BY <1>1, <1>6, <2>1, ApartSame
<1>9. \A d \in inherited : BelowImported(d)' <=> BelowImported(d)
  BY <1>1, LineageSame
<1>10. ASSUME NEW d \in inherited, ~BelowImported(d), NEW x \in Visible(d)'
       PROVE  NumberTaken(d, x)'
  <2>1. CASE d = c
    BY <1>5, <1>7, <1>10, <2>1
  <2>2. CASE d # c
    BY <1>4, <1>7, <1>10, <2>2
  <2>3. QED
    BY <2>1, <2>2
<1>11. CountInv'
  <2>1. \A d \in renamed \ program.imported : \A n \in Defined : nameCounts'[d][n] > 0
    <3>1. ASSUME NEW d \in renamed \ program.imported, NEW n \in Defined
          PROVE  nameCounts'[d][n] > 0
      <4>1. d \in Class /\ n \in Name /\ nameCounts[d][n] > 0
        BY RenamerAssumption DEF MembersInv, CountInv, MethodsInv, VisitsInv, TypeOK
      <4>2. QED
        BY <1>3, <4>1
    <3>2. QED
      BY <3>1
  <2>2. QED
    BY <1>1, <1>9, <1>10, <2>1 DEF CountInv
<1>12. ASSUME NEW d \in inherited, ~BelowImported(d), NEW x \in Visible(d)', NEW y \in Visible(d)'
       PROVE  Apart(x, y)'
  <2>1. CASE d # c
    BY <1>4, <1>8, <1>12, <2>1
  <2>2. CASE d = c
    <3>1. Apart(<<c, k>>, <<c, k>>)'
      BY DEF Apart
    <3>2. \A z \in Visible(c) : Apart(<<c, k>>, z)' /\ Apart(z, <<c, k>>)'
      BY <1>12, <2>2, ApartSymmetric DEF Apart, SameMethod, Ambiguous
    <3>3. QED
      BY <1>5, <1>8, <1>12, <2>2, <3>1, <3>2
  <2>3. QED
    BY <2>1, <2>2
<1>13. MembersDistinct'
  <2>1. ASSUME NEW d \in inherited', ~BelowImported(d)', NEW x \in Visible(d)'
        PROVE  DartNameOf(x[1], x[2])' \notin Keyword \cup Defined
    <3>1. d \in inherited /\ ~BelowImported(d) /\ d \in Class
      BY <1>1, <1>2, <1>9, <2>1
    <3>2. JavaName(x[1], x[2])' = JavaName(x[1], x[2])
      BY <1>1 DEF JavaName
    <3>3. PICK n \in Name : n = JavaName(x[1], x[2])
      <4>1. x \in Visible(d) \/ x = <<c, k>>
        BY <1>4, <1>5, <2>1, <3>1
      <4>2. JavaName(c, k) \in Name
        BY MemberFacts DEF MembersInv, MethodsInv, VisitsInv
      <4>3. QED
        BY <3>1, <4>1, <4>2, VisibleMembers DEF MembersInv, MethodsInv
    <3>4. \E j \in 0..nameCounts'[d][n] - 1 :
            (n \in Defined => j > 0) /\ DartNameOf(x[1], x[2])' = Numbered(n, j)
      BY <1>10, <2>1, <3>1, <3>2, <3>3 DEF NumberTaken
    <3>5. nameCounts'[d][n] \in Nat
      BY <1>3, <3>1
    <3>6. QED
      BY <3>4, <3>5, TakenFree
  <2>2. QED
    BY <1>1, <1>9, <1>12, <2>1 DEF MembersDistinct
<1>14. QED
  BY <1>11, <1>13

(* The earlier members of a class. *)
LEMMA EarlierMembers ==
  ASSUME VisitsInv, NEW c \in Class, NEW k \in 1..Members(c), AtMember(c, k), NEW j \in 1..done[c]
  PROVE  /\ j \in 1..Members(c) /\ j # k
         /\ k <= Len(program.methods[c]) => j <= Len(program.methods[c])
         /\ j <= Len(program.methods[c]) =>
              /\ program.methods[c][j] \in Method
              /\ k <= Len(program.methods[c]) => program.methods[c][j] # program.methods[c][k]
         /\ j > Len(program.methods[c]) =>
              /\ program.fields[c][j - Len(program.methods[c])] \in Name
              /\ program.fields[c][j - Len(program.methods[c])] #
                   program.fields[c][k - Len(program.methods[c])]
<1>1. /\ j \in 1..Members(c) /\ k = done[c] + 1 /\ done[c] \in Nat
  BY NamedNext
<1>2. /\ program.methods[c] \in Seq(Method) /\ program.fields[c] \in Seq(Name)
      /\ \A h, i \in DOMAIN program.methods[c] :
           program.methods[c][h] = program.methods[c][i] => h = i
      /\ \A h, i \in DOMAIN program.fields[c] :
           program.fields[c][h] = program.fields[c][i] => h = i
  BY ProgramFacts DEF VisitsInv
<1>3. PICK a \in Nat, b \in Nat : /\ a = Len(program.methods[c]) /\ b = Len(program.fields[c])
                                  /\ Members(c) = a + b
  BY MemberFacts DEF VisitsInv
<1>4. DOMAIN program.methods[c] = 1..a /\ DOMAIN program.fields[c] = 1..b
  BY <1>2, <1>3
<1>5. /\ j # k /\ j < k /\ j \in Nat /\ k \in Nat
      /\ j \in 1..a + b /\ k \in 1..a + b
  <2>1. PICK h \in Nat : h = done[c] /\ k = h + 1
    BY <1>1
  <2>2. j \in 1..h
    BY <2>1
  <2>3. j # k /\ j < k /\ j \in Nat /\ k \in Nat
    BY <2>1, <2>2
  <2>4. QED
    BY <1>1, <1>3, <2>3
<1>6. /\ k <= a => j <= a /\ k \in 1..a
      /\ j <= a => j \in 1..a
      /\ j > a => j - a \in 1..b /\ k - a \in 1..b /\ j - a # k - a
  BY <1>5
<1>7. /\ \A i \in 1..a : program.methods[c][i] \in Method
      /\ \A i \in 1..b : program.fields[c][i] \in Name
  BY <1>2, <1>4
<1>8. QED
  BY <1>1, <1>2, <1>3, <1>4, <1>5, <1>6, <1>7

(* A member that is not an override has a new name. *)
LEMMA NewName ==
  ASSUME VisitsInv, CountInv, NEW c \in inherited, ~BelowImported(c),
         NEW y \in Visible(c), NEW n \in Name,
         Numbered(n, nameCounts[c][n]) = DartNameOf(y[1], y[2])
  PROVE  Ambiguous(n, JavaName(y[1], y[2]))
<1>1. PICK o \in Name : o = JavaName(y[1], y[2])
  BY VisibleMembers
<1>2. c \in Class
  BY DEF VisitsInv, TypeOK
<1>3. nameCounts[c][n] \in Nat /\ nameCounts[c][o] \in Nat
  BY <1>2 DEF VisitsInv, TypeOK, Counts
<1>4. PICK i \in 0..nameCounts[c][o] - 1 : DartNameOf(y[1], y[2]) = Numbered(o, i)
  BY <1>1 DEF CountInv, NumberTaken
<1>5. i \in Nat /\ i < nameCounts[c][o]
  BY <1>3, <1>4
<1>6. Numbered(n, nameCounts[c][n]) = Numbered(o, i)
  BY <1>4
<1>7. PICK h \in Nat : h = nameCounts[c][n]
  BY <1>3
<1>8. (n = o /\ h = i) \/ Ambiguous(n, o)
  BY <1>5, <1>6, <1>7, NumberedApart
<1>9. QED
  BY <1>1, <1>3, <1>5, <1>7, <1>8

(* Its number is taken once it is counted. *)
LEMMA NewTaken ==
  ASSUME VisitsInv, CountInv, VisitsInv', NEW c \in inherited, NEW n \in Name, NEW k,
         n = JavaName(c, k), program' = program,
         nameCounts' = [nameCounts EXCEPT ![c] = Counted(@, n)],
         DartNameOf(c, k)' = Numbered(n, nameCounts[c][n])
  PROVE  /\ \A d \in Class : d # c => nameCounts'[d] = nameCounts[d]
         /\ \A o \in Name : nameCounts[c][o] <= nameCounts'[c][o]
         /\ NumberTaken(c, <<c, k>>)'
<1>1. /\ c \in Class /\ c \in renamed \ program.imported
      /\ nameCounts \in [Class -> Counts] /\ nameCounts[c] \in Counts
  BY DEF VisitsInv, VisitInv, TypeOK
<1>2. /\ nameCounts'[c] = Counted(nameCounts[c], n)
      /\ \A d \in Class : d # c => nameCounts'[d] = nameCounts[d]
  BY <1>1
<1>3. /\ nameCounts[c][n] \in Nat
      /\ nameCounts'[c][n] = nameCounts[c][n] + 1
      /\ \A o \in Name : o # n => nameCounts'[c][o] = nameCounts[c][o]
  BY <1>1, <1>2, ConflictNumbered
<1>4. \A o \in Name : nameCounts[c][o] <= nameCounts'[c][o]
  BY <1>1, <1>3 DEF Counts
<1>5. JavaName(c, k)' = n
  BY DEF JavaName
<1>6. nameCounts[c][n] \in 0..nameCounts'[c][n] - 1
  BY <1>3
<1>7. n \in Defined => nameCounts[c][n] > 0
  BY <1>1 DEF CountInv
<1>8. QED
  BY <1>2, <1>4, <1>5, <1>6, <1>7 DEF NumberTaken

(* A field that is named has a new name, and the members before it keep theirs. *)
LEMMA FieldNames ==
  ASSUME MethodsInv, NEW c \in Class, NEW k \in 1..Members(c), RenameField(c, k),
         NEW o, o = JavaName(c, k)
  PROVE  /\ AtMember(c, k) /\ c \in inherited /\ program' = program
         /\ o \in Name /\ ~Overrides(c, k)
         /\ nameCounts' = [nameCounts EXCEPT ![c] = Counted(@, o)]
         /\ DartNameOf(c, k)' = Numbered(o, nameCounts[c][o])
         /\ \A d \in Class : \A j \in 1..done[d] : DartNameOf(d, j)' = DartNameOf(d, j)
<1>1. PICK n : n = program.fields[c][k - Len(program.methods[c])]
  OBVIOUS
<1>2. /\ AtMember(c, k) /\ k > Len(program.methods[c])
      /\ fieldName' = [fieldName EXCEPT ![c][n] = RenameConflict(nameCounts[c], n)]
      /\ nameCounts' = [nameCounts EXCEPT ![c] = Counted(@, n)]
      /\ methodName' = methodName
  BY <1>1 DEF RenameField
<1>3. n \in Name
  BY <1>1, <1>2, MemberFacts DEF MethodsInv, VisitsInv
<1>4. c \in inherited /\ program' = program
  BY <1>2, NamedNext DEF MethodsInv
<1>5. RenameConflict(nameCounts[c], n) = Numbered(n, nameCounts[c][n])
  BY <1>3, ConflictNumbered DEF MethodsInv, VisitsInv, TypeOK
<1>6. /\ fieldName'[c][n] = Numbered(n, nameCounts[c][n])
      /\ \A q \in Name : q # n => fieldName'[c][q] = fieldName[c][q]
      /\ \A d \in Class : d # c => fieldName'[d] = fieldName[d]
  BY <1>2, <1>3, <1>5 DEF MethodsInv, VisitsInv, TypeOK
<1>7. ~(k <= Len(program.methods[c]))
  <2>1. PICK a \in Nat, b \in Nat : a = Len(program.methods[c]) /\ Members(c) = a + b
    BY MemberFacts DEF MethodsInv, VisitsInv
  <2>2. QED
    BY <1>2, <2>1
<1>8. DartNameOf(c, k)' = Numbered(n, nameCounts[c][n]) /\ JavaName(c, k) = n
  BY <1>1, <1>4, <1>6, <1>7 DEF DartNameOf, JavaName
<1>9. ASSUME NEW d \in Class, NEW j \in 1..done[d]
      PROVE  DartNameOf(d, j)' = DartNameOf(d, j)
  <2>1. CASE d # c
    BY <1>2, <1>4, <1>6, <2>1 DEF DartNameOf
  <2>2. CASE d = c
    <3>1. CASE j <= Len(program.methods[c])
      BY <1>2, <1>4, <2>2, <3>1 DEF DartNameOf
    <3>2. CASE ~(j <= Len(program.methods[c]))
      <4>1. j > Len(program.methods[c])
        <5>1. PICK a \in Nat, b \in Nat : a = Len(program.methods[c]) /\ b = done[d]
          BY MemberFacts DEF MethodsInv, VisitsInv, TypeOK
        <5>2. QED
          BY <3>2, <5>1
      <4>2. /\ program.fields[c][j - Len(program.methods[c])] \in Name
            /\ program.fields[c][j - Len(program.methods[c])] # n
        BY <1>1, <1>2, <2>2, <4>1, EarlierMembers DEF MethodsInv
      <4>3. QED
        BY <1>4, <1>6, <2>2, <3>2, <4>2 DEF DartNameOf
    <3>3. QED
      BY <3>1, <3>2
  <2>3. QED
    BY <2>1, <2>2
<1>10. ~Overrides(c, k)
  BY <1>7 DEF Overrides
<1>11. QED
  BY <1>2, <1>3, <1>4, <1>8, <1>9, <1>10

(* A method that is named has a new name unless it overrides one, and the members *)
(* before it keep theirs. *)
LEMMA MethodNames ==
  ASSUME MethodsInv, NEW c \in Class, NEW k \in 1..Members(c), RenameMethod(c, k),
         NEW n, n = JavaName(c, k)
  PROVE  /\ AtMember(c, k) /\ c \in inherited /\ program' = program /\ n \in Name
         /\ Overrides(c, k) => nameCounts' = nameCounts
         /\ ~Overrides(c, k) =>
              /\ nameCounts' = [nameCounts EXCEPT ![c] = Counted(@, n)]
              /\ DartNameOf(c, k)' = Numbered(n, nameCounts[c][n])
         /\ \A d \in Class : \A j \in 1..done[d] : DartNameOf(d, j)' = DartNameOf(d, j)
<1>1. PICK m : m = program.methods[c][k]
  OBVIOUS
<1>2. /\ AtMember(c, k) /\ k <= Len(program.methods[c])
      /\ m \in Method /\ m.name \in Name
      /\ methodName'[c][m] = Numbered(m.name, nums'[c][m])
      /\ \A o \in Method : o # m => methodName'[c][o] = methodName[c][o]
      /\ \A d \in Class : d # c => methodName'[d] = methodName[d]
      /\ SuperNum(c, m) # None => nameCounts' = nameCounts
      /\ SuperNum(c, m) = None =>
           /\ nums'[c][m] = nameCounts[c][m.name]
           /\ nameCounts' = [nameCounts EXCEPT ![c] = Counted(@, m.name)]
      /\ fieldName' = fieldName
  BY <1>1, MethodStep
<1>3. c \in inherited /\ program' = program
  BY <1>2, NamedNext DEF MethodsInv
<1>4. DartNameOf(c, k)' = methodName'[c][m] /\ n = m.name
  BY <1>1, <1>2, <1>3 DEF DartNameOf, JavaName
<1>5. ASSUME NEW d \in Class, NEW j \in 1..done[d]
      PROVE  DartNameOf(d, j)' = DartNameOf(d, j)
  <2>1. CASE d # c
    BY <1>2, <1>3, <2>1 DEF DartNameOf
  <2>2. CASE d = c
    <3>1. /\ j <= Len(program.methods[c])
          /\ program.methods[c][j] \in Method /\ program.methods[c][j] # m
      BY <1>1, <1>2, <2>2, EarlierMembers DEF MethodsInv
    <3>2. QED
      BY <1>2, <1>3, <2>2, <3>1 DEF DartNameOf
  <2>3. QED
    BY <2>1, <2>2
<1>6. Overrides(c, k) <=> SuperNum(c, m) # None
  BY <1>1, <1>2, <1>3, SuperNumber DEF Overrides
<1>7. QED
  BY <1>2, <1>3, <1>4, <1>5, <1>6

(* A field gets a new name. *)
LEMMA FieldNamed ==
  ASSUME MembersInv, VisitsInv', NEW c \in Class, NEW k \in 1..Members(c), RenameField(c, k)
  PROVE  CountInv' /\ MembersDistinct'
<1>1. PICK n : n = JavaName(c, k)
  OBVIOUS
<1>2. /\ AtMember(c, k) /\ c \in inherited /\ program' = program /\ n \in Name
      /\ nameCounts' = [nameCounts EXCEPT ![c] = Counted(@, n)]
      /\ DartNameOf(c, k)' = Numbered(n, nameCounts[c][n])
      /\ \A d \in Class : \A j \in 1..done[d] : DartNameOf(d, j)' = DartNameOf(d, j)
  BY <1>1, FieldNames DEF MembersInv
<1>3. /\ \A d \in Class : d # c => nameCounts'[d] = nameCounts[d]
      /\ \A o \in Name : nameCounts[c][o] <= nameCounts'[c][o]
      /\ NumberTaken(c, <<c, k>>)'
  BY <1>1, <1>2, NewTaken DEF MembersInv, MethodsInv
<1>4. ASSUME ~BelowImported(c), NEW y \in Visible(c)
      PROVE  Apart(<<c, k>>, y)'
  <2>1. DartNameOf(y[1], y[2])' = DartNameOf(y[1], y[2])
    BY <1>2, VisibleMembers DEF MembersInv, MethodsInv
  <2>2. (Numbered(n, nameCounts[c][n]) = DartNameOf(y[1], y[2])) =>
          Ambiguous(n, JavaName(y[1], y[2]))
    BY <1>2, <1>4, NewName DEF MembersInv, MethodsInv
  <2>3. JavaName(c, k)' = n /\ JavaName(y[1], y[2])' = JavaName(y[1], y[2])
    BY <1>1, <1>2 DEF JavaName
  <2>4. QED
    BY <1>2, <2>1, <2>2, <2>3 DEF Apart
<1>5. QED
  BY <1>2, <1>3, <1>4, MemberNamed

(* A method gets a new name, or that of the method it overrides. *)
LEMMA MethodNamed ==
  ASSUME MembersInv, VisitsInv', NEW c \in Class, NEW k \in 1..Members(c), RenameMethod(c, k)
  PROVE  CountInv' /\ MembersDistinct'
<1>1. PICK m : m = program.methods[c][k]
  OBVIOUS
<1>2. PICK n : n = m.name
  OBVIOUS
<1>3. /\ AtMember(c, k) /\ k <= Len(program.methods[c])
      /\ m \in Method /\ n \in Name
      /\ methodName'[c][m] = Numbered(n, nums'[c][m])
      /\ \A o \in Method : o # m => methodName'[c][o] = methodName[c][o]
      /\ \A d \in Class : d # c => methodName'[d] = methodName[d]
      /\ SuperNum(c, m) # None => nums'[c][m] = SuperNum(c, m) /\ nameCounts' = nameCounts
      /\ SuperNum(c, m) = None =>
           /\ nums'[c][m] = nameCounts[c][n]
           /\ nameCounts' = [nameCounts EXCEPT ![c] = Counted(@, n)]
      /\ fieldName' = fieldName
  BY <1>1, <1>2, MethodStep DEF MembersInv
<1>4. c \in inherited /\ program' = program
  BY <1>3, NamedNext DEF MembersInv, MethodsInv
<1>5. DartNameOf(c, k)' = methodName'[c][m] /\ JavaName(c, k) = n /\ JavaName(c, k)' = n
  BY <1>1, <1>2, <1>3, <1>4 DEF DartNameOf, JavaName
<1>6. \A d \in Class : \A j \in 1..done[d] : DartNameOf(d, j)' = DartNameOf(d, j)
  BY <1>5, MethodNames DEF MembersInv
<1>7. ASSUME NEW y \in Visible(c)
      PROVE  /\ DartNameOf(y[1], y[2])' = DartNameOf(y[1], y[2])
             /\ JavaName(y[1], y[2])' = JavaName(y[1], y[2])
  <2>1. DartNameOf(y[1], y[2])' = DartNameOf(y[1], y[2])
    BY <1>4, <1>6, VisibleMembers DEF MembersInv, MethodsInv
  <2>2. QED
    BY <1>4, <2>1 DEF JavaName
<1>8. CASE SuperNum(c, m) = None
  <2>1. DartNameOf(c, k)' = Numbered(n, nameCounts[c][n])
    BY <1>3, <1>5, <1>8
  <2>2. /\ \A d \in Class : d # c => nameCounts'[d] = nameCounts[d]
        /\ \A o \in Name : nameCounts[c][o] <= nameCounts'[c][o]
        /\ NumberTaken(c, <<c, k>>)'
    BY <1>3, <1>4, <1>5, <1>8, <2>1, NewTaken DEF MembersInv, MethodsInv
  <2>3. ASSUME ~BelowImported(c), NEW y \in Visible(c)
        PROVE  Apart(<<c, k>>, y)'
    <3>1. (Numbered(n, nameCounts[c][n]) = DartNameOf(y[1], y[2])) =>
            Ambiguous(n, JavaName(y[1], y[2]))
      BY <1>3, <1>4, <2>3, NewName DEF MembersInv, MethodsInv
    <3>2. QED
      BY <1>5, <1>7, <2>1, <3>1 DEF Apart
  <2>4. QED
    BY <1>3, <1>6, <2>2, <2>3, MemberNamed
<1>9. CASE SuperNum(c, m) # None
  <2>1. nameCounts' = nameCounts /\ DartNameOf(c, k)' = Numbered(n, SuperNum(c, m))
    BY <1>3, <1>5, <1>9
  <2>2. \A o \in Name : nameCounts[c][o] <= nameCounts'[c][o]
    BY <2>1 DEF MembersInv, MethodsInv, VisitsInv, TypeOK, Counts
  <2>3. PICK s : s = program.super[c]
    OBVIOUS
  <2>4. PICK j \in DOMAIN program.methods[s] : program.methods[s][j] = m
    BY <1>3, <1>4, <1>9, <2>3, SuperNumber DEF MembersInv
  <2>5. ASSUME ~BelowImported(c)
        PROVE  /\ <<s, j>> \in Visible(c)
               /\ j <= Len(program.methods[s])
               /\ JavaName(s, j) = n
               /\ DartNameOf(s, j) = DartNameOf(c, k)'
    <3>1. s # Root
      BY <1>3, <1>4, <1>9, <2>3, SuperNumber DEF MembersInv
    <3>2. /\ s \in Class /\ s \notin program.imported /\ s \in Lineage(c)
          /\ done[s] = Members(s)
      BY <1>4, <2>3, <2>5, <3>1, SuperLineage, LineageSelf DEF MembersInv, MethodsInv
    <3>3. j <= Len(program.methods[s]) /\ j \in 1..done[s]
      <4>1. PICK a \in Nat, b \in Nat :
              a = Len(program.methods[s]) /\ Members(s) = a + b
        BY <3>2, MemberFacts DEF MembersInv, MethodsInv, VisitsInv
      <4>2. DOMAIN program.methods[s] = 1..a
        BY <3>2, <4>1, ProgramFacts DEF MembersInv, MethodsInv, VisitsInv
      <4>3. QED
        BY <3>2, <4>1, <4>2
    <3>4. <<s, j>> \in Visible(c)
      BY <3>2, <3>3 DEF Visible, NamedMembers
    <3>5. methodName[s][m] = Numbered(n, SuperNum(c, m))
      BY <1>2, <1>3, <1>4, <1>9, <2>3, <3>2, SuperNumber DEF MembersInv
    <3>6. QED
      BY <1>2, <2>1, <2>4, <3>3, <3>4, <3>5 DEF JavaName, DartNameOf
  <2>6. ASSUME ~BelowImported(c) PROVE NumberTaken(c, <<c, k>>)'
    <3>1. PICK i \in 0..nameCounts[c][n] - 1 :
            (n \in Defined => i > 0) /\ DartNameOf(c, k)' = Numbered(n, i)
      BY <1>4, <2>5, <2>6 DEF MembersInv, CountInv, NumberTaken
    <3>2. QED
      BY <1>5, <2>1, <3>1 DEF NumberTaken
  <2>7. ASSUME ~BelowImported(c), NEW y \in Visible(c)
        PROVE  Apart(<<c, k>>, y)'
    <3>1. Apart(<<s, j>>, y)
      BY <1>4, <2>5, <2>7 DEF MembersInv, MembersDistinct
    <3>2. ASSUME DartNameOf(c, k)' = DartNameOf(y[1], y[2])
          PROVE  \/ SameMethod(<<c, k>>, y)
                 \/ Ambiguous(n, JavaName(y[1], y[2]))
      <4>1. \/ <<s, j>> = y
            \/ SameMethod(<<s, j>>, y)
            \/ Ambiguous(n, JavaName(y[1], y[2]))
        BY <2>5, <2>7, <3>1, <3>2 DEF Apart
      <4>2. CASE <<s, j>> = y
        BY <1>1, <1>3, <2>4, <2>5, <2>7, <4>2 DEF SameMethod
      <4>3. CASE SameMethod(<<s, j>>, y)
        BY <1>1, <1>3, <2>4, <4>3 DEF SameMethod
      <4>4. QED
        BY <4>1, <4>2, <4>3
    <3>3. SameMethod(<<c, k>>, y)' <=> SameMethod(<<c, k>>, y)
      BY <1>4 DEF SameMethod
    <3>4. QED
      BY <1>5, <1>7, <2>7, <3>2, <3>3 DEF Apart
  <2>8. QED
    BY <1>3, <1>6, <2>1, <2>2, <2>6, <2>7, MemberNamed
<1>10. QED
  BY <1>8, <1>9

(* A class starts with what its superclass has. *)
LEMMA InheritNamed ==
  ASSUME MembersInv, VisitsInv', Inherit
  PROVE  CountInv' /\ MembersDistinct'
<1>1. PICK c, s : c = Head(stack) /\ s = program.super[c]
  OBVIOUS
<1>2. /\ stack # <<>> /\ c \notin inherited
      /\ inherited' = inherited \cup {c}
      /\ nameCounts' =
           IF s = Root THEN nameCounts
           ELSE [nameCounts EXCEPT ![c] =
                   [n \in Name |-> IF nameCounts[s][n] > 0 THEN nameCounts[s][n] ELSE @[n]]]
      /\ UNCHANGED <<program, renamed, done, methodName, fieldName>>
  BY <1>1 DEF Inherit
<1>3. c \in Class /\ c \in renamed \ program.imported
  BY <1>1, <1>2, Top DEF MembersInv, MethodsInv
<1>4. done[c] = 0
  BY <1>2, <1>3 DEF MembersInv, MethodsInv, VisitsInv, VisitInv
<1>5. /\ nameCounts \in [Class -> Counts] /\ nameCounts' \in [Class -> Counts]
      /\ \A d \in inherited : d \in Class
  BY DEF MembersInv, MethodsInv, VisitsInv, TypeOK
<1>6. \A d \in Class : \A n \in Name : nameCounts[d][n] \in Nat /\ nameCounts'[d][n] \in Nat
  BY <1>5 DEF Counts
<1>7. \A d \in Class : d # c => nameCounts'[d] = nameCounts[d]
  BY <1>2, <1>5
<1>8. s # Root => \A n \in Name :
        nameCounts'[c][n] = IF nameCounts[s][n] > 0 THEN nameCounts[s][n] ELSE nameCounts[c][n]
  BY <1>2, <1>3, <1>5
<1>9. \A d, j : /\ DartNameOf(d, j)' = DartNameOf(d, j)
                /\ JavaName(d, j)' = JavaName(d, j)
  BY <1>2 DEF DartNameOf, JavaName
<1>10. \A d \in Class : /\ Visible(d)' = Visible(d)
                        /\ BelowImported(d)' <=> BelowImported(d)
  BY <1>2, VisibleSame, LineageSame
<1>11. \A x, y : Apart(x, y)' <=> Apart(x, y)
  BY <1>2, <1>9, ApartSame
<1>12. ASSUME ~BelowImported(c)
       PROVE  \/ Visible(c) = {}
              \/ /\ s # Root /\ s \in inherited /\ s \in Class
                 /\ ~BelowImported(s) /\ Visible(c) = Visible(s)
  <2>1. NamedMembers(c) = {}
    BY <1>4 DEF NamedMembers
  <2>2. CASE s = Root
    <3>1. Lineage(c) = {c}
      <4>1. program.super[c] \notin Class \ program.imported
        BY <1>1, <2>2, RenamerAssumption
      <4>2. QED
        BY <1>3, <4>1, LineageStep
    <3>2. QED
      BY <2>1, <3>1 DEF Visible
  <2>3. CASE s # Root
    <3>1. s \in Class /\ s \notin program.imported
      BY <1>1, <1>3, <1>12, <2>3, ProgramFacts, LineageSelf
         DEF BelowImported, MembersInv, MethodsInv, VisitsInv
    <3>2. Lineage(c) = {c} \cup Lineage(s)
      BY <1>1, <1>3, <3>1, LineageStep
    <3>3. ~BelowImported(s) /\ Visible(c) = Visible(s)
      BY <1>12, <2>1, <3>2 DEF BelowImported, Visible
    <3>4. s \in inherited
      <4>1. s \in renamed
        BY <1>1, <2>3 DEF Inherit
      <4>2. ~OnStack(s)
        BY <1>1, <1>2, Top DEF MembersInv, MethodsInv
      <4>3. QED
        BY <3>1, <4>1, <4>2 DEF MembersInv, MethodsInv, VisitsInv, VisitInv, Finished
    <3>5. QED
      BY <2>3, <3>1, <3>3, <3>4
  <2>4. QED
    BY <2>2, <2>3
<1>13. ASSUME NEW d \in inherited', ~BelowImported(d), NEW x \in Visible(d)
       PROVE  NumberTaken(d, x)'
  <2>1. CASE d # c
    <3>1. d \in inherited /\ d \in Class /\ NumberTaken(d, x)
      BY <1>2, <1>5, <1>13, <2>1 DEF MembersInv, CountInv
    <3>2. QED
      BY <1>7, <1>9, <2>1, <3>1 DEF NumberTaken
  <2>2. CASE d = c
    <3>1. /\ s # Root /\ s \in inherited /\ s \in Class
          /\ ~BelowImported(s) /\ x \in Visible(s)
      BY <1>12, <1>13, <2>2
    <3>2. NumberTaken(s, x)
      BY <3>1 DEF MembersInv, CountInv
    <3>3. PICK n \in Name : n = JavaName(x[1], x[2])
      BY <3>1, VisibleMembers DEF MembersInv, MethodsInv
    <3>4. PICK k \in 0..nameCounts[s][n] - 1 :
            (n \in Defined => k > 0) /\ DartNameOf(x[1], x[2]) = Numbered(n, k)
      BY <3>2, <3>3 DEF NumberTaken
    <3>5. nameCounts'[c][n] = nameCounts[s][n]
      BY <1>6, <1>8, <3>1, <3>4
    <3>6. QED
      BY <1>9, <2>2, <3>3, <3>4, <3>5 DEF NumberTaken
  <2>3. QED
    BY <2>1, <2>2
<1>14. CountInv'
  <2>1. ASSUME NEW d \in renamed \ program.imported, NEW n \in Defined
        PROVE  nameCounts'[d][n] > 0
    <3>1. d \in Class /\ n \in Name /\ nameCounts[d][n] > 0
      BY RenamerAssumption DEF MembersInv, CountInv, MethodsInv, VisitsInv, TypeOK
    <3>2. CASE d # c \/ s = Root
      BY <1>2, <1>7, <3>1, <3>2
    <3>3. CASE d = c /\ s # Root
      BY <1>8, <3>1, <3>3
    <3>4. QED
      BY <3>2, <3>3
  <2>2. \A d \in inherited' : d \in Class
    BY <1>2, <1>3, <1>5
  <2>3. QED
    BY <1>2, <1>10, <1>13, <2>1, <2>2 DEF CountInv
<1>15. MembersDistinct'
  <2>1. ASSUME NEW d \in inherited', ~BelowImported(d)
        PROVE  /\ d \in Class
               /\ \A x \in Visible(d) : DartNameOf(x[1], x[2]) \notin Keyword \cup Defined
               /\ \A x, y \in Visible(d) : Apart(x, y)
    BY <1>2, <1>3, <1>5, <1>12, <2>1 DEF MembersInv, MembersDistinct
  <2>2. QED
    <3>1. ASSUME NEW d \in inherited', ~BelowImported(d)'
          PROVE  /\ \A x \in Visible(d)' : DartNameOf(x[1], x[2])' \notin Keyword \cup Defined
                 /\ \A x, y \in Visible(d)' : Apart(x, y)'
      <4>1. d \in Class
        BY <1>2, <1>3, <1>5
      <4>2. ~BelowImported(d) /\ Visible(d)' = Visible(d)
        BY <1>10, <3>1, <4>1
      <4>3. QED
        BY <1>9, <1>11, <2>1, <4>2
    <3>2. QED
      BY <3>1 DEF MembersDistinct
<1>16. QED
  BY <1>14, <1>15

(* The visit of a class begins with a count for each member of JObject. *)
LEMMA VisitNamed ==
  ASSUME MembersInv, NEW c, Visit(c)
  PROVE  CountInv' /\ MembersDistinct'
<1>1. /\ c \in Class /\ c \notin renamed /\ c \notin inherited
      /\ renamed' = renamed \cup {c}
      /\ nameCounts' = [nameCounts EXCEPT ![c] =
                          [n \in Name |-> IF n \in Defined THEN 1 ELSE 0]]
      /\ UNCHANGED <<program, inherited, done, methodName, fieldName>>
      /\ nameCounts \in [Class -> Counts]
      /\ \A d \in inherited : d \in Class
  BY DEF Visit, MembersInv, MethodsInv, VisitsInv, TypeOK
<1>2. /\ \A d \in Class : d # c => nameCounts'[d] = nameCounts[d]
      /\ \A n \in Name : nameCounts'[c][n] = IF n \in Defined THEN 1 ELSE 0
  BY <1>1
<1>3. \A d, j : /\ DartNameOf(d, j)' = DartNameOf(d, j)
                /\ JavaName(d, j)' = JavaName(d, j)
  BY <1>1 DEF DartNameOf, JavaName
<1>4. \A d \in Class : /\ Visible(d)' = Visible(d)
                       /\ BelowImported(d)' <=> BelowImported(d)
  BY <1>1, VisibleSame, LineageSame
<1>5. \A x, y : Apart(x, y)' <=> Apart(x, y)
  BY <1>1, <1>3, ApartSame
<1>6. ASSUME NEW d \in inherited, NEW x PROVE NumberTaken(d, x)' <=> NumberTaken(d, x)
  BY <1>1, <1>2, <1>3 DEF NumberTaken
<1>7. CountInv'
  <2>1. ASSUME NEW d \in renamed' \ program.imported, NEW n \in Defined
        PROVE  nameCounts'[d][n] > 0
    <3>1. n \in Name /\ (d = c \/ d \in renamed \ program.imported)
      BY <1>1, RenamerAssumption
    <3>2. CASE d = c
      BY <1>2, <3>1, <3>2
    <3>3. CASE d # c
      BY <1>2, <3>1, <3>3 DEF MembersInv, CountInv, MethodsInv, VisitsInv, TypeOK
    <3>4. QED
      BY <3>2, <3>3
  <2>2. QED
    BY <1>1, <1>4, <1>6, <2>1 DEF MembersInv, CountInv
<1>8. MembersDistinct'
  BY <1>1, <1>3, <1>4, <1>5 DEF MembersInv, MembersDistinct
<1>9. QED
  BY <1>7, <1>8

(* No member has a name at first. *)
LEMMA MembersInit == Init => MembersInv
<1> SUFFICES ASSUME Init PROVE MembersInv
  OBVIOUS
<1>1. CountInv
  BY DEF Init, CountInv
<1>2. MembersDistinct
  BY DEF Init, MembersDistinct
<1>3. QED
  BY <1>1, <1>2, MethodsInit DEF MembersInv

(* Every step keeps the invariant of the members. *)
LEMMA MembersNext == MembersInv /\ [Next]_vars => MembersInv'
<1> SUFFICES ASSUME MembersInv, [Next]_vars PROVE MembersInv'
  OBVIOUS
<1>1. MethodsInv' /\ VisitsInv'
  BY MethodsNext DEF MembersInv, MethodsInv
<1>2. \/ \E c \in Class : \E k \in 1..Members(c) : RenameMethod(c, k) \/ RenameField(c, k)
      \/ \E c : Visit(c)
      \/ Inherit
      \/ UNCHANGED <<program, renamed, inherited, done, nameCounts, methodName, fieldName>>
  BY DEF Next, vars, VisitNext, VisitSuper, Return
<1>3. ASSUME UNCHANGED <<program, renamed, inherited, done, nameCounts, methodName, fieldName>>
      PROVE  CountInv' /\ MembersDistinct'
  <2>1. \A d, j : DartNameOf(d, j)' = DartNameOf(d, j) /\ JavaName(d, j)' = JavaName(d, j)
    BY <1>3 DEF DartNameOf, JavaName
  <2>2. \A d \in Class : /\ Visible(d)' = Visible(d)
                         /\ BelowImported(d)' <=> BelowImported(d)
    BY <1>3, VisibleSame, LineageSame
  <2>3. \A x, y : Apart(x, y)' <=> Apart(x, y)
    BY <1>3, <2>1, ApartSame
  <2>4. \A d, x : NumberTaken(d, x)' <=> NumberTaken(d, x)
    BY <1>3, <2>1 DEF NumberTaken
  <2>5. \A d \in inherited : d \in Class
    BY DEF MembersInv, MethodsInv, VisitsInv, TypeOK
  <2>6. QED
    BY <1>3, <2>1, <2>2, <2>3, <2>4, <2>5 DEF MembersInv, CountInv, MembersDistinct
<1>4. CountInv' /\ MembersDistinct'
  BY <1>1, <1>2, <1>3, MethodNamed, FieldNamed, VisitNamed, InheritNamed
<1>5. QED
  BY <1>1, <1>4 DEF MembersInv

-----------------------------------------------------------------------------
(* The numbers of members. *)

NumbersInv == MembersInv /\ NumberInv /\ NumbersByDeclaration

(* The names and counts of a class that has those of its superclass. *)
LEMMA NumberFacts ==
  ASSUME NumbersInv
  PROVE  /\ VisitsInv /\ MethodsInv /\ MembersInv
         /\ nameCounts \in [Class -> [Name -> Nat]] /\ done \in [Class -> Nat]
         /\ \A c \in inherited : c \in Class /\ c \in renamed \ program.imported
BY DEF NumbersInv, MembersInv, MethodsInv, VisitsInv, VisitInv, TypeOK, Counts

(* The members before the k-th of a class are those that have a name. *)
LEMMA DeclaredEarlier ==
  ASSUME VisitsInv, NEW c \in Class, NEW k \in 1..Members(c), AtMember(c, k), NEW n
  PROVE  Earlier(c, k, n) = CountedMembers(c, n)
<1>1. /\ c \in inherited /\ ~Finished(c) /\ k \in Nat /\ k = done[c] + 1 /\ done[c] \in Nat
      /\ \A j \in 1..done[c] : j \in 1..Members(c)
  BY NamedNext
<1>2. \A d \in Lineage(c) : d # c => done[d] = Members(d)
  BY <1>1, LineageFinished DEF Finished
<1>3. \A j \in 1..Members(c) : j < k <=> j \in 1..done[c]
  <2>1. PICK a \in Nat, b \in Nat : a = done[c] /\ b = Members(c) /\ k = a + 1
    BY <1>1, MemberFacts DEF VisitsInv
  <2>2. QED
    BY <2>1
<1>4. ASSUME NEW x
      PROVE  (/\ x \in UNION {{<<d, j>> : j \in 1..Members(d)} : d \in Lineage(c)}
              /\ x[1] = c => x[2] < k) <=> x \in Visible(c)
  <2>1. ASSUME NEW d \in Lineage(c), NEW j \in 1..Members(d), x = <<d, j>>, x[1] = c => x[2] < k
        PROVE  x \in Visible(c)
    <3>1. j \in 1..done[d]
      BY <1>2, <1>3, <2>1
    <3>2. QED
      BY <2>1, <3>1 DEF Visible, NamedMembers
  <2>2. ASSUME NEW d \in Lineage(c), NEW j \in 1..done[d], x = <<d, j>>
        PROVE  /\ x \in UNION {{<<e, i>> : i \in 1..Members(e)} : e \in Lineage(c)}
               /\ x[1] = c => x[2] < k
    <3>1. j \in 1..Members(d) /\ (d = c => j < k)
      BY <1>1, <1>2, <1>3, <2>2
    <3>2. QED
      BY <2>2, <3>1
  <2>3. QED
    BY <2>1, <2>2 DEF Visible, NamedMembers
<1>5. QED
  BY <1>4 DEF Earlier, CountedMembers

(* What is declared and what overrides depend on the program only. *)
LEMMA DeclarationsSame ==
  ASSUME program' = program
  PROVE  /\ \A d, j : JavaName(d, j)' = JavaName(d, j) /\ (Overrides(d, j)' <=> Overrides(d, j))
         /\ \A d, j, n : Earlier(d, j, n)' = Earlier(d, j, n)
<1>1. \A d, j : JavaName(d, j)' = JavaName(d, j) /\ (Overrides(d, j)' <=> Overrides(d, j))
  BY DEF JavaName, Overrides
<1>2. \A d : Lineage(d)' = Lineage(d) /\ Members(d)' = Members(d)
  BY LineageSame DEF Members
<1>3. \A d, j, n : Earlier(d, j, n)' = Earlier(d, j, n)
  BY <1>1, <1>2 DEF Earlier
<1>4. QED
  BY <1>1, <1>3

(* A class with the same members and counts is counted as before. *)
LEMMA DeclaredSame ==
  ASSUME program' = program, NEW d, Visible(d)' = Visible(d), NEW n
  PROVE  CountedMembers(d, n)' = CountedMembers(d, n)
BY DeclarationsSame DEF CountedMembers

(* The k-th member is counted, and its number is the count, unless it overrides. *)
LEMMA NumberNamed ==
  ASSUME NumbersInv, NEW c \in Class, NEW k \in 1..Members(c), AtMember(c, k),
         NEW n \in Name, n = JavaName(c, k),
         \A d \in Class : \A j \in 1..done[d] : DartNameOf(d, j)' = DartNameOf(d, j),
         Overrides(c, k) => nameCounts' = nameCounts,
         ~Overrides(c, k) =>
           /\ nameCounts' = [nameCounts EXCEPT ![c] = Counted(@, n)]
           /\ DartNameOf(c, k)' = Numbered(n, nameCounts[c][n])
  PROVE  NumberInv' /\ NumbersByDeclaration'
<1>1. /\ c \in inherited /\ done'[c] = k /\ 1..k = 1..done[c] \cup {k} /\ k \notin 1..done[c]
      /\ \A d \in Class : d # c => done'[d] = done[d]
      /\ program' = program /\ UNCHANGED <<renamed, inherited>>
  BY NumberFacts, NamedNext DEF AtMember
<1>2. /\ Visible(c)' = Visible(c) \cup {<<c, k>>} /\ <<c, k>> \notin Visible(c)
      /\ \A d \in inherited : d # c => Visible(d)' = Visible(d)
  BY NumberFacts, VisibleNext
<1>3. /\ \A d, j : JavaName(d, j)' = JavaName(d, j) /\ (Overrides(d, j)' <=> Overrides(d, j))
      /\ \A d, j, o : Earlier(d, j, o)' = Earlier(d, j, o)
  BY <1>1, DeclarationsSame
<1>4. ASSUME NEW d \in Class, d # c
      PROVE  nameCounts'[d] = nameCounts[d]
  BY <1>4, NumberFacts
<1>5. ASSUME NEW o
      PROVE  CountedMembers(c, o)' = IF ~Overrides(c, k) /\ o = n
                                 THEN CountedMembers(c, o) \cup {<<c, k>>} ELSE CountedMembers(c, o)
  BY <1>2, <1>3 DEF CountedMembers
<1>6. ASSUME NEW o \in Name
      PROVE  /\ IsFiniteSet(CountedMembers(c, o)')
             /\ nameCounts'[c][o] =
                  Cardinality(CountedMembers(c, o)') + (IF o \in Defined THEN 1 ELSE 0)
  <2>1. /\ IsFiniteSet(CountedMembers(c, o)) /\ Cardinality(CountedMembers(c, o)) \in Nat
        /\ nameCounts[c][o] = Cardinality(CountedMembers(c, o)) + (IF o \in Defined THEN 1 ELSE 0)
    BY <1>1, FS_CardinalityType DEF NumbersInv, NumberInv
  <2>2. CASE ~Overrides(c, k) /\ o = n
    <3>1. CountedMembers(c, o)' = CountedMembers(c, o) \cup {<<c, k>>} /\ <<c, k>> \notin CountedMembers(c, o)
      BY <1>2, <1>5, <2>2 DEF CountedMembers
    <3>2. /\ IsFiniteSet(CountedMembers(c, o)')
          /\ Cardinality(CountedMembers(c, o)') = Cardinality(CountedMembers(c, o)) + 1
      <4>1. PICK S, x : S = CountedMembers(c, o) /\ x = <<c, k>>
        OBVIOUS
      <4>2. IsFiniteSet(S \cup {x}) /\ Cardinality(S \cup {x}) = Cardinality(S) + 1
        <5>1. IsFiniteSet(S) /\ x \notin S
          BY <2>1, <3>1, <4>1
        <5>2. QED
          BY <5>1, FS_AddElement
      <4>3. QED
        BY <3>1, <4>1, <4>2
    <3>3. nameCounts'[c][o] = nameCounts[c][o] + 1
      BY <2>2, NumberFacts, ConflictNumbered DEF Counts
    <3>4. PICK a \in Nat : a = Cardinality(CountedMembers(c, o))
      BY <2>1
    <3>5. QED
      BY <2>1, <3>2, <3>3, <3>4
  <2>3. CASE ~(~Overrides(c, k) /\ o = n)
    <3>1. nameCounts'[c][o] = nameCounts[c][o]
      BY <2>3, NumberFacts DEF Counted
    <3>2. QED
      BY <1>5, <2>1, <2>3, <3>1
  <2>4. QED
    BY <2>2, <2>3
<1>7. ASSUME NEW d \in inherited, d # c, NEW o
      PROVE  CountedMembers(d, o)' = CountedMembers(d, o)
  BY <1>1, <1>2, <1>7, DeclaredSame
<1>8. NumberInv'
  <2>1. ASSUME NEW d \in Class \ inherited, NEW o \in Name
        PROVE  nameCounts'[d][o] =
                 IF d \in renamed \ program.imported /\ o \in Defined THEN 1 ELSE 0
    BY <1>1, <1>4, <2>1 DEF NumbersInv, NumberInv
  <2>2. ASSUME NEW d \in inherited, NEW o \in Name
        PROVE  /\ IsFiniteSet(CountedMembers(d, o)')
               /\ nameCounts'[d][o] =
                    Cardinality(CountedMembers(d, o)') + (IF o \in Defined THEN 1 ELSE 0)
    <3>1. CASE d = c
      BY <1>6, <3>1
    <3>2. CASE d # c
      <4>1. CountedMembers(d, o)' = CountedMembers(d, o) /\ nameCounts'[d] = nameCounts[d]
        BY <1>4, <1>7, <3>2, NumberFacts
      <4>2. QED
        BY <4>1 DEF NumbersInv, NumberInv
    <3>3. QED
      BY <3>1, <3>2
  <2>3. QED
    BY <1>1, <2>1, <2>2 DEF NumberInv
<1>9. NumbersByDeclaration'
  <2> SUFFICES ASSUME NEW d \in Class, NEW j \in 1..done'[d], ~Overrides(d, j),
                      NEW o, o = JavaName(d, j)
               PROVE  DartNameOf(d, j)' =
                        Numbered(o, Cardinality(Earlier(d, j, o))
                                      + (IF o \in Defined THEN 1 ELSE 0))
    BY <1>3 DEF NumbersByDeclaration
  <2>1. CASE d = c /\ j = k
    <3>1. Earlier(c, k, n) = CountedMembers(c, n)
      BY NumberFacts, DeclaredEarlier
    <3>2. nameCounts[c][n] = Cardinality(CountedMembers(c, n)) + (IF n \in Defined THEN 1 ELSE 0)
      BY <1>1 DEF NumbersInv, NumberInv
    <3>3. QED
      BY <2>1, <3>1, <3>2
  <2>2. CASE ~(d = c /\ j = k)
    <3>1. j \in 1..done[d]
      BY <1>1, <2>2
    <3>2. QED
      BY <3>1 DEF NumbersInv, NumbersByDeclaration
  <2>3. QED
    BY <2>1, <2>2
<1>10. QED
  BY <1>8, <1>9

(* A class starts with the counts of its superclass, that is, of the same members. *)
LEMMA NumberInherited ==
  ASSUME NumbersInv, Inherit
  PROVE  NumberInv' /\ NumbersByDeclaration'
<1>1. PICK c, s : c = Head(stack) /\ s = program.super[c]
  OBVIOUS
<1>2. /\ stack # <<>> /\ c \notin inherited /\ s \in renamed \cup {Root}
      /\ inherited' = inherited \cup {c}
      /\ nameCounts' =
           IF s = Root THEN nameCounts
           ELSE [nameCounts EXCEPT ![c] =
                   [n \in Name |-> IF nameCounts[s][n] > 0 THEN nameCounts[s][n] ELSE @[n]]]
      /\ UNCHANGED <<program, renamed, done, methodName, fieldName>>
  BY <1>1 DEF Inherit
<1>3. c \in Class /\ c \in renamed \ program.imported /\ ~OnStack(s)
  BY <1>1, <1>2, NumberFacts, Top
<1>4. NamedMembers(c) = {}
  <2>1. done[c] = 0
    BY <1>2, <1>3, NumberFacts DEF VisitsInv, VisitInv
  <2>2. QED
    BY <2>1 DEF NamedMembers
<1>5. /\ \A d \in Class : d # c => nameCounts'[d] = nameCounts[d]
      /\ s # Root => \A n \in Name :
           nameCounts'[c][n] = IF nameCounts[s][n] > 0 THEN nameCounts[s][n] ELSE nameCounts[c][n]
  BY <1>2, <1>3, NumberFacts
<1>6. /\ \A d \in Class : \A n : CountedMembers(d, n)' = CountedMembers(d, n)
      /\ \A d, j : /\ JavaName(d, j)' = JavaName(d, j) /\ (Overrides(d, j)' <=> Overrides(d, j))
                   /\ DartNameOf(d, j)' = DartNameOf(d, j)
      /\ \A d, j, n : Earlier(d, j, n)' = Earlier(d, j, n)
  BY <1>2, VisibleSame, DeclaredSame, DeclarationsSame DEF DartNameOf
<1>7. ASSUME NEW n \in Name
      PROVE  /\ IsFiniteSet(CountedMembers(c, n))
             /\ nameCounts'[c][n] =
                  Cardinality(CountedMembers(c, n)) + (IF n \in Defined THEN 1 ELSE 0)
  <2>1. nameCounts[c][n] = IF n \in Defined THEN 1 ELSE 0
    BY <1>2, <1>3 DEF NumbersInv, NumberInv
  <2>2. CASE s = Root \/ s \in program.imported
    <3>1. Lineage(c) = {c}
      BY <1>1, <1>3, <2>2, LineageStep, RenamerAssumption
    <3>2. CountedMembers(c, n) = {}
      BY <1>4, <3>1 DEF CountedMembers, Visible
    <3>3. IsFiniteSet(CountedMembers(c, n)) /\ Cardinality(CountedMembers(c, n)) = 0
      BY <3>2, FS_EmptySet
    <3>4. nameCounts'[c][n] = nameCounts[c][n]
      <4>1. CASE s = Root
        BY <1>2, <4>1
      <4>2. CASE s # Root /\ s \in program.imported
        <5>1. s \in Class \ inherited
          BY <1>2, <1>3, <1>1, <4>2, ProgramFacts, NumberFacts DEF VisitsInv
        <5>2. nameCounts[s][n] = 0
          BY <4>2, <5>1 DEF NumbersInv, NumberInv
        <5>3. QED
          BY <1>5, <4>2, <5>2
      <4>3. QED
        BY <2>2, <4>1, <4>2
    <3>5. QED
      BY <2>1, <3>3, <3>4
  <2>3. CASE s # Root /\ s \notin program.imported
    <3>1. s \in Class \ program.imported
      BY <1>1, <1>3, <2>3, ProgramFacts, NumberFacts DEF VisitsInv
    <3>2. s \in inherited
      BY <1>2, <1>3, <2>3, <3>1, NumberFacts DEF VisitsInv, VisitInv, Finished
    <3>3. CountedMembers(c, n) = CountedMembers(s, n)
      <4>1. Lineage(c) = {c} \cup Lineage(s)
        BY <1>1, <1>3, <3>1, LineageStep
      <4>2. Visible(c) = Visible(s)
        BY <1>4, <4>1 DEF Visible
      <4>3. QED
        BY <4>2 DEF CountedMembers
    <3>4. PICK a \in Nat : a = Cardinality(CountedMembers(s, n))
      BY <3>2, FS_CardinalityType DEF NumbersInv, NumberInv
    <3>5. IsFiniteSet(CountedMembers(s, n)) /\ nameCounts[s][n] = a + (IF n \in Defined THEN 1 ELSE 0)
      BY <3>2, <3>4 DEF NumbersInv, NumberInv
    <3>6. nameCounts'[c][n] = a + (IF n \in Defined THEN 1 ELSE 0)
      BY <1>5, <2>1, <2>3, <3>5
    <3>7. QED
      BY <3>3, <3>4, <3>5, <3>6
  <2>4. QED
    BY <2>2, <2>3
<1>8. NumberInv'
  <2>1. ASSUME NEW d \in Class \ inherited', NEW n \in Name
        PROVE  nameCounts'[d][n] =
                 IF d \in renamed \ program.imported /\ n \in Defined THEN 1 ELSE 0
    BY <1>2, <1>5, <2>1 DEF NumbersInv, NumberInv
  <2>2. ASSUME NEW d \in inherited', NEW n \in Name
        PROVE  /\ IsFiniteSet(CountedMembers(d, n)')
               /\ nameCounts'[d][n] =
                    Cardinality(CountedMembers(d, n)') + (IF n \in Defined THEN 1 ELSE 0)
    <3>1. CASE d = c
      BY <1>3, <1>6, <1>7, <3>1
    <3>2. CASE d # c
      <4>1. d \in inherited /\ d \in Class
        BY <1>2, <3>2, NumberFacts
      <4>2. CountedMembers(d, n)' = CountedMembers(d, n) /\ nameCounts'[d] = nameCounts[d]
        BY <1>5, <1>6, <3>2, <4>1
      <4>3. QED
        BY <4>1, <4>2 DEF NumbersInv, NumberInv
    <3>3. QED
      BY <3>1, <3>2
  <2>3. QED
    BY <1>2, <2>1, <2>2 DEF NumberInv
<1>9. NumbersByDeclaration'
  BY <1>2, <1>6 DEF NumbersInv, NumbersByDeclaration
<1>10. QED
  BY <1>8, <1>9

(* The visit of a class begins with the counts of the members of JObject. *)
LEMMA NumberVisit ==
  ASSUME NumbersInv, NEW c, Visit(c)
  PROVE  NumberInv' /\ NumbersByDeclaration'
<1>1. /\ c \in Class /\ c \notin renamed /\ c \notin inherited
      /\ c \notin program.imported
      /\ renamed' = renamed \cup {c}
      /\ nameCounts' = [nameCounts EXCEPT ![c] =
                          [n \in Name |-> IF n \in Defined THEN 1 ELSE 0]]
      /\ UNCHANGED <<program, inherited, done, methodName, fieldName>>
  BY NumberFacts DEF Visit, VisitsInv, VisitInv
<1>2. /\ \A d \in Class : d # c => nameCounts'[d] = nameCounts[d]
      /\ \A n \in Name : nameCounts'[c][n] = IF n \in Defined THEN 1 ELSE 0
  BY <1>1, NumberFacts
<1>3. /\ \A d \in Class : \A n : CountedMembers(d, n)' = CountedMembers(d, n)
      /\ \A d, j : /\ JavaName(d, j)' = JavaName(d, j) /\ (Overrides(d, j)' <=> Overrides(d, j))
                   /\ DartNameOf(d, j)' = DartNameOf(d, j)
      /\ \A d, j, n : Earlier(d, j, n)' = Earlier(d, j, n)
  BY <1>1, VisibleSame, DeclaredSame, DeclarationsSame DEF DartNameOf
<1>4. NumberInv'
  <2>1. ASSUME NEW d \in Class \ inherited, NEW n \in Name
        PROVE  nameCounts'[d][n] =
                 IF d \in renamed' \ program.imported /\ n \in Defined THEN 1 ELSE 0
    <3>1. CASE d = c
      BY <1>1, <1>2, <3>1
    <3>2. CASE d # c
      BY <1>1, <1>2, <3>2 DEF NumbersInv, NumberInv
    <3>3. QED
      BY <3>1, <3>2
  <2>2. ASSUME NEW d \in inherited, NEW n \in Name
        PROVE  /\ IsFiniteSet(CountedMembers(d, n)')
               /\ nameCounts'[d][n] =
                    Cardinality(CountedMembers(d, n)') + (IF n \in Defined THEN 1 ELSE 0)
    <3>1. d \in Class /\ d # c
      BY <1>1, NumberFacts
    <3>2. CountedMembers(d, n)' = CountedMembers(d, n) /\ nameCounts'[d] = nameCounts[d]
      BY <1>2, <1>3, <3>1
    <3>3. QED
      BY <3>2 DEF NumbersInv, NumberInv
  <2>3. QED
    BY <1>1, <2>1, <2>2 DEF NumberInv
<1>5. NumbersByDeclaration'
  BY <1>1, <1>3 DEF NumbersInv, NumbersByDeclaration
<1>6. QED
  BY <1>4, <1>5

(* Nothing is counted at first. *)
LEMMA NumbersInit == Init => NumbersInv
<1> SUFFICES ASSUME Init PROVE NumbersInv
  OBVIOUS
<1>1. inherited = {} /\ renamed = program.imported /\ \A c \in Class : done[c] = 0
  BY DEF Init
<1>2. \A c \in Class : \A n \in Name : nameCounts[c][n] = 0
  BY DEF Init
<1>3. NumberInv
  BY <1>1, <1>2 DEF NumberInv
<1>4. NumbersByDeclaration
  BY <1>1 DEF NumbersByDeclaration
<1>5. QED
  BY <1>3, <1>4, MembersInit DEF NumbersInv

(* Every step keeps the invariant of the numbers. *)
LEMMA NumbersNext == NumbersInv /\ [Next]_vars => NumbersInv'
<1> SUFFICES ASSUME NumbersInv, [Next]_vars PROVE NumbersInv'
  OBVIOUS
<1>1. MembersInv'
  BY MembersNext DEF NumbersInv
<1>2. \/ \E c \in Class : \E k \in 1..Members(c) : RenameMethod(c, k) \/ RenameField(c, k)
      \/ \E c : Visit(c)
      \/ Inherit
      \/ UNCHANGED <<program, renamed, inherited, done, nameCounts, methodName, fieldName>>
  BY DEF Next, vars, VisitNext, VisitSuper, Return
<1>3. ASSUME UNCHANGED <<program, renamed, inherited, done, nameCounts, methodName, fieldName>>
      PROVE  NumberInv' /\ NumbersByDeclaration'
  <2>1. /\ \A d \in Class : \A n : CountedMembers(d, n)' = CountedMembers(d, n)
        /\ \A d, j : /\ JavaName(d, j)' = JavaName(d, j)
                     /\ (Overrides(d, j)' <=> Overrides(d, j))
                     /\ DartNameOf(d, j)' = DartNameOf(d, j)
        /\ \A d, j, n : Earlier(d, j, n)' = Earlier(d, j, n)
    BY <1>3, VisibleSame, DeclaredSame, DeclarationsSame DEF DartNameOf
  <2>2. NumberInv'
    BY <1>3, <2>1, NumberFacts DEF NumbersInv, NumberInv
  <2>3. NumbersByDeclaration'
    BY <1>3, <2>1 DEF NumbersInv, NumbersByDeclaration
  <2>4. QED
    BY <2>2, <2>3
<1>4. ASSUME NEW c \in Class, NEW k \in 1..Members(c), RenameMethod(c, k) \/ RenameField(c, k)
      PROVE  NumberInv' /\ NumbersByDeclaration'
  <2>1. PICK n : n = JavaName(c, k)
    OBVIOUS
  <2>2. /\ AtMember(c, k) /\ n \in Name
        /\ \A d \in Class : \A j \in 1..done[d] : DartNameOf(d, j)' = DartNameOf(d, j)
        /\ Overrides(c, k) => nameCounts' = nameCounts
        /\ ~Overrides(c, k) =>
             /\ nameCounts' = [nameCounts EXCEPT ![c] = Counted(@, n)]
             /\ DartNameOf(c, k)' = Numbered(n, nameCounts[c][n])
    BY <1>4, <2>1, NumberFacts, MethodNames, FieldNames
  <2>3. QED
    BY <2>1, <2>2, NumberNamed
<1>5. NumberInv' /\ NumbersByDeclaration'
  BY <1>2, <1>3, <1>4, NumberInherited, NumberVisit
<1>6. QED
  BY <1>1, <1>5 DEF NumbersInv

-----------------------------------------------------------------------------
(* The theorems. *)

\* The inductive invariant: what has been visited, and which numbers are taken.
THEOREM RenamerInvariant == Spec => []IInv
<1>1. Init => IInv
  BY ClassInit, NumbersInit
     DEF IInv, ClassInv, NumbersInv, MembersInv, MethodsInv, VisitsInv
<1>2. IInv /\ [Next]_vars => IInv'
  BY ClassNext, NumbersNext
     DEF IInv, ClassInv, NumbersInv, MembersInv, MethodsInv, VisitsInv
<1>3. QED
  BY <1>1, <1>2, PTL DEF Spec

\* The variables have their types for all programs.
THEOREM RenamerTypes == Spec => []TypeOK
<1>1. IInv => TypeOK
  BY DEF IInv
<1>2. QED
  BY <1>1, RenamerInvariant, PTL

\* No two classes get one name, in whichever order they are visited: the map
\* classNameCounts of _ClassRenamer counts every class.
THEOREM ClassNamesDistinct == Spec => []ClassesDistinct
<1>1. IInv => ClassesDistinct
  BY DEF IInv
<1>2. QED
  BY <1>1, RenamerInvariant, PTL

\* Overriding methods have the name of the method they override, over any number of
\* superclasses, renamed before or imported (methodNumsAfterRenaming).
THEOREM OverridesKeepNames == Spec => []OverrideKeepsName
<1>1. IInv => OverrideKeepsName
  BY DEF IInv
<1>2. QED
  BY <1>1, RenamerInvariant, PTL

\* The members that a Dart class declares and inherits have different names, unless
\* one overrides the other, for any overloads in any number of superclasses.
THEOREM MemberNamesDistinct == Spec => []MembersDistinct
<1>1. IInv => MembersDistinct
  BY DEF IInv
<1>2. QED
  BY <1>1, RenamerInvariant, PTL

\* A member has the number of the declarations of its name before it, in its class
\* and in any number of superclasses, in whichever order the classes are visited:
\* _ClassRenamer visits the superclass first and starts with its counts.
THEOREM NumbersAreDeclarations == Spec => []NumbersByDeclaration
<1>1. IInv => NumbersByDeclaration
  BY DEF IInv
<1>2. QED
  BY <1>1, RenamerInvariant, PTL

-----------------------------------------------------------------------------
(* The fields that are found. *)

\* A field has a name in Dart only when it has been renamed.
FieldInv ==
  \A c \in Class : \A n \in Name :
    fieldName[c][n] # None =>
      \E k \in 1..done[c] : k > Len(program.methods[c]) /\ JavaName(c, k) = n

\* The k-th member of class c is the first of its name in its class and the
\* superclasses, and its name is free: no keyword and no member of JObject.
FirstOfName(c, k) ==
  JavaName(c, k) \notin Keyword \cup Defined /\ Earlier(c, k, JavaName(c, k)) = {}

(* The members after the methods are fields. *)
LEMMA FieldMember ==
  ASSUME TypeOK, NEW c \in Class, NEW k \in 1..Members(c), k > Len(program.methods[c])
  PROVE  /\ ~(k <= Len(program.methods[c]))
         /\ JavaName(c, k) = program.fields[c][k - Len(program.methods[c])]
         /\ JavaName(c, k) \in Name
         /\ DartNameOf(c, k) = fieldName[c][JavaName(c, k)]
<1>1. PICK a \in Nat, m \in Nat : a = Len(program.methods[c]) /\ m = Members(c)
  BY MemberFacts
<1>2. k \in 1..m /\ k > a
  BY <1>1
<1>3. ~(k <= a)
  BY <1>2
<1>4. QED
  BY <1>1, <1>3, MemberFacts DEF JavaName, DartNameOf

(* A step that names no field gives none to another.                           *)
LEMMA FieldInvKept ==
  ASSUME VisitsInv, FieldInv, UNCHANGED <<program, fieldName>>,
         \A c \in Class : done'[c] \in Nat /\ done[c] <= done'[c]
  PROVE  FieldInv'
<1> SUFFICES ASSUME NEW c \in Class, NEW n \in Name, fieldName[c][n] # None
             PROVE  \E k \in 1..done'[c] :
                      k > Len(program.methods[c]) /\ JavaName(c, k)' = n
  BY DEF FieldInv
<1>1. PICK k \in 1..done[c] : k > Len(program.methods[c]) /\ JavaName(c, k) = n
  BY DEF FieldInv
<1>2. k \in 1..done'[c] /\ JavaName(c, k)' = n
  BY <1>1 DEF VisitsInv, TypeOK, JavaName
<1>3. QED
  BY <1>1, <1>2

(* Only _FieldRenamer gives a name to a field. *)
LEMMA FieldInvNext == VisitsInv /\ FieldInv /\ [Next]_vars => FieldInv'
<1> SUFFICES ASSUME VisitsInv, FieldInv, [Next]_vars PROVE FieldInv'
  OBVIOUS
<1>1. \A c \in Class : done[c] \in Nat /\ done[c] <= done[c]
  BY DEF VisitsInv, TypeOK
<1>2. ASSUME UNCHANGED <<program, fieldName, done>> PROVE FieldInv'
  BY <1>1, <1>2, FieldInvKept
<1>3. ASSUME NEW c \in Class, NEW k \in 1..Members(c), AtMember(c, k)
      PROVE  /\ k \in Nat /\ program' = program /\ done' = [done EXCEPT ![c] = k]
             /\ \A d \in Class : done'[d] \in Nat /\ done[d] <= done'[d]
  <2>1. k \in Nat /\ k = done[c] + 1
    BY <1>3, MemberFacts DEF AtMember, VisitsInv
  <2>2. QED
    BY <1>1, <1>3, <2>1 DEF AtMember, VisitsInv, TypeOK
<1>4. ASSUME NEW c \in Class, NEW k \in 1..Members(c), RenameMethod(c, k)
      PROVE  FieldInv'
  <2>1. AtMember(c, k) /\ fieldName' = fieldName
    BY <1>4 DEF RenameMethod
  <2>2. QED
    BY <1>3, <2>1, FieldInvKept
<1>5. ASSUME NEW c \in Class, NEW k \in 1..Members(c), RenameField(c, k)
      PROVE  FieldInv'
  <2> DEFINE o == program.fields[c][k - Len(program.methods[c])]
  <2>1. /\ AtMember(c, k) /\ k > Len(program.methods[c])
        /\ fieldName' = [fieldName EXCEPT ![c][o] = RenameConflict(nameCounts[c], o)]
    BY <1>5 DEF RenameField
  <2>2. /\ k \in Nat /\ program' = program /\ done'[c] = k
        /\ \A d \in Class : done'[d] \in Nat /\ done[d] <= done'[d]
    BY <1>3, <2>1 DEF VisitsInv, TypeOK
  <2>3. o = JavaName(c, k) /\ o \in Name /\ Len(program.methods[c]) \in Nat
    BY <2>1, FieldMember, MemberFacts DEF VisitsInv
  <2> SUFFICES ASSUME NEW d \in Class, NEW n \in Name, fieldName'[d][n] # None
               PROVE  \E j \in 1..done'[d] :
                        j > Len(program.methods[d]) /\ JavaName(d, j) = n
    BY <2>2 DEF FieldInv, JavaName
  <2>4. CASE d = c /\ n = o
    BY <2>1, <2>2, <2>3, <2>4
  <2>5. CASE ~(d = c /\ n = o)
    <3>1. fieldName'[d][n] = fieldName[d][n]
      BY <2>1, <2>3, <2>5 DEF VisitsInv, TypeOK
    <3>2. PICK j \in 1..done[d] : j > Len(program.methods[d]) /\ JavaName(d, j) = n
      BY <3>1 DEF FieldInv
    <3>3. j \in 1..done'[d]
      BY <1>1, <2>2
    <3>4. QED
      BY <3>2, <3>3
  <2>6. QED
    BY <2>4, <2>5
<1>6. QED
  <2>1. \/ \E c \in Class : \E k \in 1..Members(c) : RenameMethod(c, k) \/ RenameField(c, k)
        \/ UNCHANGED <<program, fieldName, done>>
    BY DEF Next, vars, VisitNext, VisitSuper, Visit, Inherit, Return
  <2>2. QED
    BY <1>2, <1>4, <1>5, <2>1

(* The members before one that has a name are finitely many. *)
LEMMA EarlierFinite ==
  ASSUME NumbersInv, NEW c \in Class, NEW k \in 1..done[c], NEW n \in Name
  PROVE  IsFiniteSet(Earlier(c, k, n))
<1>1. c \in inherited /\ done \in [Class -> Nat]
  BY NumberFacts DEF VisitsInv, VisitInv
<1>2. IsFiniteSet(CountedMembers(c, n))
  BY <1>1 DEF NumbersInv, NumberInv
<1>3. Earlier(c, k, n) \subseteq CountedMembers(c, n)
  <2> SUFFICES ASSUME NEW d \in Lineage(c), NEW j \in 1..Members(d),
                      d = c => j < k, ~Overrides(d, j), JavaName(d, j) = n
               PROVE  <<d, j>> \in CountedMembers(c, n)
    BY DEF Earlier
  <2>1. d \in Class /\ (d = c \/ Finished(d))
    BY <1>1, NumberFacts, LineageFinished
  <2>2. j \in 1..done[d]
    <3>1. Members(d) \in Nat /\ done[d] \in Nat
      BY <1>1, <2>1, NumberFacts, MemberFacts DEF VisitsInv
    <3>2. QED
      BY <1>1, <2>1, <3>1 DEF Finished
  <2>3. <<d, j>> \in Visible(c)
    BY <2>2 DEF Visible, NamedMembers
  <2>4. QED
    BY <2>3 DEF CountedMembers
<1>4. QED
  BY <1>2, <1>3, FS_Subset

(* A field has the name that it has in Java if it is the first of that name. *)
LEMMA FieldFound ==
  ASSUME NumbersInv, NEW c \in Class, NEW k \in 1..done[c], k > Len(program.methods[c])
  PROVE  LET n == JavaName(c, k)
         IN  /\ n \in Name /\ fieldName[c][n] # None
             /\ LookedUp(c, n) = n <=> FirstOfName(c, k)
<1> DEFINE n == JavaName(c, k)
           before == Earlier(c, k, n)
           number == Cardinality(before) + (IF n \in Defined THEN 1 ELSE 0)
<1>1. /\ k \in Nat /\ k \in 1..Members(c) /\ n \in Name
  <2>1. done[c] \in Nat /\ Members(c) \in Nat /\ done[c] <= Members(c)
    BY NumberFacts, MemberFacts DEF VisitsInv, VisitInv
  <2>2. k \in Nat /\ k \in 1..Members(c)
    BY <2>1
  <2>3. n \in Name
    BY <2>2, NumberFacts, MemberFacts DEF VisitsInv
  <2>4. QED
    BY <2>2, <2>3
<1>2. IsFiniteSet(before)
  BY <1>1, EarlierFinite
<1>3. /\ Cardinality(before) \in Nat /\ (Cardinality(before) = 0 <=> before = {})
      /\ number \in Nat /\ (number = 0 <=> before = {} /\ n \notin Defined)
  BY <1>2, FS_CardinalityType, FS_EmptySet
<1>4. ~Overrides(c, k) /\ DartNameOf(c, k) = fieldName[c][n]
  BY <1>1, NumberFacts, FieldMember DEF VisitsInv, Overrides
<1>5. fieldName[c][n] = Numbered(n, number)
  BY <1>4 DEF NumbersInv, NumbersByDeclaration
<1>6. /\ Numbered(n, number) \in DartName
      /\ Numbered(n, number) = n <=> number = 0 /\ n \notin Keyword
  <2>1. n \in DartName
    BY <1>1, RenamerAssumption
  <2>2. \A j \in Nat : WithNumber(n, j) \in DartName /\ WithNumber(n, j) # n
    BY <1>1, NumberedName
  <2>3. QED
    BY <1>3, <2>1, <2>2 DEF Numbered, KeywordRename
<1>7. fieldName[c][n] # None
  BY <1>5, <1>6, RenamerAssumption
<1>8. LookedUp(c, n) = n <=> FirstOfName(c, k)
  BY <1>3, <1>5, <1>6 DEF LookedUp, FirstOfName
<1>9. QED
  BY <1>1, <1>7, <1>8

\* Which fields a generated C library finds in Java: exactly those that are the
\* first of their name in their class and its superclasses, and named neither like
\* a keyword nor like a member of JObject.  The accessor of any other field looks up
\* the name that _FieldRenamer has made (c_generator.dart:248, :293).
THEOREM FieldsFoundIfFirst ==
  Spec => [](FieldsFound <=>
               \A c \in Class : \A k \in 1..done[c] :
                 k > Len(program.methods[c]) => FirstOfName(c, k))
<1>1. Init => FieldInv
  BY DEF Init, FieldInv
<1>2. IInv => VisitsInv /\ NumbersInv
  BY DEF IInv, NumbersInv, MembersInv, MethodsInv, VisitsInv
<1>3. Spec => []FieldInv
  BY <1>1, <1>2, FieldInvNext, RenamerInvariant, PTL DEF Spec
<1>4. ASSUME NumbersInv, FieldInv
      PROVE  FieldsFound <=> \A c \in Class : \A k \in 1..done[c] :
                               k > Len(program.methods[c]) => FirstOfName(c, k)
  <2>1. ASSUME FieldsFound, NEW c \in Class, NEW k \in 1..done[c],
               k > Len(program.methods[c])
        PROVE  FirstOfName(c, k)
    BY <1>4, <2>1, FieldFound DEF FieldsFound
  <2>2. ASSUME \A c \in Class : \A k \in 1..done[c] :
                 k > Len(program.methods[c]) => FirstOfName(c, k),
               NEW c \in Class, NEW n \in Name, fieldName[c][n] # None
        PROVE  LookedUp(c, n) = n
    <3>1. PICK k \in 1..done[c] : k > Len(program.methods[c]) /\ JavaName(c, k) = n
      BY <1>4, <2>2 DEF FieldInv
    <3>2. QED
      BY <1>4, <2>2, <3>1, FieldFound
  <2>3. QED
    BY <2>1, <2>2 DEF FieldsFound
<1>5. QED
  BY <1>2, <1>3, <1>4, RenamerInvariant, PTL
=============================================================================
