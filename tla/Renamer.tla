-------------------------------- MODULE Renamer --------------------------------
(***************************************************************************)
(* The Renamer of jnigen: how the classes and members of Java get the      *)
(* names they have in Dart and in C.                                       *)
(*                                                                         *)
(* A name is the text of a Java name without the digits at its end, those  *)
(* digits, and the numbers the Renamer adds, which have one digit: two     *)
(* names are the same string if they are equal.  Classes are visited in    *)
(* the order of the summary, which is any order; visiting a class visits   *)
(* its superclass first, with the class on the stack.                      *)
(***************************************************************************)
EXTENDS Naturals, Sequences, FiniteSets

CONSTANTS
  Class,     \* classes of the summary and of imported symbol files
  Root,      \* java.lang.Object, which is always imported
  Text,      \* what a name may begin with
  Name,      \* Java names
  Keyword,   \* the names in _keywords; new is the name of a constructor
  Defined,   \* the names in _definedSyms, members of JObject
  Method,    \* methods: a name and the parameters with the result
  Simple,    \* the simplified name of a class
  Programs,  \* the Java programs considered
  None       \* no name, no number

DartName == [text : Text, nums : Seq(Nat)]

\* Neither a keyword nor a member of JObject ends with a digit.  A program has
\* superclasses, without cycles; the members of each class in the order of the
\* summary, no two with one signature; and classes that come from symbol files.
ASSUME RenamerAssumption ==
  /\ Root \notin Class
  /\ \A n \in Name : n \in DartName
  /\ Keyword \subseteq Name /\ Defined \subseteq Name
  /\ \A n \in Keyword \cup Defined : n.nums = <<>>
  /\ \A m \in Method : m.name \in Name
  /\ Simple \in [Class -> Name]
  /\ None \notin Nat /\ None \notin DartName
  /\ \A p \in Programs :
       /\ p.super \in [Class -> Class \cup {Root}]
       /\ p.methods \in [Class -> Seq(Method)]
       /\ p.fields \in [Class -> Seq(Name)]
       /\ p.imported \subseteq Class
       /\ p.rank \in [Class -> Nat]
       /\ \A c \in Class :
            /\ p.super[c] # Root => p.rank[p.super[c]] < p.rank[c]
            /\ \A j, k \in DOMAIN p.methods[c] :
                 p.methods[c][j] = p.methods[c][k] => j = k
            /\ \A j, k \in DOMAIN p.fields[c] :
                 p.fields[c][j] = p.fields[c][k] => j = k

VARIABLES
  program,          \* what is being renamed
  renamed,          \* classes whose visit has begun, and imported ones
  stack,            \* visits in progress, the innermost first
  inherited,        \* classes that have the counts of their superclass
  done,             \* number of members of a class that are renamed
  classNameCounts,  \* 0 for a name that is not in the map
  nameCounts,       \* likewise, per class
  nums,             \* methodNumsAfterRenaming, per class
  uniqueName,       \* of a class
  methodName,       \* finalName of the methods of a class
  fieldName         \* finalName of the fields of a class

vars == <<program, renamed, stack, inherited, done, classNameCounts, nameCounts,
          nums, uniqueName, methodName, fieldName>>

Counts == [Name -> Nat]

\* Types of the variables.
TypeOK ==
  /\ program \in Programs
  /\ renamed \subseteq Class
  /\ stack \in Seq(Class)
  /\ inherited \subseteq renamed
  /\ done \in [Class -> Nat]
  /\ classNameCounts \in Counts
  /\ nameCounts \in [Class -> Counts]
  /\ nums \in [Class -> [Method -> Nat \cup {None}]]
  /\ uniqueName \in [Class -> DartName \cup {None}]
  /\ methodName \in [Class -> [Method -> DartName \cup {None}]]
  /\ fieldName \in [Class -> [Name -> DartName \cup {None}]]

Members(c) == Len(program.methods[c]) + Len(program.fields[c])

\* The methods of an imported class, with the numbers of the run that made its
\* symbol file: each overload of a name has the next number.
ImportedNums(p, c) ==
  [m \in Method |->
     IF \E k \in DOMAIN p.methods[c] : p.methods[c][k] = m
       THEN LET at == CHOOSE k \in DOMAIN p.methods[c] : p.methods[c][k] = m
            IN  Cardinality({k \in 1..at - 1 : p.methods[c][k].name = m.name})
                  + (IF m.name \in Defined THEN 1 ELSE 0)
       ELSE None]

Init ==
  /\ program \in Programs
  /\ renamed = program.imported
  /\ stack = <<>>
  /\ inherited = {}
  /\ done = [c \in Class |-> 0]
  /\ classNameCounts = [n \in Name |-> 0]
  /\ nameCounts = [c \in Class |-> [n \in Name |-> 0]]
  /\ nums = [c \in Class |->
               IF c \in program.imported THEN ImportedNums(program, c)
               ELSE [m \in Method |-> None]]
  /\ uniqueName = [c \in Class |-> None]
  /\ methodName = [c \in Class |-> [m \in Method |-> None]]
  /\ fieldName = [c \in Class |-> [n \in Name |-> None]]

-----------------------------------------------------------------------------

WithNumber(n, k) == [n EXCEPT !.nums = Append(@, k)]

KeywordRename(n) == IF n \in Keyword THEN WithNumber(n, 0) ELSE n

\* Faulty: the count is not looked at.
UncountedName(counts, n) == KeywordRename(n)

\* The name that _renameConflict returns, and the counts it leaves behind.
RenameConflict(counts, n) ==
  IF counts[n] > 0 THEN WithNumber(n, counts[n]) ELSE KeywordRename(n)

Counted(counts, n) == [counts EXCEPT ![n] = @ + 1]

\* Faulty: the class is not added to renamed.
VisitForgotten(c) ==
  /\ c \in Class \ renamed
  /\ stack' = <<c>> \o stack
  /\ nameCounts' = [nameCounts EXCEPT ![c] =
                      [n \in Name |-> IF n \in Defined THEN 1 ELSE 0]]
  /\ uniqueName' = [uniqueName EXCEPT ![c] = RenameConflict(classNameCounts, Simple[c])]
  /\ classNameCounts' = Counted(classNameCounts, Simple[c])
  /\ UNCHANGED <<program, renamed, inherited, done, nums, methodName, fieldName>>

\* _ClassRenamer.visit, up to its superclass.
Visit(c) ==
  /\ c \in Class \ renamed
  /\ renamed' = renamed \cup {c}
  /\ stack' = <<c>> \o stack
  /\ nameCounts' = [nameCounts EXCEPT ![c] =
                      [n \in Name |-> IF n \in Defined THEN 1 ELSE 0]]
  /\ uniqueName' = [uniqueName EXCEPT ![c] = RenameConflict(classNameCounts, Simple[c])]
  /\ classNameCounts' = Counted(classNameCounts, Simple[c])
  /\ UNCHANGED <<program, inherited, done, nums, methodName, fieldName>>

\* The loop over the classes.
VisitNext(c) == stack = <<>> /\ Visit(c)

\* superClass.accept(this).
VisitSuper ==
  /\ stack # <<>>
  /\ Visit(program.super[Head(stack)])

\* Faulty: the counts of the superclass are not added.
InheritNothing ==
  /\ stack # <<>>
  /\ Head(stack) \notin inherited
  /\ program.super[Head(stack)] \in renamed \cup {Root}
  /\ inherited' = inherited \cup {Head(stack)}
  /\ UNCHANGED <<program, renamed, stack, done, classNameCounts, nameCounts, nums,
                 uniqueName, methodName, fieldName>>

\* Faulty: the superclass need not have been visited.
InheritEarly ==
  /\ stack # <<>>
  /\ LET c == Head(stack)
         s == program.super[c]
     IN  /\ c \notin inherited
         /\ inherited' = inherited \cup {c}
         /\ nameCounts' =
              IF s = Root THEN nameCounts
              ELSE [nameCounts EXCEPT ![c] =
                      [n \in Name |-> IF nameCounts[s][n] > 0 THEN nameCounts[s][n]
                                      ELSE @[n]]]
  /\ UNCHANGED <<program, renamed, stack, done, classNameCounts, nums, uniqueName,
                 methodName, fieldName>>

\* The superclass is done: its counts, if there are any, are those to start with.
Inherit ==
  /\ stack # <<>>
  /\ LET c == Head(stack)
         s == program.super[c]
     IN  /\ c \notin inherited
         /\ s \in renamed \cup {Root}
         /\ inherited' = inherited \cup {c}
         /\ nameCounts' =
              IF s = Root THEN nameCounts
              ELSE [nameCounts EXCEPT ![c] =
                      [n \in Name |-> IF nameCounts[s][n] > 0 THEN nameCounts[s][n]
                                      ELSE @[n]]]
  /\ UNCHANGED <<program, renamed, stack, done, classNameCounts, nums, uniqueName,
                 methodName, fieldName>>

\* Faulty: the numbers of an imported superclass are not used.
SuperNumOfSummary(c, m) ==
  IF program.super[c] \in {Root} \cup program.imported THEN None
  ELSE nums[program.super[c]][m]

\* The number of method m in the superclass of c.
SuperNum(c, m) ==
  IF program.super[c] = Root THEN None ELSE nums[program.super[c]][m]

\* Class c is being visited, and its k-th member is next.
AtMember(c, k) ==
  /\ stack # <<>> /\ c = Head(stack) /\ c \in inherited
  /\ k = done[c] + 1 /\ k <= Members(c)
  /\ done' = [done EXCEPT ![c] = k]
  /\ UNCHANGED <<program, renamed, stack, inherited, classNameCounts, uniqueName>>

\* _MethodRenamer.visit.
RenameMethod(c, k) ==
  /\ AtMember(c, k)
  /\ k <= Len(program.methods[c])
  /\ LET m == program.methods[c][k]
         n == m.name
         superNum == SuperNum(c, m)
     IN  \/ /\ superNum # None
            /\ methodName' = [methodName EXCEPT ![c][m] =
                                IF superNum = 0 THEN KeywordRename(n)
                                ELSE WithNumber(n, superNum)]
            /\ nums' = [nums EXCEPT ![c][m] = superNum]
            /\ UNCHANGED nameCounts
         \/ /\ superNum = None
            /\ methodName' = [methodName EXCEPT ![c][m] =
                                RenameConflict(nameCounts[c], n)]
            /\ nameCounts' = [nameCounts EXCEPT ![c] = Counted(@, n)]
            /\ nums' = [nums EXCEPT ![c][m] = nameCounts[c][n]]
  /\ UNCHANGED fieldName

\* _FieldRenamer.visit.
RenameField(c, k) ==
  /\ AtMember(c, k)
  /\ k > Len(program.methods[c])
  /\ LET n == program.fields[c][k - Len(program.methods[c])]
     IN  /\ fieldName' = [fieldName EXCEPT ![c][n] = RenameConflict(nameCounts[c], n)]
         /\ nameCounts' = [nameCounts EXCEPT ![c] = Counted(@, n)]
  /\ UNCHANGED <<nums, methodName>>

\* Faulty: the fields are forgotten.
ReturnBeforeFields ==
  /\ stack # <<>>
  /\ Head(stack) \in inherited
  /\ done[Head(stack)] = Len(program.methods[Head(stack)])
  /\ stack' = Tail(stack)
  /\ UNCHANGED <<program, renamed, inherited, done, classNameCounts, nameCounts, nums,
                 uniqueName, methodName, fieldName>>

\* The visit of a class returns.
Return ==
  /\ stack # <<>>
  /\ Head(stack) \in inherited
  /\ done[Head(stack)] = Members(Head(stack))
  /\ stack' = Tail(stack)
  /\ UNCHANGED <<program, renamed, inherited, done, classNameCounts, nameCounts, nums,
                 uniqueName, methodName, fieldName>>

Next ==
  \/ \E c \in Class : VisitNext(c)
  \/ VisitSuper
  \/ Inherit
  \/ \E c \in Class : \E k \in 1..Members(c) : RenameMethod(c, k) \/ RenameField(c, k)
  \/ Return

Spec == Init /\ [][Next]_vars /\ WF_vars(Next)

\* The name that the C accessor of field n of class c looks up (fieldName in
\* _CFieldGenerator.visit); the accessor of a method looks up its name in Java.
LookedUp(c, n) == fieldName[c][n]

-----------------------------------------------------------------------------
(* What the names should be. *)

\* A set of classes that has with a class its superclass, if that is renamed.
Closed(S) ==
  \A d \in S : program.super[d] \in Class \ program.imported => program.super[d] \in S

\* The superclasses of class c that are renamed, and c: the smallest such set.
Lineage(c) == {d \in Class : \A S \in SUBSET Class : c \in S /\ Closed(S) => d \in S}

JavaName(c, k) ==
  IF k <= Len(program.methods[c]) THEN program.methods[c][k].name
  ELSE program.fields[c][k - Len(program.methods[c])]

DartNameOf(c, k) ==
  IF k <= Len(program.methods[c]) THEN methodName[c][program.methods[c][k]]
  ELSE fieldName[c][program.fields[c][k - Len(program.methods[c])]]

\* Member k of class c overrides a method that its superclass declares.
Overrides(c, k) ==
  /\ k <= Len(program.methods[c])
  /\ program.super[c] # Root
  /\ \E j \in DOMAIN program.methods[program.super[c]] :
       program.methods[program.super[c]][j] = program.methods[c][k]

\* The members that have a name so far: of class c, and of all its superclasses.
NamedMembers(c) == {<<c, k>> : k \in 1..done[c]}

Visible(c) == UNION {NamedMembers(d) : d \in Lineage(c)}

SameMethod(x, y) ==
  /\ x[2] <= Len(program.methods[x[1]]) /\ y[2] <= Len(program.methods[y[1]])
  /\ program.methods[x[1]][x[2]] = program.methods[y[1]][y[2]]

\* Name o is n with one more digit at its end, so that n with a number may be o.
Extends(o, n) == o.nums # <<>> /\ o = WithNumber(n, o.nums[Len(o.nums)])

Ambiguous(n, o) == Extends(n, o) \/ Extends(o, n)

BelowImported(c) == \E d \in Lineage(c) : program.super[d] \in program.imported

\* Members x and y have different names, unless one overrides the other.
Apart(x, y) ==
  (DartNameOf(x[1], x[2]) = DartNameOf(y[1], y[2])) =>
     \/ x = y
     \/ SameMethod(x, y)
     \/ Ambiguous(JavaName(x[1], x[2]), JavaName(y[1], y[2]))

\* Two members that a Dart class has, its own or inherited, have the same name
\* only if one overrides the other: overloads, and a field next to a method, are
\* told apart, and none takes the place of a keyword or of a member of JObject.
\* Names like foo and foo1 are left out, and so are the subclasses of an imported
\* class, whose counts are not in its symbol file (renamer.dart:115, :175).
MembersDistinct ==
  \A c \in inherited :
    ~BelowImported(c) =>
      /\ \A x \in Visible(c) : DartNameOf(x[1], x[2]) \notin Keyword \cup Defined
      /\ \A x, y \in Visible(c) : Apart(x, y)

Numbered(n, k) == IF k = 0 THEN KeywordRename(n) ELSE WithNumber(n, k)

\* A method has in Dart the name of the method it overrides, whichever of the two
\* classes comes first in the summary and also if the superclass is imported, or
\* calls through the superclass would not reach it (renamer.dart:206).
OverrideKeepsName ==
  \A c \in Class : \A k \in 1..done[c] :
    Overrides(c, k) =>
      LET s == program.super[c]
          m == program.methods[c][k]
      IN  methodName[c][m] = IF s \in program.imported
                               THEN Numbered(m.name, ImportedNums(program, s)[m])
                               ELSE methodName[s][m]

\* The members of the superclasses of c, and those before the k-th of c, that are
\* not overrides and have the Java name n.
Earlier(c, k, n) ==
  {x \in UNION {{<<d, j>> : j \in 1..Members(d)} : d \in Lineage(c)} :
     /\ x[1] = c => x[2] < k
     /\ ~Overrides(x[1], x[2])
     /\ JavaName(x[1], x[2]) = n}

\* The number of a member is the number of declarations before it in its class and
\* in its superclasses: it does not depend on the order of the classes in the
\* summary, so that generating again gives the same names.
NumbersByDeclaration ==
  \A c \in Class : \A k \in 1..done[c] :
    ~Overrides(c, k) =>
      LET n == JavaName(c, k)
      IN  DartNameOf(c, k) =
            Numbered(n, Cardinality(Earlier(c, k, n)) + (IF n \in Defined THEN 1 ELSE 0))

\* In a single file the names of the classes are different (renamer.dart:166-167),
\* names like Foo and Foo1 excepted.
ClassesDistinct ==
  \A c, d \in Class :
    (c # d /\ uniqueName[c] # None /\ uniqueName[c] = uniqueName[d]) =>
      Ambiguous(Simple[c], Simple[d])

\* The generated C accessor of a field looks up the Java field that the comment of
\* the accessor says it is from (dart_generator.dart:1058-1059): GetFieldID is
\* called with the name the field has in Java.
FieldsFound ==
  \A c \in Class : \A n \in Name : fieldName[c][n] # None => LookedUp(c, n) = n

\* Every class and member of the summary gets its name, as the generators need:
\* finalName is a late field, and reading it before it is set is an error.
AllNamed ==
  <>[](\A c \in Class \ program.imported :
         /\ uniqueName[c] # None
         /\ \A k \in 1..Members(c) : DartNameOf(c, k) # None)

-----------------------------------------------------------------------------
(* The inductive invariant of the proofs. *)

OnStack(c) == \E i \in DOMAIN stack : stack[i] = c

\* The visit of class c has returned.
Finished(c) == c \in inherited /\ done[c] = Members(c) /\ ~OnStack(c)

\* Each class on the stack waits for the one above it, its superclass.
StackInv ==
  /\ \A i \in DOMAIN stack : stack[i] \in renamed \ program.imported
  /\ \A i, j \in DOMAIN stack :
       i < j => /\ program.rank[stack[i]] < program.rank[stack[j]]
                /\ stack[j] \notin inherited

\* Members are named after the superclass is finished.
VisitInv ==
  /\ program.imported \subseteq renamed
  /\ \A c \in Class :
       /\ c \in inherited => c \notin program.imported
       /\ c \notin inherited => done[c] = 0
       /\ done[c] <= Members(c)
       /\ c \in renamed \ program.imported => Finished(c) \/ OnStack(c)
       /\ c \in inherited /\ program.super[c] \in Class \ program.imported =>
            Finished(program.super[c])

\* A class that is visited has a name, with a number that was counted.
ClassNameInv ==
  \A c \in Class :
    /\ c \in renamed \ program.imported => uniqueName[c] # None
    /\ uniqueName[c] # None =>
         \E k \in 0..classNameCounts[Simple[c]] - 1 : uniqueName[c] = Numbered(Simple[c], k)

\* A class has numbers for the methods that have a name.
MethodInv ==
  \A c \in Class :
    IF c \in program.imported THEN nums[c] = ImportedNums(program, c)
    ELSE \A m \in Method :
           /\ (nums[c][m] # None) <=>
                \E k \in 1..done[c] :
                  k <= Len(program.methods[c]) /\ program.methods[c][k] = m
           /\ nums[c][m] # None => methodName[c][m] = Numbered(m.name, nums[c][m])

\* The number of member x is below the count of class c, and that of JObject is 0.
NumberTaken(c, x) ==
  LET n == JavaName(x[1], x[2])
  IN  \E k \in 0..nameCounts[c][n] - 1 :
        (n \in Defined => k > 0) /\ DartNameOf(x[1], x[2]) = Numbered(n, k)

CountInv ==
  /\ \A c \in renamed \ program.imported : \A n \in Defined : nameCounts[c][n] > 0
  /\ \A c \in inherited :
       ~BelowImported(c) => \A x \in Visible(c) : NumberTaken(c, x)

\* The members of class c and its superclasses that were counted for the name n.
CountedMembers(c, n) ==
  {x \in Visible(c) : ~Overrides(x[1], x[2]) /\ JavaName(x[1], x[2]) = n}

\* The counts of a class that has those of its superclass count its declarations.
NumberInv ==
  /\ \A c \in Class \ inherited : \A n \in Name :
       nameCounts[c][n] =
         IF c \in renamed \ program.imported /\ n \in Defined THEN 1 ELSE 0
  /\ \A c \in inherited : \A n \in Name :
       /\ IsFiniteSet(CountedMembers(c, n))
       /\ nameCounts[c][n] =
            Cardinality(CountedMembers(c, n)) + (IF n \in Defined THEN 1 ELSE 0)

IInv ==
  /\ TypeOK /\ StackInv /\ VisitInv
  /\ ClassNameInv /\ ClassesDistinct
  /\ MethodInv /\ OverrideKeepsName
  /\ CountInv /\ MembersDistinct
  /\ NumberInv /\ NumbersByDeclaration

=============================================================================
