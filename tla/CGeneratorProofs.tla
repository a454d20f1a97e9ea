---------------------------- MODULE CGeneratorProofs ----------------------------
(***************************************************************************)
(* Proofs about CGenerator, for any programs and with what the Renamer is  *)
(* proved to do.                                                           *)
(***************************************************************************)
EXTENDS CGenerator, RenamerProofs

-----------------------------------------------------------------------------
(* The Renamer runs first. *)

(* The generator renames as the Renamer does. *)
LEMMA RenamerStep == [GNext]_gvars => [Next]_vars
<1>1. ASSUME Write PROVE UNCHANGED vars
  <2>1. WritePrelude \/ CopyHeader => UNCHANGED vars
    BY DEF WritePrelude, CopyHeader
  <2>2. ASSUME NEW c, NEW k, WriteMethod(c, k) \/ WriteField(c, k) PROVE UNCHANGED vars
    BY <2>2 DEF WriteMethod, WriteField, AtNext
  <2>3. ASSUME NEW c, WriteClass(c) PROVE UNCHANGED vars
    BY <2>3 DEF WriteClass, AtNext
  <2>4. QED
    BY <1>1, <2>1, <2>2, <2>3 DEF Write
<1>2. Rename => Next
  BY DEF Rename
<1>3. UNCHANGED gvars => UNCHANGED vars
  BY DEF gvars
<1>4. QED
  BY <1>1, <1>2, <1>3 DEF GNext

(* The Renamer has nothing left to do when the generator starts. *)
LEMMA RenamerStops == RenamerDone => ~Next
<1> SUFFICES ASSUME RenamerDone, Next PROVE FALSE
  OBVIOUS
<1>1. stack = <<>> /\ Class \subseteq renamed
  BY DEF RenamerDone
<1>2. ASSUME NEW c \in Class, VisitNext(c) PROVE FALSE
  BY <1>1, <1>2 DEF VisitNext, Visit
<1>3. ~VisitSuper /\ ~Inherit /\ ~Return
  BY <1>1 DEF VisitSuper, Inherit, Return
<1>4. ASSUME NEW c \in Class, NEW k \in 1..Members(c), RenameMethod(c, k) \/ RenameField(c, k)
      PROVE  FALSE
  BY <1>1, <1>4 DEF RenameMethod, RenameField, AtMember
<1>5. QED
  BY <1>2, <1>3, <1>4 DEF Next

(* No step changes the program. *)
LEMMA ProgramSame == [Next]_vars => program' = program
<1>1. ASSUME NEW c, VisitNext(c) PROVE program' = program
  BY <1>1 DEF VisitNext, Visit
<1>2. VisitSuper \/ Inherit \/ Return => program' = program
  BY DEF VisitSuper, Visit, Inherit, Return
<1>3. ASSUME NEW c, NEW k, RenameMethod(c, k) \/ RenameField(c, k) PROVE program' = program
  BY <1>3 DEF RenameMethod, RenameField, AtMember
<1>4. UNCHANGED vars => program' = program
  BY DEF vars
<1>5. QED
  BY <1>1, <1>2, <1>3, <1>4 DEF Next

(* What the Renamer leaves for the classes of the summary. *)
LEMMA AllRenamed ==
  ASSUME IInv, RenamerDone, NEW c \in Class \ program.imported
  PROVE  c \in inherited /\ done[c] = Members(c) /\ uniqueName[c] # None
<1>1. stack = <<>> /\ c \in renamed
  BY DEF RenamerDone
<1>2. ~OnStack(c)
  BY <1>1 DEF OnStack
<1>3. Finished(c)
  BY <1>1, <1>2 DEF IInv, VisitInv
<1>4. QED
  BY <1>1, <1>3 DEF IInv, ClassNameInv, Finished

-----------------------------------------------------------------------------
(* Names in C. *)

(* The places of the classes in the summary. *)
LEMMA OrderFacts ==
  ASSUME TypeOK
  PROVE  /\ Len(program.order) \in Nat /\ DOMAIN program.order = 1..Len(program.order)
         /\ \A i \in DOMAIN program.order : program.order[i] \in Class \ program.imported
         /\ \A i, j \in DOMAIN program.order : program.order[i] = program.order[j] => i = j
<1>1. /\ program.order \in Seq(Class)
      /\ {program.order[i] : i \in DOMAIN program.order} = Class \ program.imported
      /\ \A i, j \in DOMAIN program.order : program.order[i] = program.order[j] => i = j
  BY GeneratorAssumption DEF TypeOK
<1>2. Len(program.order) \in Nat /\ DOMAIN program.order = 1..Len(program.order)
  BY <1>1
<1>3. QED
  BY <1>1, <1>2

(* There are finitely many members. *)
LEMMA MembersFinite ==
  ASSUME TypeOK, NEW n
  PROVE  IsFiniteSet(MembersNamed(program, n))
<1>1. PICK T, f : /\ T = {{<<c, k>> : k \in DOMAIN NamesOf(program, c)} : c \in Class}
                  /\ f = [c \in Class |-> {<<c, k>> : k \in DOMAIN NamesOf(program, c)}]
  OBVIOUS
<1>2. IsFiniteSet(T)
  <2>1. f \in Surjection(Class, T)
    BY <1>1 DEF Surjection
  <2>2. IsFiniteSet(Class)
    BY GeneratorAssumption
  <2>3. QED
    BY <2>1, <2>2, FS_Surjection, Zenon
<1>3. ASSUME NEW c \in Class
      PROVE  IsFiniteSet({<<c, k>> : k \in DOMAIN NamesOf(program, c)})
  <2>1. PICK a \in Nat, b \in Nat :
          a = Len(program.methods[c]) /\ b = Len(program.fields[c])
    BY MemberFacts
  <2>2. DOMAIN NamesOf(program, c) = 1..a + b
    BY <2>1 DEF NamesOf
  <2>3. PICK m \in Nat : m = a + b
    OBVIOUS
  <2>4. IsFiniteSet(1..m)
    BY FS_Interval
  <2>5. PICK S : S = {<<c, k>> : k \in 1..m}
    OBVIOUS
  <2>6. PICK g : g = [k \in 1..m |-> <<c, k>>]
    OBVIOUS
  <2>7. IsFiniteSet(S)
    <3>1. g \in Surjection(1..m, S)
      BY <2>5, <2>6 DEF Surjection
    <3>2. QED
      BY <2>4, <3>1, FS_Surjection, Zenon
  <2>8. QED
    BY <2>2, <2>3, <2>5, <2>7
<1>4. IsFiniteSet(UNION T)
  <2>1. \A S \in T : IsFiniteSet(S)
    BY <1>1, <1>3
  <2>2. QED
    BY <1>2, <2>1, FS_UNION
<1>5. MembersNamed(program, n) \in SUBSET UNION T
  BY <1>1 DEF MembersNamed
<1>6. QED
  BY <1>4, <1>5, FS_Subset

(* The names of members, and of the program. *)
LEMMA NamesOfMembers ==
  ASSUME TypeOK, NEW c \in Class
  PROVE  /\ DOMAIN NamesOf(program, c) = 1..Members(c)
         /\ \A k \in 1..Members(c) : NamesOf(program, c)[k] = JavaName(c, k)
BY DEF NamesOf, Members, JavaName

(* The members that are counted for a name are members of that name. *)
LEMMA CountedNamed ==
  ASSUME VisitsInv, NEW c \in inherited, NEW n
  PROVE  CountedMembers(c, n) \subseteq MembersNamed(program, n)
<1> SUFFICES ASSUME NEW x \in CountedMembers(c, n) PROVE x \in MembersNamed(program, n)
  OBVIOUS
<1>1. x \in Visible(c) /\ JavaName(x[1], x[2]) = n
  BY DEF CountedMembers
<1>2. PICK d, k : d = x[1] /\ k = x[2]
  OBVIOUS
<1>3. d \in Class /\ x = <<d, k>> /\ k \in 1..Members(d)
  BY <1>1, <1>2, VisibleMembers
<1>4. DOMAIN NamesOf(program, d) = 1..Members(d) /\ NamesOf(program, d)[k] = n
  BY <1>1, <1>2, <1>3, NamesOfMembers DEF VisitsInv
<1>5. x \in UNION {{<<e, j>> : j \in DOMAIN NamesOf(program, e)} : e \in Class}
  <2>1. x \in {<<d, j>> : j \in DOMAIN NamesOf(program, d)}
    BY <1>3, <1>4
  <2>2. QED
    BY <1>3, <2>1
<1>6. NamesOf(program, x[1])[x[2]] = n
  BY <1>2, <1>4
<1>7. QED
  BY <1>5, <1>6 DEF MembersNamed

(* A class whose superclasses are all in the summary. *)
LEMMA PlainLineage ==
  ASSUME VisitsInv, PlainNames(program), NEW c \in Class \ program.imported
  PROVE  ~BelowImported(c)
<1>1. Closed(Class \ program.imported)
  BY DEF Closed
<1>2. Lineage(c) \subseteq Class \ program.imported
  BY <1>1, LineageLeast
<1>3. QED
  BY <1>2 DEF BelowImported, PlainNames

(* A name with a number is another name only if the digit at the end of that one *)
(* is the number. *)
LEMMA ExtendedNumber ==
  ASSUME NEW n \in Name, NEW o \in Name, NEW i \in Nat, NEW j \in Nat,
         Extends(o, n), Numbered(n, i) = Numbered(o, j)
  PROVE  o.nums[Len(o.nums)] = i
<1>1. PICK d : d = o.nums[Len(o.nums)]
  OBVIOUS
<1>2. o = WithNumber(n, d) /\ o.nums # <<>> /\ o.nums \in Seq(Nat) /\ n.nums \in Seq(Nat)
  BY <1>1, RenamerAssumption DEF Extends, DartName
<1>3. d \in Nat
  BY <1>1, <1>2
<1>4. \A a \in Nat : WithNumber(o, a) # n /\ WithNumber(o, a).nums = Append(o.nums, a)
  <2>1. \A a \in Nat : WithNumber(o, a).nums = Append(o.nums, a)
    BY RenamerAssumption DEF WithNumber, DartName
  <2>2. o.nums = Append(n.nums, d)
    BY <1>2, RenamerAssumption DEF WithNumber, DartName
  <2>3. Len(o.nums) = Len(n.nums) + 1 /\ Len(n.nums) \in Nat
    BY <1>2, <1>3, <2>2, AppendProperties
  <2>4. \A a \in Nat : Len(Append(o.nums, a)) = Len(o.nums) + 1
    BY <1>2, AppendProperties
  <2>5. QED
    BY <2>1, <2>3, <2>4
<1>5. /\ (i = 0 /\ Numbered(n, i) = n) \/ Numbered(n, i) = WithNumber(n, i)
      /\ (j = 0 /\ Numbered(o, j) = o) \/ Numbered(o, j) = WithNumber(o, j)
  BY DEF Numbered, KeywordRename
<1>6. n # o
  BY <1>2, <1>3, NumberedName
<1>7. Numbered(n, i) = WithNumber(n, i) /\ Numbered(o, j) = o
  BY <1>4, <1>5, <1>6, WithNumberApart
<1>8. QED
  BY <1>1, <1>2, <1>3, <1>7, WithNumberApart

(* Two members of a class have different names. *)
LEMMA MemberNamesApart ==
  ASSUME IInv, RenamerDone, PlainNames(program), NEW c \in Class \ program.imported,
         NEW j \in 1..Members(c), NEW k \in 1..Members(c),
         DartNameOf(c, j) = DartNameOf(c, k)
  PROVE  j = k
<1>1. /\ VisitsInv /\ CountInv /\ MembersDistinct /\ NumberInv /\ TypeOK
      /\ c \in inherited /\ done[c] = Members(c) /\ ~BelowImported(c)
  BY AllRenamed, PlainLineage DEF IInv, VisitsInv
<1>2. <<c, j>> \in Visible(c) /\ <<c, k>> \in Visible(c)
  BY <1>1, LineageSelf DEF Visible, NamedMembers
<1>3. PICK n \in Name, o \in Name : n = JavaName(c, j) /\ o = JavaName(c, k)
  BY <1>1, MemberFacts
<1>4. /\ j = k \/ SameMethod(<<c, j>>, <<c, k>>) \/ Ambiguous(n, o)
      /\ NumberTaken(c, <<c, j>>) /\ NumberTaken(c, <<c, k>>)
  BY <1>1, <1>2, <1>3 DEF MembersDistinct, Apart, CountInv
<1>5. SameMethod(<<c, j>>, <<c, k>>) => j = k
  <2>1. /\ \A h, i \in DOMAIN program.methods[c] :
             program.methods[c][h] = program.methods[c][i] => h = i
        /\ program.methods[c] \in Seq(Method)
    BY <1>1, ProgramFacts
  <2>2. PICK a \in Nat, b \in Nat : a = Len(program.methods[c]) /\ Members(c) = a + b
    BY <1>1, MemberFacts
  <2>3. DOMAIN program.methods[c] = 1..a
    BY <2>1, <2>2
  <2>4. /\ j <= a => j \in 1..a
        /\ k <= a => k \in 1..a
    BY <2>2, Positions
  <2>5. QED
    BY <2>1, <2>2, <2>3, <2>4 DEF SameMethod
<1>6. ASSUME NEW h \in 1..Members(c), NEW i \in 1..Members(c),
             NEW p \in Name, p = JavaName(c, h), NEW q \in Name, q = JavaName(c, i),
             NumberTaken(c, <<c, h>>), NumberTaken(c, <<c, i>>),
             DartNameOf(c, h) = DartNameOf(c, i), Extends(q, p)
      PROVE  FALSE
  <2>1. nameCounts[c][p] \in Nat /\ nameCounts[c][q] \in Nat
    BY <1>1 DEF TypeOK, Counts
  <2>2. PICK x \in 0..nameCounts[c][p] - 1 : DartNameOf(c, h) = Numbered(p, x)
    BY <1>6 DEF NumberTaken
  <2>3. PICK y \in 0..nameCounts[c][q] - 1 : DartNameOf(c, i) = Numbered(q, y)
    BY <1>6 DEF NumberTaken
  <2>4. x \in Nat /\ y \in Nat /\ x < nameCounts[c][p]
    BY <2>1
  <2>5. q.nums[Len(q.nums)] = x
    BY <1>6, <2>2, <2>3, <2>4, ExtendedNumber
  <2>6. PICK S, T : S = CountedMembers(c, p) /\ T = MembersNamed(program, p)
    OBVIOUS
  <2>7. /\ IsFiniteSet(T) /\ S \subseteq T
        /\ nameCounts[c][p] = Cardinality(S) + (IF p \in Defined THEN 1 ELSE 0)
    BY <1>1, <2>6, MembersFinite, CountedNamed DEF NumberInv
  <2>8. /\ Cardinality(S) \in Nat /\ Cardinality(T) \in Nat
        /\ Cardinality(S) <= Cardinality(T)
    BY <2>7, FS_Subset, FS_CardinalityType
  <2>9. x <= Cardinality(T)
    <3>1. PICK a \in Nat, b \in Nat : a = Cardinality(S) /\ b = Cardinality(T)
      BY <2>8
    <3>2. QED
      BY <2>4, <2>7, <2>8, <3>1
  <2>10. q.nums[Len(q.nums)] > Cardinality(T)
    <3>1. /\ h \in DOMAIN NamesOf(program, c) /\ i \in DOMAIN NamesOf(program, c)
          /\ NamesOf(program, c)[h] = p /\ NamesOf(program, c)[i] = q
      BY <1>1, <1>6, NamesOfMembers
    <3>2. QED
      BY <1>6, <2>6, <3>1 DEF PlainNames
  <2>11. PICK b \in Nat : b = Cardinality(T)
    BY <2>8
  <2>12. x <= b /\ x > b
    BY <2>5, <2>9, <2>10, <2>11
  <2>13. QED
    BY <2>4, <2>12
<1>7. ~Ambiguous(n, o)
  BY <1>3, <1>4, <1>6 DEF Ambiguous
<1>8. QED
  BY <1>4, <1>5, <1>7

-----------------------------------------------------------------------------
(* What is written. *)

(* The entries of a member, and the names that they define. *)
LEMMA EntryFacts ==
  ASSUME NEW c, NEW k
  PROVE  /\ \E T : Entries(c, k) \in Seq(T)
         /\ \A j \in DOMAIN Entries(c, k) :
              IF k = 0
                THEN /\ Entries(c, k)[j].kind = "class"
                     /\ Symbol(Entries(c, k)[j]) = <<"_c_", uniqueName[c]>>
                ELSE /\ Entries(c, k)[j].kind = "function"
                     /\ \E p : Symbol(Entries(c, k)[j]) = <<p, uniqueName[c], DartNameOf(c, k)>>
         /\ \A i, j \in DOMAIN Entries(c, k) :
              Symbol(Entries(c, k)[i]) = Symbol(Entries(c, k)[j]) => i = j
<1>1. CASE k = 0
  <2>1. PICK e : e = ClassVariable(c)
    OBVIOUS
  <2>2. Entries(c, k) = <<e>>
    BY <1>1, <2>1 DEF Entries
  <2>3. e.kind = "class" /\ Symbol(e) = <<"_c_", uniqueName[c]>>
    BY <2>1 DEF ClassVariable, Symbol
  <2>4. Entries(c, k) \in Seq({e}) /\ DOMAIN Entries(c, k) = {1} /\ Entries(c, k)[1] = e
    BY <2>2
  <2>5. QED
    BY <1>1, <2>3, <2>4
<1>2. CASE k # 0 /\ k <= Len(program.methods[c])
  <2>1. PICK e : e = MethodFunction(c, program.methods[c][k], program.decl[c][k])
    OBVIOUS
  <2>2. Entries(c, k) = <<e>>
    BY <1>2, <2>1 DEF Entries
  <2>3. e.kind = "function" /\ Symbol(e) = <<"", uniqueName[c], DartNameOf(c, k)>>
    BY <1>2, <2>1 DEF MethodFunction, Symbol, DartNameOf
  <2>4. Entries(c, k) \in Seq({e}) /\ DOMAIN Entries(c, k) = {1} /\ Entries(c, k)[1] = e
    BY <2>2
  <2>5. QED
    BY <1>2, <2>3, <2>4
<1>3. CASE k # 0 /\ ~(k <= Len(program.methods[c]))
  <2>1. PICK n, d : n = program.fields[c][k - Len(program.methods[c])] /\ d = program.decl[c][k]
    OBVIOUS
  <2>2. PICK e, f : e = Accessor(c, n, d, "Get") /\ f = Accessor(c, n, d, "Set")
    OBVIOUS
  <2>3. Entries(c, k) = <<>> \/ Entries(c, k) = <<e>> \/ Entries(c, k) = <<e, f>>
    BY <1>3, <2>1, <2>2 DEF Entries, Accessors
  <2>4. /\ e.kind = "function" /\ Symbol(e) = <<"Get", uniqueName[c], DartNameOf(c, k)>>
        /\ f.kind = "function" /\ Symbol(f) = <<"Set", uniqueName[c], DartNameOf(c, k)>>
    BY <1>3, <2>1, <2>2 DEF Accessor, Symbol, DartNameOf
  <2>5. Symbol(e) # Symbol(f)
    BY <2>4
  <2>6. CASE Entries(c, k) = <<>>
    BY <1>3, <2>6
  <2>7. CASE Entries(c, k) = <<e>>
    <3>1. Entries(c, k) \in Seq({e}) /\ DOMAIN Entries(c, k) = {1} /\ Entries(c, k)[1] = e
      BY <2>7
    <3>2. QED
      BY <1>3, <2>4, <3>1
  <2>8. CASE Entries(c, k) = <<e, f>>
    <3>1. /\ Entries(c, k) \in Seq({e, f}) /\ DOMAIN Entries(c, k) = {1, 2}
          /\ Entries(c, k)[1] = e /\ Entries(c, k)[2] = f
      BY <2>8
    <3>2. QED
      BY <1>3, <2>4, <2>5, <3>1
  <2>9. QED
    BY <2>3, <2>6, <2>7, <2>8
<1>4. QED
  BY <1>1, <1>2, <1>3

(* A function needs of dartjni.h what HeaderComplete has. *)
LEMMA EntryNeeds ==
  ASSUME NEW c, NEW k, NEW j \in DOMAIN Entries(c, k), Entries(c, k)[j].kind = "function"
  PROVE  Needs(Entries(c, k)[j]) \subseteq
           {"JniResult", "load_env", "load_class_global_ref", "check_exception",
            "to_global_ref_result", "load_method", "load_static_method",
            "load_field", "load_static_field"}
<1>1. ASSUME NEW e, e.load \in {"load_method", "load_static_method",
                                "load_field", "load_static_field"}
      PROVE  Needs(e) \subseteq
               {"JniResult", "load_env", "load_class_global_ref", "check_exception",
                "to_global_ref_result", "load_method", "load_static_method",
                "load_field", "load_static_field"}
  BY <1>1 DEF Needs
<1>2. PICK e : e = Entries(c, k)[j]
  OBVIOUS
<1>3. CASE k = 0
  BY <1>3, EntryFacts
<1>4. CASE k # 0 /\ k <= Len(program.methods[c])
  <2>1. e = MethodFunction(c, program.methods[c][k], program.decl[c][k])
    BY <1>2, <1>4 DEF Entries
  <2>2. e.load \in {"load_method", "load_static_method"}
    BY <2>1 DEF MethodFunction
  <2>3. QED
    BY <1>1, <1>2, <2>2
<1>5. CASE k # 0 /\ ~(k <= Len(program.methods[c]))
  <2>1. PICK n, d : n = program.fields[c][k - Len(program.methods[c])] /\ d = program.decl[c][k]
    OBVIOUS
  <2>2. e = Accessor(c, n, d, "Get") \/ e = Accessor(c, n, d, "Set")
    BY <1>2, <1>5, <2>1 DEF Entries, Accessors
  <2>3. e.load \in {"load_field", "load_static_field"}
    BY <2>2 DEF Accessor
  <2>4. QED
    BY <1>1, <1>2, <2>3
<1>6. QED
  BY <1>3, <1>4, <1>5

(* A file that is extended. *)
LEMMA Extended ==
  ASSUME NEW s, NEW t, \E S : s \in Seq(S), \E T : t \in Seq(T)
  PROVE  /\ \E U : s \o t \in Seq(U)
         /\ Len(s) \in Nat /\ DOMAIN s = 1..Len(s)
         /\ Len(t) \in Nat /\ DOMAIN t = 1..Len(t)
         /\ DOMAIN (s \o t) = 1..Len(s) + Len(t)
         /\ \A i \in 1..Len(s) : (s \o t)[i] = s[i]
         /\ \A i \in 1..Len(t) : (s \o t)[Len(s) + i] = t[i]
<1>1. PICK S, T : s \in Seq(S) /\ t \in Seq(T)
  OBVIOUS
<1>2. PICK U : U = S \cup T
  OBVIOUS
<1>3. s \in Seq(U) /\ t \in Seq(U)
  BY <1>1, <1>2, SeqMonotonic
<1>4. s \o t \in Seq(U) /\ Len(s \o t) = Len(s) + Len(t)
  BY <1>3, ConcatProperties
<1>5. Len(s) \in Nat /\ DOMAIN s = 1..Len(s) /\ Len(t) \in Nat /\ DOMAIN t = 1..Len(t)
  BY <1>3
<1>6. DOMAIN (s \o t) = 1..Len(s) + Len(t)
  BY <1>4
<1>7. \A i \in 1..Len(s) + Len(t) : (s \o t)[i] = IF i <= Len(s) THEN s[i] ELSE t[i - Len(s)]
  BY <1>3, ConcatProperties
<1>8. PICK a \in Nat, b \in Nat : a = Len(s) /\ b = Len(t)
  BY <1>5
<1>9. \A i \in 1..a : i \in 1..a + b /\ i <= a
  OBVIOUS
<1>10. \A i \in 1..b : a + i \in 1..a + b /\ ~(a + i <= a) /\ a + i - a = i
  OBVIOUS
<1>11. QED
  BY <1>4, <1>5, <1>6, <1>7, <1>8, <1>9, <1>10

(* What would be written depends on the names only. *)
LEMMA EntriesSame ==
  ASSUME UNCHANGED vars
  PROVE  /\ \A c, k : Entries(c, k)' = Entries(c, k)
         /\ \A e, i, k : From(e, i, k)' <=> From(e, i, k)
         /\ \A c : Members(c)' = Members(c)
         /\ RenamerDone' <=> RenamerDone
<1>1. /\ program' = program /\ uniqueName' = uniqueName /\ methodName' = methodName
      /\ fieldName' = fieldName /\ stack' = stack /\ renamed' = renamed
  BY DEF vars
<1>2. ASSUME NEW c, NEW k PROVE Entries(c, k)' = Entries(c, k)
  <2>1. ClassVariable(c)' = ClassVariable(c)
    BY <1>1 DEF ClassVariable
  <2>2. ASSUME NEW m, NEW d PROVE MethodFunction(c, m, d)' = MethodFunction(c, m, d)
    BY <1>1 DEF MethodFunction
  <2>3. ASSUME NEW n, NEW d, NEW v PROVE Accessor(c, n, d, v)' = Accessor(c, n, d, v)
    BY <1>1 DEF Accessor, LookedUp
  <2>4. ASSUME NEW n, NEW d PROVE Accessors(c, n, d)' = Accessors(c, n, d)
    BY <2>3 DEF Accessors
  <2>5. QED
    BY <1>1, <2>1, <2>2, <2>4 DEF Entries
<1>3. ASSUME NEW e, NEW i, NEW k PROVE From(e, i, k)' <=> From(e, i, k)
  BY <1>1, <1>2 DEF From
<1>4. ASSUME NEW c PROVE Members(c)' = Members(c)
  BY <1>1 DEF Members
<1>5. QED
  BY <1>1, <1>2, <1>3, <1>4 DEF RenamerDone

(* Entries of different members define different names. *)
LEMMA SymbolsApart ==
  ASSUME IInv, RenamerDone, PlainNames(program),
         NEW i \in DOMAIN program.order, NEW k \in 0..Members(program.order[i]),
         NEW j \in DOMAIN program.order, NEW l \in 0..Members(program.order[j]),
         NEW e, From(e, i, k), NEW f, From(f, j, l), Symbol(e) = Symbol(f)
  PROVE  i = j /\ k = l
<1>1. PICK c, d : c = program.order[i] /\ d = program.order[j]
  OBVIOUS
<1>2. /\ c \in Class \ program.imported /\ d \in Class \ program.imported
      /\ (c = d => i = j)
  BY <1>1, OrderFacts DEF IInv
<1>3. /\ IF k = 0 THEN Symbol(e) = <<"_c_", uniqueName[c]>>
         ELSE \E p : Symbol(e) = <<p, uniqueName[c], DartNameOf(c, k)>>
      /\ IF l = 0 THEN Symbol(f) = <<"_c_", uniqueName[d]>>
         ELSE \E p : Symbol(f) = <<p, uniqueName[d], DartNameOf(d, l)>>
  BY <1>1, EntryFacts DEF From
<1>4. uniqueName[c] = uniqueName[d] /\ (k = 0 <=> l = 0)
      /\ (k # 0 => DartNameOf(c, k) = DartNameOf(d, l))
  <2>1. CASE k = 0 /\ l = 0
    BY <1>3, <2>1
  <2>2. CASE k = 0 /\ l # 0
    BY <1>3, <2>2
  <2>3. CASE k # 0 /\ l = 0
    BY <1>3, <2>3
  <2>4. CASE k # 0 /\ l # 0
    BY <1>3, <2>4
  <2>5. QED
    BY <2>1, <2>2, <2>3, <2>4
<1>5. c = d
  <2>1. uniqueName[c] # None
    BY <1>2, AllRenamed
  <2>2. c # d => Ambiguous(Simple[c], Simple[d])
    BY <1>2, <1>4, <2>1 DEF IInv, ClassesDistinct
  <2>3. QED
    BY <1>2, <2>2 DEF PlainNames
<1>6. CASE k = 0
  BY <1>2, <1>4, <1>5, <1>6
<1>7. CASE k # 0
  <2>1. k \in 1..Members(c) /\ l \in 1..Members(c)
    <3>1. PICK m \in Nat : m = Members(c)
      BY <1>2, MemberFacts DEF IInv
    <3>2. k \in 0..m /\ l \in 0..m /\ l # 0
      BY <1>1, <1>4, <1>5, <1>7, <3>1
    <3>3. QED
      BY <1>7, <3>1, <3>2
  <2>2. k = l
    BY <1>2, <1>4, <1>5, <1>7, <2>1, MemberNamesApart
  <2>3. QED
    BY <1>2, <1>5, <2>2
<1>8. QED
  BY <1>6, <1>7

-----------------------------------------------------------------------------
(* The file. *)

\* The file is a sequence.
IsFile == \E S : file \in Seq(S)

\* The inductive invariant of the steps that write.
WriteInv == IsFile /\ CursorInv /\ FileInv

(* The steps that write append what there is for the next member. *)
LEMMA WriteSteps ==
  ASSUME TypeOK, IsFile, NEW c \in Class, NEW k \in 0..Members(c),
         (k = 0 /\ WriteClass(c)) \/ (k # 0 /\ (WriteMethod(c, k) \/ WriteField(c, k)))
  PROVE  AtNext(c, k) /\ file' = file \o Entries(c, k)
<1>1. PICK S : file \in Seq(S)
  BY DEF IsFile
<1>2. ASSUME NEW e PROVE Append(file, e) = file \o <<e>>
  <2>1. PICK U : U = S \cup {e}
    OBVIOUS
  <2>2. file \in Seq(U) /\ e \in U
    BY <1>1, <2>1, SeqMonotonic
  <2>3. QED
    BY <2>2, AppendIsConcat
<1>3. CASE k = 0 /\ WriteClass(c)
  BY <1>2, <1>3 DEF WriteClass, Entries
<1>4. CASE k # 0 /\ WriteMethod(c, k)
  BY <1>2, <1>4 DEF WriteMethod, Entries
<1>5. CASE k # 0 /\ WriteField(c, k)
  <2>1. PICK a \in Nat, m \in Nat : a = Len(program.methods[c]) /\ m = Members(c)
    BY MemberFacts
  <2>2. ~(k <= a)
    BY <1>5, <2>1 DEF WriteField
  <2>3. QED
    BY <1>5, <2>1, <2>2 DEF WriteField, Entries
<1>6. QED
  BY <1>3, <1>4, <1>5

(* The places before the next one. *)
LEMMA NextWritten ==
  ASSUME TypeOK, CursorInv, NEW c, NEW k, AtNext(c, k)
  PROVE  /\ classAt \in DOMAIN program.order /\ memberAt \in 0..Members(program.order[classAt])
         /\ c = program.order[classAt] /\ k = memberAt /\ ~IsWritten(classAt, memberAt)
         /\ \A i \in DOMAIN program.order : \A j \in 0..Members(program.order[i]) :
              IsWritten(i, j)' <=> IsWritten(i, j) \/ (i = classAt /\ j = memberAt)
         /\ classAt' \in 1..Len(program.order) + 1 /\ memberAt' \in Nat
         /\ IF classAt' > Len(program.order) THEN memberAt' = 0
            ELSE memberAt' <= Members(program.order[classAt'])
<1>1. PICK n \in Nat, a \in Nat, b \in Nat :
        n = Len(program.order) /\ a = classAt /\ b = memberAt /\ a >= 1 /\ a <= n
  <2>1. Len(program.order) \in Nat
    BY OrderFacts
  <2>2. classAt \in 1..Len(program.order) + 1 /\ memberAt \in Nat
        /\ ~(classAt > Len(program.order))
    BY DEF CursorInv, AtNext, Written
  <2>3. QED
    BY <2>1, <2>2
<1>2. DOMAIN program.order = 1..n /\ \A i \in 1..n : program.order[i] \in Class
  BY <1>1, OrderFacts
<1>3. \A i \in 1..n : Members(program.order[i]) \in Nat
  BY <1>2, MemberFacts
<1>4. PICK m \in Nat : m = Members(program.order[a])
  BY <1>1, <1>3
<1>5. /\ c = program.order[a] /\ k = b /\ b <= m
      /\ IF b = m THEN classAt' = a + 1 /\ memberAt' = 0
         ELSE classAt' = a /\ memberAt' = b + 1
  BY <1>1, <1>4 DEF CursorInv, AtNext, Written
<1>6. ~IsWritten(classAt, memberAt)
  BY <1>1 DEF IsWritten
<1>7. ASSUME NEW i \in 1..n, NEW j \in 0..Members(program.order[i])
      PROVE  IsWritten(i, j)' <=> IsWritten(i, j) \/ (i = a /\ j = b)
  <2>1. j \in Nat
    BY <1>3
  <2>2. i = a => j <= m
    BY <1>3, <1>4
  <2>3. PICK x \in Nat, y \in Nat :
          x = classAt' /\ y = memberAt' /\
          IF b = m THEN x = a + 1 /\ y = 0 ELSE x = a /\ y = b + 1
    BY <1>5
  <2>4. (i < x \/ (i = x /\ j < y)) <=>
          (i < a \/ (i = a /\ j < b)) \/ (i = a /\ j = b)
    BY <1>5, <2>1, <2>2, <2>3
  <2>5. QED
    BY <1>1, <2>3, <2>4 DEF IsWritten
<1>8. /\ classAt' \in 1..n + 1 /\ memberAt' \in Nat
      /\ IF classAt' > n THEN memberAt' = 0 ELSE memberAt' <= Members(program.order[classAt'])
  <2>1. CASE b = m
    <3>1. a + 1 \in 1..n + 1
      BY <1>1
    <3>2. a + 1 > n \/ 0 <= Members(program.order[a + 1])
      <4>1. a + 1 > n \/ a + 1 \in 1..n
        BY <1>1
      <4>2. QED
        BY <1>3, <4>1
    <3>3. QED
      BY <1>5, <2>1, <3>1, <3>2
  <2>2. CASE b # m
    BY <1>1, <1>4, <1>5, <2>2
  <2>3. QED
    BY <2>1, <2>2
<1>9. QED
  BY <1>1, <1>2, <1>4, <1>5, <1>6, <1>7, <1>8

(* What the entries of the next member do to the file. *)
LEMMA WriteNext ==
  ASSUME TypeOK, WriteInv, NEW c, NEW k, AtNext(c, k), file' = file \o Entries(c, k)
  PROVE  /\ WriteInv'
         /\ Len(file) \in Nat /\ DOMAIN file = 1..Len(file) /\ file # <<>>
         /\ \A n \in DOMAIN file : n \in DOMAIN file' /\ file'[n] = file[n]
         /\ \A n \in DOMAIN file' : n \notin DOMAIN file =>
              /\ n - Len(file) \in DOMAIN Entries(c, k)
              /\ file'[n] = Entries(c, k)[n - Len(file)]
<1>1. PICK es : es = Entries(c, k)
  OBVIOUS
<1>2. /\ \E S : file' \in Seq(S)
      /\ Len(file) \in Nat /\ DOMAIN file = 1..Len(file)
      /\ Len(es) \in Nat /\ DOMAIN es = 1..Len(es)
      /\ DOMAIN file' = 1..Len(file) + Len(es)
      /\ \A i \in 1..Len(file) : file'[i] = file[i]
      /\ \A i \in 1..Len(es) : file'[Len(file) + i] = es[i]
  <2>1. /\ \E S : file \in Seq(S)
        /\ \E T : es \in Seq(T)
    BY <1>1, EntryFacts DEF WriteInv, IsFile
  <2>2. PICK s : s = file
    OBVIOUS
  <2>3. file' = s \o es
    BY <1>1, <2>2
  <2>4. QED
    BY <2>1, <2>2, <2>3, Extended
<1>3. PICK a \in Nat, b \in Nat : a = Len(file) /\ b = Len(es)
  BY <1>2
<1>4. file # <<>> /\ 1 \in 1..a
  <2>1. file # <<>>
    BY DEF AtNext
  <2>2. a # 0
    <3>1. PICK S : file \in Seq(S)
      BY DEF WriteInv, IsFile
    <3>2. Len(file) \in Nat \ {0}
      BY <2>1, <3>1, EmptySeq
    <3>3. QED
      BY <1>3, <3>2
  <2>3. QED
    BY <2>1, <2>2
<1>5. /\ DOMAIN file = 1..a /\ DOMAIN file' = 1..a + b /\ DOMAIN es = 1..b
      /\ \A n \in 1..a : n \in 1..a + b /\ file'[n] = file[n]
      /\ \A j \in 1..b : a + j \in 1..a + b /\ file'[a + j] = es[j]
      /\ \A n \in 1..a + b : n \notin 1..a => n - a \in 1..b /\ a + (n - a) = n
  BY <1>2, <1>3
<1>6. \A n \in 1..a + b : n \notin 1..a => n - a \in 1..b /\ file'[n] = es[n - a]
  BY <1>5
<1>7. UNCHANGED vars /\ header' = header /\ program' = program
  BY DEF AtNext, vars
<1>8. PICK i0, k0 : i0 = classAt /\ k0 = memberAt
  OBVIOUS
<1>9. /\ i0 \in DOMAIN program.order /\ k0 \in 0..Members(program.order[i0])
      /\ c = program.order[i0] /\ k = k0
      /\ \A i \in DOMAIN program.order : \A j \in 0..Members(program.order[i]) :
           IsWritten(i, j)' <=> IsWritten(i, j) \/ (i = i0 /\ j = k0)
      /\ classAt' \in 1..Len(program.order) + 1 /\ memberAt' \in Nat
      /\ IF classAt' > Len(program.order) THEN memberAt' = 0
         ELSE memberAt' <= Members(program.order[classAt'])
  BY <1>8, NextWritten DEF WriteInv
<1>10. CursorInv'
  <2>1. IF classAt' > Len(program.order) THEN memberAt' = 0
        ELSE memberAt' <= Members(program.order[classAt])'
    BY <1>7, <1>9 DEF Members
  <2>2. file' # <<>>
    <3>1. 1 \in DOMAIN file'
      BY <1>4, <1>5
    <3>2. QED
      BY <3>1
  <2>3. header' = <<>>
    BY <1>7 DEF WriteInv, CursorInv, AtNext
  <2>4. QED
    BY <1>7, <1>9, <2>1, <2>2, <2>3 DEF CursorInv, Written
<1>11. FileInv'
  <2>1. RenamerDone' /\ file'[1] = Prelude
    BY <1>4, <1>5, <1>7, EntriesSame DEF WriteInv, FileInv
  <2>2. ASSUME NEW n \in 1..a + b, n > 1
        PROVE  \E i \in DOMAIN program.order : \E j \in 0..Members(program.order[i]) :
                 IsWritten(i, j)' /\ From(file'[n], i, j)
    <3>1. CASE n \in 1..a
      <4>1. PICK i, j :
              /\ i \in DOMAIN program.order /\ j \in 0..Members(program.order[i])
              /\ IsWritten(i, j) /\ From(file[n], i, j)
        BY <1>5, <2>2, <3>1 DEF WriteInv, FileInv
      <4>2. IsWritten(i, j)' /\ From(file'[n], i, j)
        BY <1>5, <1>9, <3>1, <4>1
      <4>3. QED
        BY <4>1, <4>2
    <3>2. CASE n \notin 1..a
      <4>1. From(file'[n], i0, k0)
        BY <1>1, <1>5, <1>6, <1>9, <3>2 DEF From
      <4>2. IsWritten(i0, k0)'
        BY <1>9
      <4>3. QED
        BY <1>9, <4>1, <4>2
    <3>3. QED
      BY <3>1, <3>2
  <2>3. ASSUME NEW i \in DOMAIN program.order, NEW j \in 0..Members(program.order[i]),
               IsWritten(i, j)'
        PROVE  Has(i, j)'
    <3>1. PICK us : us = Entries(program.order[i], j)
      OBVIOUS
    <3>2. Entries(program.order[i], j)' = us
      BY <1>7, <3>1, EntriesSame
    <3>3. ASSUME NEW x \in DOMAIN us PROVE \E n \in DOMAIN file' : file'[n] = us[x]
      <4>1. CASE IsWritten(i, j)
        <5>1. PICK n \in DOMAIN file : file[n] = us[x]
          BY <2>3, <3>1, <3>3, <4>1 DEF WriteInv, FileInv, Has
        <5>2. n \in DOMAIN file' /\ file'[n] = file[n]
          BY <1>5, <5>1
        <5>3. QED
          BY <5>1, <5>2
      <4>2. CASE i = i0 /\ j = k0
        <5>1. us = es
          BY <1>1, <1>9, <3>1, <4>2
        <5>2. x \in 1..b
          BY <1>5, <3>3, <5>1
        <5>3. a + x \in DOMAIN file' /\ file'[a + x] = us[x]
          BY <1>5, <5>1, <5>2
        <5>4. QED
          BY <5>3
      <4>3. QED
        BY <1>9, <2>3, <4>1, <4>2
    <3>4. QED
      BY <3>2, <3>3 DEF Has
  <2>4. \A n \in DOMAIN file' : n > 1 =>
          \E i \in DOMAIN program'.order : \E j \in 0..Members(program.order[i])' :
            IsWritten(i, j)' /\ From(file[n], i, j)'
    <3>1. ASSUME NEW n \in DOMAIN file', n > 1
          PROVE  \E i \in DOMAIN program'.order : \E j \in 0..Members(program.order[i])' :
                   IsWritten(i, j)' /\ From(file[n], i, j)'
      <4>1. PICK i, j :
              /\ i \in DOMAIN program.order /\ j \in 0..Members(program.order[i])
              /\ IsWritten(i, j)' /\ From(file'[n], i, j)
        BY <1>5, <2>2, <3>1
      <4>2. From(file[n], i, j)'
        <5>1. Entries(program.order[i], j)' = Entries(program.order[i], j)
          BY <1>7, EntriesSame
        <5>2. QED
          BY <4>1, <5>1 DEF From
      <4>3. Members(program.order[i])' = Members(program.order[i])
        BY <1>7 DEF Members
      <4>4. QED
        BY <1>7, <4>1, <4>2, <4>3
    <3>2. QED
      BY <3>1
  <2>5. \A i \in DOMAIN program'.order : \A j \in 0..Members(program.order[i])' :
          IsWritten(i, j)' => Has(i, j)'
    <3>1. \A i \in DOMAIN program.order :
            Members(program.order[i])' = Members(program.order[i])
      BY <1>7 DEF Members
    <3>2. QED
      BY <1>7, <2>3, <3>1
  <2>6. QED
    BY <2>1, <2>4, <2>5 DEF FileInv
<1>12. QED
  BY <1>1, <1>2, <1>3, <1>4, <1>5, <1>6, <1>10, <1>11 DEF WriteInv, IsFile

(* The steps of the generator that do not append entries of members. *)
LEMMA FileSame ==
  FileInv /\ UNCHANGED <<vars, classAt, memberAt, file>> => FileInv'
<1> SUFFICES ASSUME FileInv, UNCHANGED <<vars, classAt, memberAt, file>> PROVE FileInv'
  OBVIOUS
<1>1. program' = program /\ classAt' = classAt /\ memberAt' = memberAt /\ file' = file
  BY DEF vars
<1>2. RenamerDone' <=> RenamerDone
  BY EntriesSame
<1>3. ASSUME NEW i, NEW k
      PROVE  /\ IsWritten(i, k)' <=> IsWritten(i, k)
             /\ Has(i, k)' <=> Has(i, k)
             /\ \A n : From(file[n], i, k)' <=> From(file[n], i, k)
  <2>1. Entries(program.order[i], k)' = Entries(program.order[i], k)
    BY <1>1, EntriesSame
  <2>2. QED
    BY <1>1, <2>1 DEF IsWritten, Has, From
<1>4. \A i : Members(program.order[i])' = Members(program.order[i])
  BY <1>1 DEF Members
<1>5. file # <<>> => RenamerDone' /\ file'[1] = Prelude
  BY <1>1, <1>2 DEF FileInv
<1>6. \A n \in DOMAIN file' : n > 1 =>
        \E i \in DOMAIN program'.order : \E k \in 0..Members(program.order[i])' :
          IsWritten(i, k)' /\ From(file[n], i, k)'
  BY <1>1, <1>3, <1>4 DEF FileInv
<1>7. \A i \in DOMAIN program'.order : \A k \in 0..Members(program.order[i])' :
        IsWritten(i, k)' => Has(i, k)'
  BY <1>1, <1>3, <1>4 DEF FileInv
<1>8. QED
  BY <1>1, <1>5, <1>6, <1>7 DEF FileInv

LEMMA WriteInit == GInit /\ TypeOK => WriteInv
<1> SUFFICES ASSUME GInit, TypeOK PROVE WriteInv
  OBVIOUS
<1>1. file = <<>> /\ header = <<>> /\ classAt = 1 /\ memberAt = 0
  BY DEF GInit
<1>2. PICK n \in Nat : n = Len(program.order) /\ DOMAIN program.order = 1..n
  BY OrderFacts
<1>3. \A i \in 1..n : program.order[i] \in Class /\ Members(program.order[i]) \in Nat
  BY <1>2, OrderFacts, MemberFacts
<1>4. IsFile
  <2>1. <<>> \in Seq({})
    OBVIOUS
  <2>2. QED
    BY <1>1, <2>1 DEF IsFile
<1>5. CursorInv
  <2>1. 1 \in 1..n + 1
    BY <1>2
  <2>2. 1 > n \/ 0 <= Members(program.order[1])
    <3>1. 1 > n \/ 1 \in 1..n
      BY <1>2
    <3>2. QED
      BY <1>3, <3>1
  <2>3. QED
    BY <1>1, <1>2, <2>1, <2>2 DEF CursorInv, Written
<1>6. FileInv
  <2>1. DOMAIN file = {}
    BY <1>1
  <2>2. \A i \in 1..n : \A k \in 0..Members(program.order[i]) : ~IsWritten(i, k)
    BY <1>1, <1>2, <1>3 DEF IsWritten
  <2>3. QED
    BY <1>1, <1>2, <2>1, <2>2 DEF FileInv
<1>7. QED
  BY <1>4, <1>5, <1>6 DEF WriteInv

(* While the Renamer works, nothing is written. *)
LEMMA RenameFirst ==
  ASSUME WriteInv, Rename
  PROVE  file = <<>> /\ classAt = 1 /\ memberAt = 0 /\ header = <<>>
<1>1. Next
  BY DEF Rename
<1>2. file = <<>>
  BY <1>1, RenamerStops DEF WriteInv, FileInv
<1>3. QED
  BY <1>2 DEF WriteInv, CursorInv

LEMMA RenameWrites ==
  ASSUME TypeOK, WriteInv, Rename
  PROVE  WriteInv'
<1>1. /\ file' = <<>> /\ header' = <<>> /\ classAt' = 1 /\ memberAt' = 0
      /\ program' = program
  <2>1. Next
    BY DEF Rename
  <2>2. UNCHANGED <<classAt, memberAt, file, header>>
    BY DEF Rename
  <2>3. QED
    BY <2>1, <2>2, RenameFirst, ProgramSame
<1>2. PICK n \in Nat : n = Len(program.order) /\ DOMAIN program.order = 1..n
  BY OrderFacts
<1>3. \A i \in 1..n : program.order[i] \in Class /\ Members(program.order[i]) \in Nat
  BY <1>2, OrderFacts, MemberFacts
<1>4. \A i \in 1..n : Members(program.order[i])' \in Nat
  <2>1. \A i \in 1..n : Members(program.order[i])' = Members(program.order[i])
    BY <1>1 DEF Members
  <2>2. QED
    BY <1>3, <2>1
<1>5. IsFile'
  <2>1. <<>> \in Seq({})
    OBVIOUS
  <2>2. QED
    BY <1>1, <2>1 DEF IsFile
<1>6. CursorInv'
  <2>1. 1 \in 1..n + 1
    BY <1>2
  <2>2. 1 > n \/ 0 <= Members(program.order[1])'
    <3>1. 1 > n \/ 1 \in 1..n
      BY <1>2
    <3>2. QED
      BY <1>4, <3>1
  <2>3. 1 > n \/ 0 <= Members(program.order[classAt])'
    BY <1>1, <2>2 DEF Members
  <2>4. QED
    BY <1>1, <1>2, <2>1, <2>3 DEF CursorInv, Written
<1>7. FileInv'
  <2>1. DOMAIN file' = {}
    BY <1>1
  <2>2. \A i \in 1..n : \A k \in 0..Members(program.order[i])' : ~IsWritten(i, k)'
    BY <1>1, <1>2, <1>4 DEF IsWritten
  <2>3. \A i \in DOMAIN program'.order :
          \A k \in 0..Members(program.order[i])' : ~IsWritten(i, k)'
    BY <1>1, <1>2, <2>2
  <2>4. QED
    BY <1>1, <2>1, <2>3 DEF FileInv
<1>8. QED
  BY <1>5, <1>6, <1>7 DEF WriteInv

LEMMA PreludeWrites ==
  ASSUME TypeOK, WriteInv, WritePrelude
  PROVE  WriteInv'
<1>1. /\ RenamerDone /\ file' = <<Prelude>> /\ UNCHANGED vars
      /\ classAt' = 1 /\ memberAt' = 0 /\ header' = <<>> /\ program' = program
      /\ classAt = 1 /\ memberAt = 0
  BY DEF WritePrelude, WriteInv, CursorInv, vars
<1>2. PICK e : e = Prelude
  OBVIOUS
<1>3. file' = <<e>> /\ file' \in Seq({e}) /\ DOMAIN file' = {1} /\ file'[1] = e
  BY <1>1, <1>2
<1>4. PICK n \in Nat : n = Len(program.order) /\ DOMAIN program.order = 1..n
  BY OrderFacts
<1>5. \A i \in 1..n : Members(program.order[i])' \in Nat
  <2>1. \A i \in 1..n : program.order[i] \in Class /\ Members(program.order[i]) \in Nat
    BY <1>4, OrderFacts, MemberFacts
  <2>2. \A i \in 1..n : Members(program.order[i])' = Members(program.order[i])
    BY <1>1 DEF Members
  <2>3. QED
    BY <2>1, <2>2
<1>6. CursorInv'
  <2>1. 1 \in 1..n + 1
    BY <1>4
  <2>2. 1 > n \/ 0 <= Members(program.order[1])'
    <3>1. 1 > n \/ 1 \in 1..n
      BY <1>4
    <3>2. QED
      BY <1>5, <3>1
  <2>3. 1 > n \/ 0 <= Members(program.order[classAt])'
    BY <1>1, <2>2 DEF Members
  <2>4. QED
    BY <1>1, <1>3, <1>4, <2>1, <2>3 DEF CursorInv, Written
<1>7. FileInv'
  <2>1. RenamerDone' /\ file'[1] = Prelude
    BY <1>1, <1>2, <1>3, EntriesSame
  <2>2. \A i \in 1..n : \A k \in 0..Members(program.order[i])' : ~IsWritten(i, k)'
    BY <1>1, <1>4, <1>5 DEF IsWritten
  <2>3. \A i \in DOMAIN program'.order :
          \A k \in 0..Members(program.order[i])' : ~IsWritten(i, k)'
    BY <1>1, <1>4, <2>2
  <2>4. \A m \in DOMAIN file' : ~(m > 1)
    BY <1>3
  <2>5. QED
    BY <2>1, <2>3, <2>4 DEF FileInv
<1>8. QED
  BY <1>3, <1>6, <1>7 DEF WriteInv, IsFile

LEMMA HeaderWrites ==
  ASSUME WriteInv, CopyHeader \/ UNCHANGED gvars
  PROVE  WriteInv'
<1>1. /\ UNCHANGED <<vars, classAt, memberAt, file>> /\ program' = program
      /\ (file # <<>> /\ Written /\ header' = PackageHeader) \/ header' = header
  BY DEF CopyHeader, gvars, vars
<1>2. CursorInv'
  <2>1. Members(program.order[classAt])' = Members(program.order[classAt])
    BY <1>1 DEF Members
  <2>2. Written' <=> Written
    BY <1>1 DEF Written
  <2>3. CursorInv
    BY DEF WriteInv
  <2>4. QED
    BY <1>1, <2>1, <2>2, <2>3 DEF CursorInv
<1>3. FileInv'
  BY <1>1, FileSame DEF WriteInv
<1>4. QED
  BY <1>1, <1>2, <1>3 DEF WriteInv, IsFile

(* One step that writes, for each kind. *)
LEMMA GeneratorSteps ==
  ASSUME TypeOK, IsFile, [GNext]_gvars
  PROVE  \/ Rename \/ WritePrelude \/ CopyHeader \/ UNCHANGED gvars
         \/ \E c \in Class : \E k \in 0..Members(c) :
              AtNext(c, k) /\ file' = file \o Entries(c, k)
<1>1. ASSUME NEW c \in Class, WriteClass(c)
      PROVE  \E k \in 0..Members(c) : AtNext(c, k) /\ file' = file \o Entries(c, k)
  <2>1. PICK m \in Nat : m = Members(c)
    BY MemberFacts
  <2>2. 0 \in 0..Members(c)
    BY <2>1
  <2>3. QED
    BY <1>1, <2>2, WriteSteps
<1>2. ASSUME NEW c \in Class, NEW k \in 1..Members(c), WriteMethod(c, k) \/ WriteField(c, k)
      PROVE  \E j \in 0..Members(c) : AtNext(c, j) /\ file' = file \o Entries(c, j)
  <2>1. PICK m \in Nat : m = Members(c)
    BY MemberFacts
  <2>2. k \in 0..Members(c) /\ k # 0
    BY <2>1
  <2>3. QED
    BY <1>2, <2>2, WriteSteps
<1>3. QED
  BY <1>1, <1>2 DEF GNext, Write

LEMMA WriteInvNext == TypeOK /\ WriteInv /\ [GNext]_gvars => WriteInv'
BY GeneratorSteps, RenameWrites, PreludeWrites, HeaderWrites, WriteNext DEF WriteInv

(* The names that entries define stay different. *)
LEMMA SymbolsNext ==
  ASSUME IInv, WriteInv, PlainNames(program), SymbolsDistinct, [GNext]_gvars
  PROVE  SymbolsDistinct'
<1>1. CASE Rename
  <2>1. file' = <<>>
    BY <1>1, RenameFirst DEF Rename
  <2>2. QED
    BY <2>1 DEF SymbolsDistinct
<1>2. CASE WritePrelude
  <2>1. PICK e : file' = <<e>>
    BY <1>2 DEF WritePrelude
  <2>2. DOMAIN file' = {1}
    BY <2>1
  <2>3. QED
    BY <2>2 DEF SymbolsDistinct
<1>3. CASE CopyHeader \/ UNCHANGED gvars
  <2>1. file' = file
    BY <1>3 DEF CopyHeader, gvars
  <2>2. QED
    BY <2>1 DEF SymbolsDistinct
<1>4. ASSUME NEW c \in Class, NEW k \in 0..Members(c),
             AtNext(c, k), file' = file \o Entries(c, k)
      PROVE  SymbolsDistinct'
  <2>1. /\ Len(file) \in Nat /\ DOMAIN file = 1..Len(file) /\ file # <<>>
        /\ \A n \in DOMAIN file : n \in DOMAIN file' /\ file'[n] = file[n]
        /\ \A n \in DOMAIN file' : n \notin DOMAIN file =>
             /\ n - Len(file) \in DOMAIN Entries(c, k)
             /\ file'[n] = Entries(c, k)[n - Len(file)]
    BY <1>4, WriteNext DEF IInv
  <2>2. /\ classAt \in DOMAIN program.order /\ memberAt \in 0..Members(program.order[classAt])
        /\ c = program.order[classAt] /\ k = memberAt /\ ~IsWritten(classAt, memberAt)
    BY <1>4, NextWritten DEF IInv, WriteInv
  <2>3. /\ RenamerDone /\ file[1] = Prelude
        /\ \A n \in DOMAIN file : n > 1 =>
             \E i \in DOMAIN program.order : \E j \in 0..Members(program.order[i]) :
               IsWritten(i, j) /\ From(file[n], i, j)
    BY <2>1 DEF WriteInv, FileInv
  <2>4. ASSUME NEW x \in DOMAIN Entries(c, k), NEW n \in DOMAIN file,
               Symbol(file[n]) = Symbol(Entries(c, k)[x])
        PROVE  FALSE
    <3>1. PICK e, f : e = file[n] /\ f = Entries(c, k)[x]
      OBVIOUS
    <3>2. From(f, classAt, memberAt)
      BY <2>2, <2>4, <3>1 DEF From
    <3>3. CASE n = 1
      <4>1. e.kind = "prelude" /\ Symbol(e) = <<"prelude">>
        BY <2>3, <3>1, <3>3 DEF Prelude, Symbol
      <4>2. PICK p, a, b : Symbol(f) = <<p, a>> \/ Symbol(f) = <<p, a, b>>
        BY <3>1, <2>4, EntryFacts
      <4>3. Symbol(f) # <<"prelude">>
        BY <4>2
      <4>4. QED
        BY <2>4, <3>1, <4>1, <4>3
    <3>4. CASE n > 1
      <4>1. PICK i, j :
              /\ i \in DOMAIN program.order /\ j \in 0..Members(program.order[i])
              /\ IsWritten(i, j) /\ From(e, i, j)
        BY <2>3, <3>1, <3>4
      <4>2. i = classAt /\ j = memberAt
        BY <2>2, <2>3, <2>4, <3>1, <3>2, <4>1, SymbolsApart
      <4>3. QED
        BY <2>2, <4>1, <4>2
    <3>5. n = 1 \/ n > 1
      BY <2>1
    <3>6. QED
      BY <3>3, <3>4, <3>5
  <2>5. ASSUME NEW m \in DOMAIN file', NEW n \in DOMAIN file',
               Symbol(file'[m]) = Symbol(file'[n])
        PROVE  m = n
    <3>1. CASE m \in DOMAIN file /\ n \in DOMAIN file
      BY <2>1, <2>5, <3>1 DEF SymbolsDistinct
    <3>2. CASE m \in DOMAIN file /\ n \notin DOMAIN file
      BY <2>1, <2>4, <2>5, <3>2
    <3>3. CASE m \notin DOMAIN file /\ n \in DOMAIN file
      BY <2>1, <2>4, <2>5, <3>3
    <3>4. CASE m \notin DOMAIN file /\ n \notin DOMAIN file
      <4>1. PICK x, y : x = m - Len(file) /\ y = n - Len(file)
        OBVIOUS
      <4>2. x \in DOMAIN Entries(c, k) /\ y \in DOMAIN Entries(c, k) /\ x = y
        BY <2>1, <2>5, <3>4, <4>1, EntryFacts
      <4>3. m \in Int /\ n \in Int
        BY <1>4, WriteNext DEF IInv, WriteInv, IsFile
      <4>4. QED
        BY <2>1, <4>1, <4>2, <4>3
    <3>5. QED
      BY <3>1, <3>2, <3>3, <3>4
  <2>6. QED
    BY <2>5 DEF SymbolsDistinct, Symbol
<1>5. QED
  BY <1>1, <1>2, <1>3, <1>4, GeneratorSteps DEF IInv, WriteInv

(* Different symbols are as many as there are entries. *)
LEMMA SymbolsCounted ==
  ASSUME IsFile, SymbolsDistinct
  PROVE  Cardinality({Symbol(file[i]) : i \in DOMAIN file}) = Len(file)
<1>1. PICK n \in Nat : n = Len(file) /\ DOMAIN file = 1..n
  BY DEF IsFile
<1>2. PICK T, f : /\ T = {Symbol(file[i]) : i \in DOMAIN file}
                  /\ f = [i \in 1..n |-> Symbol(file[i])]
  OBVIOUS
<1>3. f \in Surjection(1..n, T)
  BY <1>1, <1>2 DEF Surjection
<1>4. f \in Injection(1..n, T)
  <2>1. \A i, j \in 1..n : f[i] = f[j] => i = j
    BY <1>1, <1>2 DEF SymbolsDistinct
  <2>2. f \in [1..n -> T]
    BY <1>1, <1>2
  <2>3. QED
    BY <2>1, <2>2 DEF Injection, IsInjective
<1>5. IsFiniteSet(1..n) /\ Cardinality(1..n) = n
  <2>1. 1 \in Int /\ n \in Int /\ (1 > n \/ n - 1 + 1 = n) /\ (1 > n => n = 0)
    BY <1>1
  <2>2. /\ IsFiniteSet(1..n)
        /\ Cardinality(1..n) = IF 1 > n THEN 0 ELSE n - 1 + 1
    BY <2>1, FS_Interval
  <2>3. QED
    BY <2>1, <2>2
<1>6. Cardinality(T) = Cardinality(1..n)
  BY <1>3, <1>4, <1>5, FS_Surjection, Zenon
<1>7. QED
  BY <1>1, <1>2, <1>5, <1>6

(* The functions of the file have in the header what they use. *)
LEMMA HeaderServes ==
  ASSUME TypeOK, WriteInv, HeaderComplete, header # <<>>, NEW platform \in Platform
  PROVE  LET h == On(header, platform)
         IN  /\ \A i \in DOMAIN h : h[i].uses \subseteq {h[j].name : j \in 1..i - 1}
             /\ \A i \in DOMAIN file : file[i].kind = "function" =>
                  Needs(file[i]) \subseteq {h[j].name : j \in DOMAIN h}
             /\ {h[j].name : j \in {k \in DOMAIN h : h[k].extern}}
                  \subseteq Prelude.defines
<1>1. header = PackageHeader
  BY DEF WriteInv, CursorInv
<1>2. PICK h : h = On(PackageHeader, platform)
  OBVIOUS
<1>3. PICK S : S = {h[j].name : j \in DOMAIN h}
  OBVIOUS
<1>4. /\ \A i \in DOMAIN h : h[i].uses \subseteq {h[j].name : j \in 1..i - 1}
      /\ {"JniResult", "load_env", "load_class_global_ref", "check_exception",
          "to_global_ref_result", "load_method", "load_static_method",
          "load_field", "load_static_field"} \subseteq S
      /\ {h[j].name : j \in {k \in DOMAIN h : h[k].extern}} \subseteq Prelude.defines
  <2>1. ASSUME NEW q \in Platform, NEW g, g = On(PackageHeader, q)
        PROVE  /\ \A i \in DOMAIN g : g[i].uses \subseteq {g[j].name : j \in 1..i - 1}
               /\ {"JniResult", "load_env", "load_class_global_ref", "check_exception",
                   "to_global_ref_result", "load_method", "load_static_method",
                   "load_field", "load_static_field"} \subseteq {g[j].name : j \in DOMAIN g}
               /\ {g[j].name : j \in {k \in DOMAIN g : g[k].extern}} \subseteq Prelude.defines
    BY <2>1 DEF HeaderComplete
  <2>2. QED
    BY <1>2, <1>3, <2>1
<1>5. ASSUME NEW n \in DOMAIN file, file[n].kind = "function"
      PROVE  Needs(file[n]) \subseteq S
  <2>1. n # 1
    <3>1. file[1] = Prelude
      <4>1. file # <<>>
        BY DEF WriteInv, CursorInv
      <4>2. QED
        BY <4>1 DEF WriteInv, FileInv
    <3>2. QED
      BY <1>5, <3>1 DEF Prelude
  <2>2. n > 1
    BY <2>1 DEF WriteInv, IsFile
  <2>3. PICK i, k :
          /\ i \in DOMAIN program.order /\ k \in 0..Members(program.order[i])
          /\ From(file[n], i, k)
    BY <2>2 DEF WriteInv, FileInv
  <2>4. PICK j \in DOMAIN Entries(program.order[i], k) : file[n] = Entries(program.order[i], k)[j]
    BY <2>3 DEF From
  <2>5. Needs(file[n]) \subseteq
          {"JniResult", "load_env", "load_class_global_ref", "check_exception",
           "to_global_ref_result", "load_method", "load_static_method",
           "load_field", "load_static_field"}
    BY <1>5, <2>4, EntryNeeds
  <2>6. QED
    BY <1>4, <2>5
<1>6. QED
  BY <1>1, <1>2, <1>3, <1>4, <1>5

-----------------------------------------------------------------------------
(* The theorems. *)

\* The generator renames as the Renamer does, and what holds of the Renamer holds
\* of the names in the C library.
THEOREM GeneratorRenames == GSpec => Init /\ [][Next]_vars /\ []IInv
<1>1. GInit => Init
  BY DEF GInit
<1>2. Init => IInv
  BY ClassInit, NumbersInit
     DEF IInv, ClassInv, NumbersInv, MembersInv, MethodsInv, VisitsInv
<1>3. IInv /\ [Next]_vars => IInv'
  BY ClassNext, NumbersNext
     DEF IInv, ClassInv, NumbersInv, MembersInv, MethodsInv, VisitsInv
<1>4. QED
  BY <1>1, <1>2, <1>3, RenamerStep, PTL DEF GSpec

\* Where the loops of the generator are, and what it has written until then.
THEOREM FileInvariant == GSpec => []WriteInv
<1>1. IInv => TypeOK
  BY DEF IInv
<1>2. GInit => Init
  BY DEF GInit
<1>3. Init => IInv
  BY ClassInit, NumbersInit
     DEF IInv, ClassInv, NumbersInv, MembersInv, MethodsInv, VisitsInv
<1>4. GInit => WriteInv
  BY <1>1, <1>2, <1>3, WriteInit
<1>5. IInv /\ WriteInv /\ [GNext]_gvars => WriteInv'
  BY <1>1, WriteInvNext
<1>6. QED
  BY <1>4, <1>5, GeneratorRenames, PTL DEF GSpec

\* Nothing is left out of the library and nothing is added, however many classes
\* and members there are.
THEOREM LibraryComplete == GSpec => []FileComplete
<1>1. IInv /\ WriteInv => FileComplete
  <2> SUFFICES ASSUME IInv, WriteInv, header # <<>> PROVE FileComplete
    BY DEF FileComplete
  <2>1. file # <<>> /\ Written
    BY DEF WriteInv, CursorInv
  <2>2. \A i \in DOMAIN program.order : \A k : IsWritten(i, k)
    <3>1. PICK n \in Nat : n = Len(program.order) /\ DOMAIN program.order = 1..n
      BY OrderFacts DEF IInv
    <3>2. classAt \in 1..n + 1 /\ classAt > n
      BY <2>1, <3>1 DEF WriteInv, CursorInv, Written
    <3>3. \A i \in 1..n : i < classAt
      BY <3>2
    <3>4. QED
      BY <3>1, <3>3 DEF IsWritten
  <2>3. QED
    BY <2>1, <2>2 DEF FileComplete, WriteInv, FileInv
<1>2. QED
  BY <1>1, GeneratorRenames, FileInvariant, PTL

\* The inductive invariant: what is written, and that no two entries of the C library
\* define the same name, for any overloads, fields and classes, where no number makes
\* one name another.
THEOREM GeneratorInvariant ==
  ASSUME \A p \in Programs : PlainNames(p)
  PROVE  GSpec => []GInv
<1>1. IInv => PlainNames(program)
  BY DEF IInv, TypeOK
<1>2. GInit => SymbolsDistinct
  BY DEF GInit, SymbolsDistinct
<1>3. IInv /\ WriteInv /\ SymbolsDistinct /\ [GNext]_gvars => SymbolsDistinct'
  BY <1>1, SymbolsNext
<1>4. WriteInv /\ SymbolsDistinct => GInv
  BY DEF WriteInv, GInv
<1>5. QED
  BY <1>2, <1>3, <1>4, GeneratorRenames, FileInvariant, PTL DEF GSpec

\* The C library compiles and links: the functions of all classes have different
\* names, and the copy of dartjni.h has what they use, on every platform.
THEOREM LibraryCompiles ==
  ASSUME HeaderComplete, \A p \in Programs : PlainNames(p)
  PROVE  GSpec => []Compiles
<1>1. IInv /\ WriteInv /\ GInv => Compiles
  <2> SUFFICES ASSUME IInv, WriteInv, GInv PROVE Compiles
    OBVIOUS
  <2>1. Cardinality({Symbol(file[i]) : i \in DOMAIN file}) = Len(file)
    BY SymbolsCounted DEF WriteInv, GInv
  <2>2. QED
    BY <2>1, HeaderServes, Zenon DEF Compiles, IInv
<1>2. QED
  BY <1>1, GeneratorInvariant, GeneratorRenames, FileInvariant, PTL

=============================================================================
