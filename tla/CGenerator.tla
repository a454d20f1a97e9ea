------------------------------ MODULE CGenerator ------------------------------
(***************************************************************************)
(* The CGenerator of jnigen, after the Renamer: the C library with one     *)
(* function for each method and accessor, and its copy of dartjni.h.       *)
(*                                                                         *)
(* The library is a sequence of entries: the prelude, a variable for each  *)
(* class, and functions.  Of a function the model keeps its name, whether  *)
(* it takes the object as a parameter, what it looks up and under which    *)
(* name, which JNI function it calls, and in which member of the union     *)
(* jvalue the result is returned.  Parameters are left out.                *)
(***************************************************************************)
EXTENDS Renamer

CONSTANTS
  PackageHeader,   \* dartjni.h of package:jni
  CommittedHeader  \* the names the copy of it in the repository defines

\* Beyond what the Renamer reads, a program has the order of the classes in the
\* summary, how each member is declared, and the library that was committed.
ASSUME GeneratorAssumption ==
  IsFiniteSet(Class) /\ \A p \in Programs :
    /\ p.order \in Seq(Class)
    /\ {p.order[i] : i \in DOMAIN p.order} = Class \ p.imported
    /\ \A i, j \in DOMAIN p.order : p.order[i] = p.order[j] => i = j
    /\ \A c \in Class : Len(p.decl[c]) = Len(p.methods[c]) + Len(p.fields[c])

VARIABLES
  classAt,   \* the class to write, a place in program.order
  memberAt,  \* its member to write; 0 stands for the class itself
  file,      \* the C file so far
  header     \* the copy of dartjni.h, or empty

gvars == <<vars, classAt, memberAt, file, header>>

GInit ==
  /\ Init
  /\ classAt = 1 /\ memberAt = 0
  /\ file = <<>>
  /\ header = <<>>

\* The Renamer, which takes the classes in the order of the summary.
Rename ==
  /\ Next
  /\ stack = <<>> =>
       \E i \in DOMAIN program.order :
          /\ stack' = <<program.order[i]>>
          /\ \A j \in 1..i - 1 : program.order[j] \in renamed
  /\ UNCHANGED <<classAt, memberAt, file, header>>

-----------------------------------------------------------------------------

\* The visitors come one after another.
RenamerDone == stack = <<>> /\ Class \subseteq renamed

\* _CTypeCallSite: the type in the name of a JNI function.
CallSite ==
  [void |-> "Void", boolean |-> "Boolean", char |-> "Char", int |-> "Int",
   long |-> "Long", double |-> "Double", object |-> "Object"]

\* _CResult: the member of the union that has the result, l by to_global_ref_result.
Result ==
  [void |-> "none", boolean |-> "z", char |-> "c", int |-> "i", long |-> "j",
   double |-> "d", object |-> "l"]

IfStatic(d) == IF d.static THEN "Static" ELSE ""

Prelude == [kind |-> "prelude",
            defines |-> {"jniEnv", "jni", "context_getter", "env_getter",
                         "setJniGetters"}]

ClassVariable(c) == [kind |-> "class", class |-> uniqueName[c]]

MethodFunction(c, m, d) ==
  [kind |-> "function", prefix |-> "", class |-> uniqueName[c],
   member |-> methodName[c][m],
   self |-> ~d.constructor /\ ~d.static,
   load |-> IF d.static THEN "load_static_method" ELSE "load_method",
   java |-> IF d.constructor THEN [text |-> "<init>", nums |-> <<>>] ELSE m.name,
   call |-> IF d.constructor THEN <<"NewObject">>
            ELSE <<"Call", IfStatic(d), CallSite[d.type], "Method">>,
   result |-> IF d.constructor THEN "l" ELSE Result[d.type]]

\* writeAccessor; verb is Get or Set.
Accessor(c, n, d, verb) ==
  [kind |-> "function", prefix |-> verb, class |-> uniqueName[c],
   member |-> fieldName[c][n],
   self |-> ~d.static,
   load |-> IF d.static THEN "load_static_field" ELSE "load_field",
   java |-> LookedUp(c, n),
   call |-> <<verb, IfStatic(d), CallSite[d.type], "Field">>,
   result |-> IF verb = "Set" THEN "none" ELSE Result[d.type]]

\* Faulty: final fields have setters.
AccessorsOfVariable(c, n, d) ==
  IF d.static /\ d.final /\ d.default THEN <<>>
  ELSE <<Accessor(c, n, d, "Get"), Accessor(c, n, d, "Set")>>

\* Constants have no accessors, final fields no setter.
Accessors(c, n, d) ==
  IF d.static /\ d.final /\ d.default THEN <<>>
  ELSE IF d.final THEN <<Accessor(c, n, d, "Get")>>
  ELSE <<Accessor(c, n, d, "Get"), Accessor(c, n, d, "Set")>>

WritePrelude ==
  /\ RenamerDone /\ file = <<>>
  /\ file' = <<Prelude>>
  /\ UNCHANGED <<vars, classAt, memberAt, header>>

Written == classAt > Len(program.order)

\* Faulty: the last member is left out.
AtNextButLast(c, k) ==
  /\ file # <<>> /\ ~Written
  /\ c = program.order[classAt] /\ k = memberAt
  /\ IF k + 1 >= Members(c) THEN classAt' = classAt + 1 /\ memberAt' = 0
     ELSE classAt' = classAt /\ memberAt' = k + 1
  /\ UNCHANGED <<vars, header>>

\* Member k of class c is next, and the next class after the last member.
AtNext(c, k) ==
  /\ file # <<>> /\ ~Written
  /\ c = program.order[classAt] /\ k = memberAt
  /\ IF k = Members(c) THEN classAt' = classAt + 1 /\ memberAt' = 0
     ELSE classAt' = classAt /\ memberAt' = k + 1
  /\ UNCHANGED <<vars, header>>

WriteClass(c) ==
  /\ AtNext(c, 0)
  /\ file' = Append(file, ClassVariable(c))

WriteMethod(c, k) ==
  /\ AtNext(c, k)
  /\ k <= Len(program.methods[c])
  /\ file' = Append(file, MethodFunction(c, program.methods[c][k], program.decl[c][k]))

WriteField(c, k) ==
  /\ AtNext(c, k)
  /\ k > Len(program.methods[c])
  /\ file' = file \o Accessors(c, program.fields[c][k - Len(program.methods[c])],
                               program.decl[c][k])

\* _copyFileFromPackage; the file is closed.
CopyHeader ==
  /\ file # <<>> /\ Written /\ header = <<>>
  /\ header' = PackageHeader
  /\ UNCHANGED <<vars, classAt, memberAt, file>>

Write ==
  \/ WritePrelude
  \/ \E c \in Class : WriteClass(c)
  \/ \E c \in Class : \E k \in 1..Members(c) : WriteMethod(c, k) \/ WriteField(c, k)
  \/ CopyHeader

GNext == Rename \/ Write

GSpec == GInit /\ [][GNext]_gvars /\ WF_gvars(GNext)

-----------------------------------------------------------------------------

\* What entry e of the file defines for the linker.  The parts of a name are kept
\* apart: A__b with c is taken to differ from A with b__c.
Symbol(e) == CASE e.kind = "prelude" -> <<"prelude">>
               [] e.kind = "class" -> <<"_c_", e.class>>
               [] e.kind = "function" -> <<e.prefix, e.class, e.member>>

\* What a function uses of dartjni.h.
Needs(e) == {"JniResult", "load_env", "load_class_global_ref", "check_exception", e.load}
              \cup (IF e.result = "l" THEN {"to_global_ref_result"} ELSE {})

Platform == {"windows", "posix"}

\* What the preprocessor leaves of a header.
On(h, platform) == SelectSeq(h, LAMBDA e : e.platform \in {"any", platform})

\* The library compiles and links: no two of its functions or variables have the
\* same name, although C has one name space for all classes, their overloads and
\* their accessors; and its copy of dartjni.h has, on each platform, what the
\* functions use, in an order in which everything is declared before it is used.
Compiles ==
  /\ Cardinality({Symbol(file[i]) : i \in DOMAIN file}) = Len(file)
  /\ header # <<>> =>
       \A platform \in Platform :
         LET h == On(header, platform)
         IN  /\ \A i \in DOMAIN h : h[i].uses \subseteq {h[j].name : j \in 1..i - 1}
             /\ \A i \in DOMAIN file : file[i].kind = "function" =>
                  Needs(file[i]) \subseteq {h[j].name : j \in DOMAIN h}
             /\ {h[j].name : j \in {k \in DOMAIN h : h[k].extern}}
                  \subseteq Prelude.defines

\* What has been generated is what the repository has: the libraries that were
\* committed are up to date with the Renamer and the CGenerator, and their copy of
\* the header, with the layout of JniContext, which they share with package:jni,
\* is up to date with that package.
AsCommitted ==
  /\ Len(file) <= Len(program.committed)
  /\ \A i \in DOMAIN file : file[i] = program.committed[i]
  /\ header # <<>> => [i \in DOMAIN header |-> header[i].name] = CommittedHeader

\* What is written for the k-th member of class c, or for the class itself.
Entries(c, k) ==
  IF k = 0 THEN <<ClassVariable(c)>>
  ELSE IF k <= Len(program.methods[c])
    THEN <<MethodFunction(c, program.methods[c][k], program.decl[c][k])>>
  ELSE Accessors(c, program.fields[c][k - Len(program.methods[c])], program.decl[c][k])

\* Entry e is one of the k-th member of the i-th class.
From(e, i, k) ==
  LET es == Entries(program.order[i], k) IN \E j \in DOMAIN es : e = es[j]

\* The file has the entries of the k-th member of the i-th class.
Has(i, k) ==
  LET es == Entries(program.order[i], k)
  IN  \A j \in DOMAIN es : \E n \in DOMAIN file : file[n] = es[j]

\* The library is complete when the header is copied: it has the prelude and the
\* entries of every class of the summary and of every member, with the names that
\* the Renamer left, and nothing else.
FileComplete ==
  header # <<>> =>
    /\ RenamerDone /\ file[1] = Prelude
    /\ \A i \in DOMAIN program.order : \A k \in 0..Members(program.order[i]) : Has(i, k)
    /\ \A n \in DOMAIN file : n > 1 =>
         \E i \in DOMAIN program.order : \E k \in 0..Members(program.order[i]) :
           From(file[n], i, k)

\* The generator gets to its end, with all that the repository has.
Reproduced == <>(file = program.committed /\ header # <<>>)

-----------------------------------------------------------------------------
(* The inductive invariant of the proofs, and what they assume. *)

\* The k-th member of the i-th class comes before the next one.
IsWritten(i, k) == i < classAt \/ (i = classAt /\ k < memberAt)

\* Where the loops over the classes and their members are.
CursorInv ==
  /\ classAt \in 1..Len(program.order) + 1 /\ memberAt \in Nat
  /\ IF Written THEN memberAt = 0 ELSE memberAt <= Members(program.order[classAt])
  /\ file = <<>> => classAt = 1 /\ memberAt = 0 /\ header = <<>>
  /\ header # <<>> => Written /\ header = PackageHeader

\* The file has the entries of what is written and no others.
FileInv ==
  /\ file # <<>> => RenamerDone /\ file[1] = Prelude
  /\ \A n \in DOMAIN file : n > 1 =>
       \E i \in DOMAIN program.order : \E k \in 0..Members(program.order[i]) :
         IsWritten(i, k) /\ From(file[n], i, k)
  /\ \A i \in DOMAIN program.order : \A k \in 0..Members(program.order[i]) :
       IsWritten(i, k) => Has(i, k)

\* No two entries define the same name.
SymbolsDistinct ==
  \A m, n \in DOMAIN file : Symbol(file[m]) = Symbol(file[n]) => m = n

\* The Java names of the members of class c of program p.
NamesOf(p, c) ==
  [k \in 1..Len(p.methods[c]) + Len(p.fields[c]) |->
     IF k <= Len(p.methods[c]) THEN p.methods[c][k].name
     ELSE p.fields[c][k - Len(p.methods[c])]]

\* The members of all classes that have the Java name n.
MembersNamed(p, n) ==
  {x \in UNION {{<<c, k>> : k \in DOMAIN NamesOf(p, c)} : c \in Class} :
     NamesOf(p, x[1])[x[2]] = n}

\* No number makes a name of program p another one that is there, and no class has
\* an imported superclass: the two known limits of the Renamer (MembersDistinct).
\* CPU_ABI and CPU_ABI2 may be together, if there are not two of CPU_ABI.
PlainNames(p) ==
  /\ \A c, d \in Class \ p.imported : ~Ambiguous(Simple[c], Simple[d])
  /\ \A c \in Class \ p.imported :
       /\ p.super[c] \notin p.imported
       /\ \A j, k \in DOMAIN NamesOf(p, c) :
            LET n == NamesOf(p, c)[j]
                o == NamesOf(p, c)[k]
            IN  Extends(o, n) => o.nums[Len(o.nums)] > Cardinality(MembersNamed(p, n))

\* dartjni.h has on each platform what generated functions need, in order, and has
\* the prelude define its variables.
HeaderComplete ==
  \A platform \in Platform :
    LET h == On(PackageHeader, platform)
    IN  /\ \A i \in DOMAIN h : h[i].uses \subseteq {h[j].name : j \in 1..i - 1}
        /\ {"JniResult", "load_env", "load_class_global_ref", "check_exception",
            "to_global_ref_result", "load_method", "load_static_method",
            "load_field", "load_static_field"} \subseteq {h[j].name : j \in DOMAIN h}
        /\ {h[j].name : j \in {k \in DOMAIN h : h[k].extern}} \subseteq Prelude.defines

GInv == CursorInv /\ FileInv /\ SymbolsDistinct

=============================================================================
