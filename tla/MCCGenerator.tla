----------------------------- MODULE MCCGenerator -----------------------------
(* The instance of CGenerator that generates the libraries of the repository. *)
EXTENDS CGenerator, GeneratedLibraries, DartjniHeader

LOCAL INSTANCE SequencesExt
LOCAL INSTANCE TLC

Elements(s) == {s[i] : i \in DOMAIN s}

AllClasses == UNION {Elements(l.classes) : l \in Libraries}

MCClass == {c.name : c \in AllClasses}

JavaMethod(d) == [name |-> d.name, params |-> d.params]

MCMethod == UNION {{JavaMethod(d) : d \in Elements(c.java.methods)} : c \in AllClasses}

MCName ==
  MCClass \cup {m.name : m \in MCMethod} \cup {Named(<<"get">>), Named(<<"equals">>)}
    \cup UNION {{d.name : d \in Elements(c.java.fields)} : c \in AllClasses}

MCText == {n.text : n \in MCName}

\* Of _keywords and _definedSyms, those that are names here.
MCKeyword == {Named(<<"get">>), Named(<<"new">>)}
MCDefined == {Named(<<"equals">>), Named(<<"hashCode">>)}

MCSimple == [c \in MCClass |-> c]

\* What is known of class c in library l, or nothing.
Of(l, c, f(_), nothing) ==
  IF \E x \in Elements(l.classes) : x.name = c
    THEN f(CHOOSE x \in Elements(l.classes) : x.name = c) ELSE nothing

SuperOf(x) == IF x.super = Object THEN Root ELSE Named(x.super)
MethodsOf(x) == [k \in DOMAIN x.java.methods |-> JavaMethod(x.java.methods[k])]
FieldsOf(x) == [k \in DOMAIN x.java.fields |-> x.java.fields[k].name]
DeclOf(x) == LET ds == x.java.methods \o x.java.fields
             IN  [k \in DOMAIN ds |-> ds[k].declaration]

\* The length of the chain of superclasses: no class of these has more than two.
RankOf(l, c) ==
  LET up(d) == Of(l, d, SuperOf, Root)
  IN  IF up(c) = Root THEN 0 ELSE IF up(up(c)) = Root THEN 1 ELSE 2

ProgramOf(l) ==
  [super |-> [c \in MCClass |-> Of(l, c, SuperOf, Root)],
   rank |-> [c \in MCClass |-> RankOf(l, c)],
   methods |-> [c \in MCClass |-> Of(l, c, MethodsOf, <<>>)],
   fields |-> [c \in MCClass |-> Of(l, c, FieldsOf, <<>>)],
   decl |-> [c \in MCClass |-> Of(l, c, DeclOf, <<>>)],
   imported |-> MCClass \ {c.name : c \in Elements(l.classes)},
   order |-> [i \in DOMAIN l.classes |-> l.classes[i].name],
   committed |-> l.committed]

MCPrograms == {ProgramOf(l) : l \in Libraries}

\* The libraries and dartjni.h are as the theorem about Compiles assumes.
ASSUME CommittedPlain == HeaderComplete /\ \A p \in MCPrograms : PlainNames(p)

==============================================================================
