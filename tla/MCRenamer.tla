------------------------------ MODULE MCRenamer ------------------------------
(* Instances of Renamer for TLC. *)
EXTENDS Renamer, TLC

CONSTANTS A, B, C, p, q

N(t, ks) == [text |-> t, nums |-> ks]

foo == N("foo", <<>>)
foo1 == N("foo", <<1>>)
kw == N("kw", <<>>)
equals == N("equals", <<>>)
X == N("X", <<>>)
X1 == N("X", <<1>>)

MCText == {"foo", "kw", "equals", "X"}
MCName == {foo, foo1, kw, equals, X, X1}
MCKeyword == {kw}
MCDefined == {equals}
MCMethod == [name : MCName, params : {p, q}]
MCSimple == A :> X @@ B :> X @@ C :> X1

M(n, a) == [name |-> n, params |-> a]

\* Overloads, in both orders, a keyword, and a member of JObject.
MethodLists ==
  {<<>>, <<M(foo, p)>>, <<M(foo, q)>>, <<M(foo, p), M(foo, q)>>,
   <<M(foo, q), M(foo, p)>>, <<M(kw, p), M(equals, p)>>}

FieldLists == {<<>>, <<foo>>, <<foo1>>, <<kw>>}

\* At most one class has a field.
MCPrograms ==
  [super : {A :> Root @@ B :> A @@ C :> B, A :> Root @@ B :> A @@ C :> A},
   rank : {A :> 0 @@ B :> 1 @@ C :> 2},
   methods : [Class -> MethodLists],
   fields : {[c \in Class |-> IF c = d THEN f ELSE <<>>] : d \in Class, f \in FieldLists},
   imported : {{}, {A}}]

==============================================================================
