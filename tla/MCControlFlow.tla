--------------------------- MODULE MCControlFlow ----------------------------
(* Small procedures: every pair of options of an if or a do, alone, nested, *)
(* labelled, in an atomic sequence, before and after other statements.      *)
EXTENDS ControlFlow, RegularText

S(i) == <<"step", i>>
A    == <<"feature", "a">>
B    == <<"feature", "b">>
When(i, e) == <<"expr", i, e>>
To(l) == <<"goto", l>>
Mark(l, marks, s) == <<"label", l, marks, s>>

\* What an option may hold.
Bodies(i) ==
  {<<S(i)>>, <<S(i), S(i + 1)>>, <<<<"break", i>>>>, <<S(i), <<"break", i + 1>>>>,
   <<S(i), To("L")>>, <<<<"atomic", <<S(i), S(i + 1)>>>>>>,
   <<When(i, <<"var", "x">>), <<"block", <<S(i + 1), S(i + 2)>>>>>>,
   <<<<"else", i>>, S(i + 1)>>, <<<<"else", i>>>>,
   <<When(i, A), S(i + 1)>>, <<When(i, <<"not", <<"and", A, B>>>>), S(i + 1), S(i + 2)>>,
   <<When(i, <<"or", A, B>>), To("L")>>, <<When(i, B)>>,
   <<When(i, <<"not", A>>), <<"break", i + 1>>>>}

Pairs(i) == {<<o, p>> : o \in Bodies(i), p \in Bodies(i + 10)}

Inner(i) ==
  {<<"if", <<<<S(i)>>, <<S(i + 1), S(i + 2)>>>>>>,
   <<"if", <<<<When(i, B), S(i + 1)>>, <<<<"else", i + 2>>, S(i + 3)>>>>>>,
   <<"if", <<<<S(i)>>, <<<<"else", i + 1>>, <<"break", i + 2>>>>>>>>,
   <<"do", <<<<S(i), S(i + 1)>>, <<S(i + 2), <<"break", i + 3>>>>>>>>,
   <<"do", <<<<<<"atomic", <<S(i), S(i + 1)>>>>>>, <<<<"else", i + 2>>, <<"break", i + 3>>>>>>>>,
   <<"atomic", <<S(i), <<"if", <<<<S(i + 1)>>, <<<<"else", i + 2>>, S(i + 3)>>>>>>>>>>}

\* Options that hold another choice.
Nests(i) ==
  UNION {{<<c>>, <<S(i), c>>, <<S(i), c, S(i + 1)>>, <<When(i, A), c>>, <<When(i, A), c, S(i + 1)>>,
          <<c, <<"break", i + 1>>>>, <<c, To("L")>>} : c \in Inner(i + 2)}

Choice == {"if", "do"}

Flat   == {<<k, p>> : k \in Choice, p \in Pairs(1)}
Deep   == {<<k, <<o, p>>>> : k \in Choice, o \in Nests(1), p \in Bodies(11)}
Triple == {<<k, Append(p, o)>> : k \in Choice, p \in Pairs(1),
                                 o \in {<<S(31)>>, <<<<"else", 31>>, S(32)>>}}

Around(c) ==
  {<<S(80), c, Mark("L", {"accept"}, S(81))>>,
   <<Mark("L", {}, S(80)), <<"atomic", <<S(82), c, S(81)>>>>, S(83)>>,
   <<Mark("L", {}, S(80)), <<"atomic", <<c>>>>>>,
   <<Mark("L", {"end", "progress"}, c), S(81)>>,
   <<Mark("L", {"progress"}, S(80)), Mark("M", {}, c)>>}

Candidates == UNION {Around(c) : c \in Flat \cup Deep \cup Triple}
RegularTexts == {t \in Candidates : Regular(t)}

\* An option that starts with a loop.
LoopFirst == {<<<<"if", <<<<<<"do", <<<<S(1)>>, <<<<"break", 2>>>>>>>>, S(3)>>, <<S(4)>>>>>>, S(5)>>}
=============================================================================
