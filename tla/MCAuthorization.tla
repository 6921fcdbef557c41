--------------------------- MODULE MCAuthorization ---------------------------
(* Model-checking instances of Authorization. *)
EXTENDS Authorization

\* Rules that differ in one respect each, one that allows any actor, and some
\* that the validation refuses.
R1 == [events |-> {"push"}, actors |-> {"ann"}, labels |-> {"gpu"}]
R2 == [events |-> {"push"}, actors |-> {"*"}, labels |-> {"gpu"}]
R3 == [events |-> {"issues"}, actors |-> {"ann", "bob"}, labels |-> {"gpu"}]
Mixed == [events |-> {"push"}, actors |-> {"ann", "*"}, labels |-> {"gpu"}]
Unknown == [events |-> {"push"}, actors |-> {"ann"}, labels |-> {"arm"}]

ByID(w, rules) == [workflow |-> w, path |-> "", rules |-> rules]
ByPath(p, rules) == [workflow |-> 0, path |-> p, rules |-> rules]

Workflows ==
  {ByID(1, <<R1>>), ByID(1, <<R3, R1>>), ByID(2, <<R2>>),
   ByPath("build", <<R3>>), ByPath("build", <<R1, R2>>)}

Refused == {<<ByID(1, <<>>)>>, <<ByID(1, <<R1, R1>>)>>, <<ByID(1, <<Mixed>>)>>,
            <<ByID(1, <<Unknown>>)>>, <<[ByID(1, <<R1>>) EXCEPT !.path = "build"]>>}

Policies == {<<>>} \cup {<<t>> : t \in Workflows} \cup (Workflows \X Workflows) \cup Refused

Repositories == [visibility : {"private", "public"}, trusted : Policies]

=============================================================================
