------------------------------ MODULE MCRegression ------------------------------
(* Two directories: a list that runs one test in each in parallel, and one *)
(* that runs two in the same directory, the second with one seed or another.*)
EXTENDS Regression

MCTags == {"a1", "a2", "a3", "b1"}
MCDirOf == [t \in MCTags |-> IF t = "b1" THEN "b" ELSE "a"]
MCNameOf == [t \in MCTags |-> IF t = "a3" THEN "a2" ELSE t]
MCLists == {"sanity", "daily"}
MCList(inA, inB) == [d \in {"a", "b"} |-> IF d = "a" THEN inA ELSE inB]
MCContents ==
  [l \in MCLists |->
     IF l = "daily" THEN {MCList(<<"a1", "a2">>, <<>>), MCList(<<"a1", "a3">>, <<>>)}
                    ELSE {MCList(<<"a1">>, <<"b1">>)}]
=============================================================================
