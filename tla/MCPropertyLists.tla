-------------------------- MODULE MCPropertyLists --------------------------
(* Instances of PropertyLists. *)
EXTENDS PropertyLists

AllStr == {"a", "b", "c", "d", "v"}
Names4 == <<"a", "b", "c", "d">>
ValSet == {"a", "v"}
Lengths == [s \in AllStr |-> 1]
\* The value "v" stands for the empty string.
EmptyV == [s \in AllStr |-> IF s = "v" THEN 0 ELSE 1]
Hashes == "a" :> 1 @@ "b" :> 2 @@ "c" :> 3 @@ "d" :> 4 @@ "v" :> 5

\* One property, two, and more than fit in a set.
MapSet == {"a" :> "v", "b" :> "a", "a" :> "a" @@ "d" :> "v",
           "a" :> "v" @@ "b" :> "v" @@ "c" :> "a" @@ "d" :> "a"}

FullRows == {<<"v", Empty, Empty, "a">>, <<"a", "v", "a", "v">>}
\* A row whose last field is empty.
ShortRows == {<<"v", "a", Empty, Empty>>}
=============================================================================
