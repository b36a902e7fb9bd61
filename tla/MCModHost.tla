------------------------------ MODULE MCModHost ------------------------------
(* An instance of ModHost for TLC. *)
EXTENDS ModHost

Called3(name, answers) == [name |-> name, answers |-> answers]

(* A names itself anew in its table; B answers to the name A had before, as  *)
(* an alias of its manifest; N is native.                                   *)
MCManifest == [m \in ModDlls |->
  CASE m = "A" -> Called3("a", {"a"})
    [] m = "B" -> Called3("b", {"b", "a"})
    [] m = "N" -> Called3("n", {"n"})]

MCRuntime == [m \in ModDlls |->
  CASE m = "A" -> Called3("x", {"x"})
    [] m = "B" -> Called3("b", {"b", "a"})
    [] m = "N" -> Called3("n", {"n"})]

Plain == [prefix |-> "none", mentions |-> {}, source |-> "none"]

MCLines == {Plain, [Plain EXCEPT !.prefix = "x"], [Plain EXCEPT !.mentions = {"b"}],
            [Plain EXCEPT !.source = "n"]}
MCGameDir == <<"game">>
MCPlaces  == {<<"game">>, <<"game", "mods">>, <<"game", "mods", "cache">>}
MCSays == [c \in Contents |->
  CASE c = "nothing" -> <<>>
    [] c = "letter"  -> <<"char">>
    [] c = "wide"    -> <<"lead", "trail">>
    [] c = "half"    -> <<"lead">>
    [] c = "inner"   -> <<"lost", "NUL", "char">>]
MCViews == {<<>>, <<"NUL">>, <<"char">>, <<"NUL", "char", "NUL", "NUL">>, <<"lead", "trail">>,
            <<"lead", "NUL", "char", "NUL">>}

MCLocales == <<"fr_FR", "zh_CN">>
=============================================================================
