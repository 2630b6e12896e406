------------------------- MODULE MCTableStatements -------------------------
(***************************************************************************)
(* Classes for TableStatements: each brings one thing the processor or the *)
(* encoder has to get right.                                               *)
(***************************************************************************)
EXTENDS TableStatements

Plain(type, nullable) ==
  [type |-> type, nullable |-> nullable, isAutoincrement |-> FALSE, backed |-> TRUE, key |-> "none"]
Keyed(type, nullable, key) == [Plain(type, nullable) EXCEPT !.key = key]
Auto(type) == [Keyed(type, TRUE, "primary") EXCEPT !.isAutoincrement = TRUE]
Computed == [Plain("Int", FALSE) EXCEPT !.backed = FALSE]
ComputedPart == [Computed EXCEPT !.key = "composite"]

Id(type) == Keyed(type, TRUE, "primary")
Part(type) == Keyed(type, FALSE, "composite")
Name == Plain("String", FALSE)
Age == Plain("Int", TRUE)
Nested == Plain("Other", FALSE)

MCClasses ==
  { <<Id("Long"), Name>>, <<Name, Id("Long"), Name>>, <<Name, Id("Long")>>, <<Auto("Long"), Age>>,
    <<Id("ULong"), Name>>, <<Auto("ULong"), Name>>, <<Id("String"), Age>>, <<Auto("String")>>,
    <<Part("Long"), Part("String")>>, <<Part("Int")>>, <<Id("Long"), Part("Int")>>,
    <<Keyed("Long", FALSE, "primary")>>, <<Id("Long"), Id("String")>>, <<Keyed("Long", TRUE, "both")>>,
    <<Keyed("Int", TRUE, "composite")>>, <<Name, Age>>, <<Id("Long")>>,
    <<Nested, Name>>, <<Name, Nested>>, <<Nested>>, <<Age, Computed, Name>>, <<Age, Name, Computed>>,
    <<>>, <<Keyed("String", FALSE, "composite"), ComputedPart>> }

MCQueryClasses == {<<Name, Age>>}
=============================================================================
