-------------------------- MODULE MCDatabaseScopes --------------------------
(* Instances of DatabaseScopes for TLC. *)
EXTENDS DatabaseScopes

w == "write"
s == "select"
W == [kind |-> "single", statements |-> <<w>>]
S == [kind |-> "single", statements |-> <<s>>]
G(statements) == [kind |-> "group", statements |-> statements]

MCPrograms ==
  {<<W, S, G(<<w, s>>)>>, <<G(<<w, s, w>>), S, W>>, <<G(<<s, w>>), G(<<w>>), S>>,
   <<W, G(<<w, w>>)>>, <<G(<<>>), S, W>>}

(* One SELECT, before, between or after other statements. *)
MCSelectPrograms == {<<S>>, <<W, S, W>>, <<G(<<w, w>>)>>}

MCStatement == Coroutine \X (1 .. 3) \X (1 .. 3)

=============================================================================
