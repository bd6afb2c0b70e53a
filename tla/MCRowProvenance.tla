---------------------------- MODULE MCRowProvenance ----------------------------
(* Instances of RowProvenance for TLC. *)
EXTENDS RowProvenance

Plain(a, b, v) == [a |-> a, b |-> b, v |-> v]

\* a identifies rows, or a and b do, or nothing; v breaks one rule or two.
MCSources ==
  {<<Plain(1, 2, 9), Plain(2, 2, v)>> : v \in {Null, 8}}
  \cup {<<Plain(1, 1, Null), Plain(1, 2, 9), Plain(2, 1, 1)>>,
        <<Plain(1, 2, 9), Plain(1, 2, 8)>>,
        <<Plain(Null, 1, 9), Plain(2, 1, 1)>>}

On(type, columns) ==
  [type |-> type, columns |-> columns, tolerated |-> 0, min |-> 1, max |-> 5, matching |-> {1, 2, 8}]

MCRuleSets ==
  {{On("COMPLETENESS", {"v"}), On("RANGE", {"v"}), On("PATTERN", {"v"})},
   {On("UNIQUENESS", {"v"}), On("DUPLICATE", {"a"}), On("CROSS_COLUMN", {"a", "b"})},
   {On("RANGE", {"v"}), On("PATTERN", {"v"})}}

MCKeys == {<<"a">>, <<"b">>, <<"b", "a">>}
=============================================================================
