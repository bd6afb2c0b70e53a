--------------------------- MODULE MCMaterialization ---------------------------
(* Instances of Materialization for TLC. *)
EXTENDS Materialization

\* Keys, what the records set their row's key to, and the records without a column.
Dataset(key, sets, blank) ==
  [parts |-> Len(key[1]), key |-> key, sets |-> sets, blank |-> blank]

Unique == <<<<1>>, <<2>>, <<3>>>>

\* The first correction gives its row the key of the second one's.
KeyEdited == Dataset(Unique, 1 :> <<3>> @@ 3 :> <<3>>, {})

SomeDatasets ==
  { \* Two corrections that leave the key alone; two rows of one key.
    Dataset(Unique, 1 :> <<1>> @@ 3 :> <<3>>, {}),
    Dataset(<<<<1>>, <<2>>, <<2>>>>, 1 :> <<1>> @@ 3 :> <<2>>, {}),
    \* A NULL in a key of two columns, and a record that sets none; no key.
    Dataset(<<<<Null, 1>>, <<1, 1>>, <<1, 2>>>>, 1 :> <<Null, 1>> @@ 3 :> <<1, 2>>, {3}),
    Dataset(<<<< >>, << >>, << >>>>, 1 :> << >> @@ 3 :> << >>, {}) }
=============================================================================
