----------------------------- MODULE Templates -----------------------------
(***************************************************************************)
(* The string template evidence of src/app/modules/ai/evidence_template.py:*)
(* another column's words, cased, joined and wrapped.                      *)
(*                                                                         *)
(* Words are not split: a match inside a word is left out.                 *)
(***************************************************************************)
EXTENDS CellValues

Cases == {"as_is", "lower", "upper"}

Delimiters == {<<>>} \union {<<Mark(w)>> : w \in {".", "_", "-", " "}}

\* The words of a value; an absent value has none.
Tokens(v) == IF v = Null THEN <<>>
             ELSE SelectSeq(v.text, LAMBDA a : a.f # "mark")

Cased(a, case) == IF case = "as_is" \/ a.f = "none" THEN a
                  ELSE [a EXCEPT !.f = case]

Core(src, case, delimiter) ==
    LET words == Tokens(src)
    IN FlattenSeq([i \in DOMAIN words |->
                     (IF i = 1 THEN <<>> ELSE delimiter)
                       \o <<Cased(words[i], case)>>])

\* Every way in which this source appears, first, in this target.
Hypotheses(src, tgt) ==
    UNION {LET core == Core(src, case, delimiter)
               at == {i \in 1 .. Len(tgt.text) - Len(core) + 1 :
                        SubSeq(tgt.text, i, i + Len(core) - 1) = core}
           IN {[case |-> case, delimiter |-> delimiter,
                prefix |-> SubSeq(tgt.text, 1, i - 1),
                suffix |-> SubSeq(tgt.text, i + Len(core), Len(tgt.text))] :
                 i \in at \intersect (IF at = {} THEN {} ELSE {Min(at)})} :
             case \in Cases, delimiter \in Delimiters}

Predict(h, src) ==
    [text |-> h.prefix \o Core(src, h.case, h.delimiter) \o h.suffix]

MinPairs == 3

\* The value on which every transformation without one contradiction agrees;
\* such a transformation is confirmed by every usable pair.
TemplateEvidence(src, tgt, query) ==
    LET usable == {k \in DOMAIN src : tgt[k] # Null /\ Tokens(src[k]) # <<>>}
        found == UNION {Hypotheses(src[k], tgt[k]) : k \in usable}
        perfect == {h \in found : \A k \in usable : Predict(h, src[k]) = tgt[k]}
        values == {Predict(h, query) : h \in perfect}
    IN IF \/ Cardinality(usable) < MinPairs \/ Tokens(query) = <<>>
          \/ Cardinality(values) # 1
       THEN {}
       ELSE {[strategy |-> "STRING_TEMPLATE", value |-> v,
              confidence |-> (1000 * Min({Cardinality(usable), 2 * MinPairs}))
                                \div (2 * MinPairs)] : v \in values}
=============================================================================
