---------------------------- MODULE MCSuggesting ----------------------------
(***************************************************************************)
(* Tables for Suggesting: one planted fault each, whose truth is known, and*)
(* tables on which the engines should decline or disagree.                 *)
(***************************************************************************)
EXTENDS Suggesting, TLC

Column(type) == [type |-> type, pk |-> FALSE, distinct |-> Null]

\* A column of which a profile counted that many distinct values in a hundred.
Profiled(type, distinct) == [Column(type) EXCEPT !.distinct = distinct]

Id == [Column("INTEGER") EXCEPT !.pk = TRUE]

\* A table of the target column alone; `cells' is a sequence of cells.
Single(type, rule, cells, issues, truth) ==
    [columns |-> [id |-> Id, target |-> Column(type)],
     rule |-> rule,
     rows |-> [k \in DOMAIN cells |-> [id |-> Numeral(k), target |-> cells[k]]],
     issues |-> issues, truth |-> truth, engine |-> "ADVANCED", prompt |-> TRUE,
     batches |-> {1}, deaths |-> 1]

\* One term taken out; one term repeated.  As is what the engine writes.
Emptied(type, n, Term(_), As(_), inner) ==
    {Single(type, "COMPLETENESS",
            [k \in 1 .. n |-> IF k = i THEN Null ELSE Term(k)], {i}, As(i)) :
       i \in inner}

Repeated(type, rule, n, Term(_), As(_), which) ==
    {Single(type, rule, [k \in 1 .. n + 1 |-> IF k > n THEN Term(i) ELSE Term(k)],
            {n + 1}, As(n + 1)) : i \in which}

Order(n) == [text |-> <<Word("ORD", "upper", n)>>]

Day(m, d) == [m |-> m, d |-> d, t |-> 0, z |-> "naive"]

AsDate(v) == [at |-> Instant(v), z |-> v.z]

Same(v) == v

Numbers ==
    LET Tens(k) == Numeral(90 + 10 * k)
        Orders(k) == Order(k)
        Falling(k) == Numeral(3 * k - 7)
    IN Emptied("INTEGER", 6, Tens, Tens, 2 .. 5)
         \union Emptied("STRING", 7, Orders, Orders, 2 .. 6)
         \union Emptied("INTEGER", 6, Falling, Falling, {3})
         \union Repeated("INTEGER", "UNIQUENESS", 5, Tens, Tens, 1 .. 5)
         \union Repeated("STRING", "UNIQUENESS", 4, Orders, Orders, 1 .. 4)

Dates ==
    LET Weekly(k) == Day(0, 7 * k - 6)
        Weeks(k) == [at |-> 168 * (k - 1), z |-> "naive"]
        Monthly(k) == Day(4 + k, 15)
        Months(k) == AsDate(Monthly(k))
        MonthEnd(k) == Day(10 + k, LastDay(10 + k))
        MonthEnds(k) == AsDate(MonthEnd(k))
        Leap(k) == Day(48 * k - 47, 29)
        Leaps(k) == AsDate(Leap(k))
        Hourly(k) == [Day(2, 5) EXCEPT !.t = 3 * k, !.z = "+2"]
        Hours(k) == AsDate(Hourly(k))
    IN Emptied("DATE", 6, Monthly, Months, 2 .. 5)
         \union Emptied("DATE", 7, MonthEnd, MonthEnds, 2 .. 6)
         \union Emptied("DATE", 6, Leap, Leaps, 2 .. 5)
         \union Emptied("DATETIME", 6, Hourly, Hours, 2 .. 5)
         \union Repeated("DATE", "UNIQUENESS", 4, Weekly, Weeks, 1 .. 4)
         \union Repeated("DATE", "UNIQUENESS", 6, MonthEnd, MonthEnds, {2})
         \union Repeated("DATE", "UNIQUENESS", 4, Leap, Leaps, 1 .. 4)

\* Rows of a sale: the target follows from the other columns by F, but for
\* the failing row 4, which holds something else; five rows are of one kind.
Sale(F(_, _), truth) ==
    LET Kind(k) == [text |-> <<Word(IF k = 6 THEN "b" ELSE "a", "lower", NoNumber)>>]
        Qty(k)  == <<2, 3, 5, 4, 7, 9>>[k]
        Unit(k) == <<11, 13, 8, 12, 10, 10>>[k]
    IN [columns |-> [id |-> Id, kind |-> Column("STRING"),
                     qty |-> Column("INTEGER"), unit |-> Column("INTEGER"),
                     target |-> Column("INTEGER")],
        rule |-> "RANGE",
        rows |-> [k \in 1 .. 6 |->
                    [id |-> Numeral(k), kind |-> Kind(k), qty |-> Numeral(Qty(k)),
                     unit |-> Numeral(Unit(k)),
                     target |-> Numeral(IF k = 4 THEN 90 ELSE F(Qty(k), Unit(k)))]],
        issues |-> {4}, truth |-> truth, engine |-> "ADVANCED", prompt |-> TRUE,
     batches |-> {1}, deaths |-> 1]

Sales ==
    LET Product(q, u) == q * u
        Sum(q, u) == q + u
        Difference(q, u) == u - q
        Triple(q, u) == 3 * q
        Flat(q, u) == 40
        Unrelated(q, u) == (q * q * u) % 17
        Milli(x) == [milli |-> 1000 * x]
    IN {Sale(Product, Milli(48)), Sale(Sum, Milli(16)),
        Sale(Difference, Milli(8)), Sale(Triple, Milli(12)),
        Sale(Flat, Milli(40)), Sale(Unrelated, Undecidable)}

Given == <<"ann", "bob", "cyd", "dan", "eve">>

Family == <<"lee", "orr", "fox", "kim", "sun">>

\* Rows of a person: the target is the name in lower case with a dot in it
\* and a host after it, but for the row k in `spoilt'.
Person(rule, spoilt, issues, truth, engine) ==
    LET W(w, f) == <<Word(w, f, NoNumber)>>
        Name(k) == [text |-> W(Given[k], "title") \o <<Mark(" ")>>
                               \o W(Family[k], "title")]
        Mail(k) == [text |-> W(Given[k], "lower") \o <<Mark(".")>>
                               \o W(Family[k], "lower") \o <<Mark("@")>>
                               \o W("host", "lower")]
    IN [columns |-> [id |-> Id, name |-> Column("STRING"),
                     target |-> Column("TEXT")],
        rule |-> rule,
        rows |-> [k \in 1 .. 5 |->
                    [id |-> Numeral(k), name |-> Name(k),
                     target |-> IF k \in DOMAIN spoilt THEN spoilt[k] ELSE Mail(k)]],
        issues |-> issues, truth |-> IF truth = 0 THEN Null ELSE Mail(truth),
        engine |-> engine, prompt |-> TRUE, batches |-> {1}, deaths |-> 1]

Persons ==
    LET junk == [text |-> <<Word("junk", "lower", NoNumber)>>]
    IN {Person("PATTERN", 5 :> junk, {5}, 5, "ADVANCED"),
        Person("COMPLETENESS", 2 :> Null, {2}, 2, "ADVANCED"),
        \* a spoilt row that is under review too, and one that is not
        Person("PATTERN", 5 :> junk @@ 1 :> junk, {1, 5}, 0, "ADVANCED"),
        Person("PATTERN", 5 :> junk @@ 1 :> junk, {5}, 0, "ADVANCED"),
        Person("PATTERN", 5 :> junk, {5}, 0, "EVIDENCE"),
        Person("PATTERN", 5 :> junk, {5}, 0, "OFF")}

\* Order numbers with the reference they were copied from, and the rows'
\* labels, which say the same but for the empty row.
Reference(label, truth) ==
    [columns |-> [id |-> Id, ref |-> Column("STRING"),
                 label |-> Column("TEXT"), target |-> Column("STRING")],
     rule |-> "COMPLETENESS",
     rows |-> [k \in 1 .. 8 |->
                 [id |-> Numeral(k),
                  ref |-> [text |-> <<Word("ORD", "lower", k)>>],
                  label |-> [text |-> <<Word("ORD", "title",
                                             IF k = 5 THEN label ELSE k)>>],
                  target |-> IF k = 5 THEN Null ELSE Order(k)]],
     issues |-> {5}, truth |-> truth, engine |-> "ADVANCED", prompt |-> TRUE,
     batches |-> {1}, deaths |-> 1]

\* Tables on which the engines have to decline, or that are read in part.
Unclear ==
    LET Of(type, rule, ns, issues, truth) ==
          Single(type, rule, [k \in DOMAIN ns |-> IF ns[k] = 0 THEN Null
                                                  ELSE Numeral(ns[k])],
                 issues, truth)
        Zoned(k) == [Day(k, 3) EXCEPT !.z = IF k = 2 THEN "+1" ELSE "naive"]
    IN {Of("INTEGER", "COMPLETENESS", <<1, 2, 0, 4, 0, 6, 7, 8>>, {3}, Undecidable),
        Of("INTEGER", "COMPLETENESS", <<2, 9, 0, 30, 31, 57>>, {3}, Undecidable),
        Of("INTEGER", "UNIQUENESS", <<1, 2, 3, 3, 4, 5>>, {3, 4}, Numeral(6)),
        Of("INTEGER", "COMPLETENESS", <<1, 2, 3, 0, 5, 6, 7, 8, 9, 10>>, {4}, Null),
        [Of("INTEGER", "RANGE", <<40, 41, 40, 99, 42>>, {4}, Null)
           EXCEPT !.engine = "EVIDENCE"],
        [Of("INTEGER", "RANGE", <<40, 41, 40, 99, 42>>, {4}, Null)
           EXCEPT !.prompt = FALSE],
        Single("DATE", "COMPLETENESS",
               [k \in 1 .. 6 |-> IF k = 4 THEN Null ELSE Zoned(k)], {4},
               Undecidable)}

\* Products sold, with the rows' kinds and what a profile counted of them.
\* The sales of kind 2 have a target of their own.
ProfiledSale(kinds, distinct, truth) ==
    LET Product(q, u) == q * u
        Named(n) == [text |-> <<Word("kind", "lower", n)>>]
        sale == Sale(Product, truth)
        Target2(k) == IF kinds[k] = 2 THEN Numeral(100 - 10 * k)
                      ELSE sale.rows[k].target
    IN [sale EXCEPT !.columns.kind = Profiled("STRING", distinct),
                    !.rows = [k \in DOMAIN sale.rows |->
                                [sale.rows[k] EXCEPT !.kind = Named(kinds[k]),
                                                     !.target = Target2(k)]]]

\* Profiles that agree with the rows, and stale ones: of a time when most
\* kinds were distinct, and of one when few were.
Profiles ==
    LET two == <<1, 2, 1, 1, 1, 2>>
        own == <<3, 4, 5, 6, 7, 8>>
        known == [milli |-> 48000]
    IN {ProfiledSale(two, Null, known), ProfiledSale(two, 33, known),
        ProfiledSale(two, 100, Undecidable),
        ProfiledSale(own, Null, known), ProfiledSale(own, 100, known),
        ProfiledSale(own, 20, Undecidable)}

\* Small tables of which two batches are asked for: both over two issues, or
\* over one, with a death.
Together ==
    LET Two(engine, issues, prompt, deaths) ==
          [Single("INTEGER", "RANGE", [k \in 1 .. 3 |-> Numeral(k)], issues, Null)
             EXCEPT !.engine = engine, !.prompt = prompt, !.batches = {1, 2},
                    !.deaths = deaths]
    IN {Two("OFF", {1, 2}, TRUE, 0), Two("OFF", {1}, TRUE, 1),
        Two("OFF", {1, 2}, FALSE, 1), Two("ADVANCED", {1}, TRUE, 1)}

MCTables == Numbers \union Dates \union Sales \union Persons \union Unclear
              \union Profiles \union Together
              \union {Reference(5, Order(5)), Reference(9, Undecidable)}

\* What OwnValueSaysNothing asks of the tables.
ASSUME KeysAreElsewhere == KeyIsElsewhere
=============================================================================
