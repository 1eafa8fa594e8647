----------------------------- MODULE MCPipeline -----------------------------
(* TLC instance of Pipeline: one endpoint whose server changes in every way *)
(* the verdicts tell apart, and a second one beside it.                     *)
EXTENDS Pipeline, TLC

CONSTANTS a, b

MCPrecedes(x, y) == x = a /\ y = b

\* Entries of the two tables, and the words of the names below.
MCHighRisk == {<<"command">>, <<"path">>, <<"code">>, <<"query">>, <<"sql", "query">>}
MCHarmless == {<<"status", "code">>, <<"access", "code">>}

P(words, sep, form) == [words |-> words, sep |-> sep, form |-> form]
Prop(enum, types) == [enum |-> enum, types |-> types]
T(name, text, schema, other) == [name |-> name, text |-> text, schema |-> schema, other |-> other]
Text == Prop(FALSE, <<"string">>)

Run(prop) == T("run", "t1", P(<<"command">>, "", "as is") :> prop
                            @@ P(<<"status", "code">>, "-", "as is") :> Text, "o1")
Read(other) == T("read", "t1", P(<<"status", "code", "path">>, "_", "as is")
                               :> Prop(FALSE, <<"string", "null">>), other)

Tools == <<Run(Text), Read("o1")>>
\* The same, in another order and with other annotations.
Reordered == <<Read("o2"), Run(Text)>>
\* The command is one of a few now.
Narrowed == <<Run(Prop(TRUE, <<"string">>)), Read("o1")>>
\* Two nameless tools, and one without a schema.
Nameless == <<T(Empty, "t1", P(<<"sql", "query">>, "_", "upper") :> Nil
                             @@ P(<<"path">>, "", "as is") :> Prop(FALSE, Untyped)
                             @@ P(<<"access", "code">>, "_", "padded") :> Text, "o1"),
              T(Empty, "t2", NoSchema, "o1")>>

Confirmed(name, tools) == [conf |-> "confirmed", name |-> name, tools |-> tools]
Other(conf) == [conf |-> conf, name |-> Empty, tools |-> NoList]

MCFinding ==
  a :> {Confirmed("A", Tools), Confirmed("A", Reordered), Confirmed("B", Tools),
        Confirmed(Empty, Narrowed), Confirmed("A", Nameless), Confirmed("A", << >>),
        Other("confirmed"), [Other("likely") EXCEPT !.name = "A"]}
  @@ b :> {Other("unverifiable_protected"), Other("none")}

MCAuditReply == {<<"unprotected", "high">>, <<"protected", "low">>}
=============================================================================
