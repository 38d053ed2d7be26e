-------------------------- MODULE MCMappingSearch --------------------------
(* Networks of three layers for MappingSearch. *)
EXTENDS MappingSearch

MCWidens(t, u) == t = u \/ <<t, u>> \in {<<"i32", "i8">>, <<"i32", "u8">>}

Rule1(in, out)    == [ins |-> <<in>>, out |-> out, ok |-> TRUE]
Rule2(in, b, out) == [ins |-> <<in, b>>, out |-> out, ok |-> TRUE]

Mapper(bindings) == [parses |-> TRUE, fits |-> TRUE, bindings |-> bindings]
Unparsed(m) == [m EXCEPT !.parses = FALSE]
Unfit(m)    == [m EXCEPT !.fits = FALSE]

(* Lists of one or two different rules of a set. *)
Lists(rules) ==
    {<<r>> : r \in rules} \cup {p \in rules \X rules : p[1] # p[2]}

FirstRules  == {Rule1("i8", "i8"), Rule1("i8", "i32"), Rule1("i32", "i32")}
MiddleRules == {Rule1("i8", "i8"), Rule1("i8", "i32"), Rule1("i32", "i8"),
                [Rule1("i32", "i32") EXCEPT !.ok = FALSE]}
LastRules   == {Rule2("i8", "i8", "i8"), Rule2("i32", "i8", "i32"),
                Rule2("i8", "i32", "u8"), Rule2("i32", "i32", "i32")}

(* The mappers before and after the one that the search commits to. *)
MapperLists(m) ==
    {<<m>>, <<Unparsed(m), m>>, <<Unfit(m), m>>, <<m, Mapper(<<Rule1("i32", "i32")>>)>>,
     <<Unparsed(m), Unfit(m), m>>, <<Unfit(m)>>}

Network3(ins, maps) ==
    [layers |-> <<[ins |-> ins[1], out |-> "a", maps |-> maps[1]],
                  [ins |-> ins[2], out |-> "b", maps |-> maps[2]],
                  [ins |-> ins[3], out |-> "y", maps |-> maps[3]]>>,
     inputs |-> [t \in {"x"} |-> "i8"], outputs |-> {"y"},
     consts |-> [t \in {"c"} |-> {"i8", "i32"}]]

Chain == <<<<"x">>, <<"a">>, <<"a", "b">>>>

(* The last layer reads a constant, or the input of the graph. *)
WithConst == <<<<"x">>, <<"a">>, <<"b", "c">>>>
WithInput == <<<<"x">>, <<"a">>, <<"b", "x">>>>
InputFirst == <<<<"x">>, <<"a">>, <<"x", "b">>>>

MCNetworks ==
    {Network3(ins, <<<<Mapper(f)>>, <<Mapper(m)>>, <<Mapper(l)>>>>) :
        ins \in {Chain, WithConst, WithInput}, f \in Lists(FirstRules),
        m \in Lists(MiddleRules), l \in Lists(LastRules)}
    \cup
    {Network3(InputFirst, <<<<Mapper(f)>>, <<Mapper(m)>>, <<Mapper(l)>>>>) :
        f \in Lists(FirstRules), m \in Lists(MiddleRules),
        l \in Lists({r \in LastRules : r.ins[1] = "i8"})}
    \cup
    {Network3(Chain, <<<<Mapper(f)>>, mm, <<Unfit(Mapper(l)), Mapper(l)>>>>) :
        f \in Lists(FirstRules),
        mm \in MapperLists(Mapper(<<Rule1("i8", "i8"), Rule1("i32", "i8")>>)),
        l \in Lists(LastRules)}
=============================================================================
