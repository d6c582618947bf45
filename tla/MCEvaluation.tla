---------------------------- MODULE MCEvaluation ----------------------------
EXTENDS Evaluation

Item == <<"name", "item">>
Cap == <<"name", "bin_capacity">>
X == <<"name", "x">>
C == <<"name", "c">>
Num(k) == <<"num", k>>

Fn(ret) == [shape |-> "function", item |-> "item", cap |-> "bin_capacity", ret |-> ret]

BestFit == Fn(<<Item, Cap, <<"-", 1, 2>>>>)
WorstFit == Fn(<<Cap, Item, <<"-", 1, 2>>>>)
Hole == Fn(<<Item, Num(2), <<"-", 1, 2>>, Item, Num(2), <<"-", 4, 5>>, <<"/", 3, 6>>>>)
Pole == Fn(<<Num(1), Cap, Item, <<"-", 2, 3>>, <<"/", 1, 4>>>>)
PoleRenamed == [Fn(<<Num(1), C, X, <<"-", 2, 3>>, <<"/", 1, 4>>>>) EXCEPT !.item = "x", !.cap = "c"]
Undefined == Fn(<<X, Cap, <<"-", 1, 2>>>>)
Guarded == Fn(<<Cap, Item, Item, Cap, <<"/", 3, 4>>, Num(3), <<"if", 1, 2, 5, 6>>>>)
Bounded == Fn(<<Item, Cap, Num(1), <<"max", 2, 3>>, <<"/", 1, 4>>>>)
Compared == Fn(<<Item, Cap, <<"<", 1, 2>>>>)
Raising == [BestFit EXCEPT !.shape = "raises"]
Unsafe == [BestFit EXCEPT !.shape = "unsafe"]
Malformed == [BestFit EXCEPT !.shape = "malformed"]
Missing == [BestFit EXCEPT !.shape = "missing"]

MCText ==
    [best |-> BestFit, worst |-> WorstFit, hole |-> Hole, pole |-> Pole,
     renamed |-> PoleRenamed, undefined |-> Undefined, guarded |-> Guarded,
     bounded |-> Bounded, compared |-> Compared, raising |-> Raising, unsafe |-> Unsafe,
     malformed |-> Malformed, missing |-> Missing]
MCSequences == <<<<1, 2, 3, 1, 2, 3>>, <<2, 3, 1, 2>>>>
MCProbes == <<<<1, 2, 1, 3>>, <<2, 2, 1>>>>
=============================================================================
