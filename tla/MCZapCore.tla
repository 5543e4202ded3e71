----------------------------- MODULE MCZapCore -----------------------------
(***************************************************************************)
(* A small instance of ZapCore for TLC.                                    *)
(***************************************************************************)
EXTENDS ZapCoreProperties, TLC

\* Two errors and a nil one under the keys errors have, and a field of its own.
SomeFields == {[key |-> "error", value |-> "e1"], [key |-> "error", value |-> "nil"],
               [key |-> "err", value |-> "e2"], [key |-> "order", value |-> "o1"],
               [key |-> "order", value |-> "o2"]}

F(k, v) == [key |-> k, value |-> v]
Args(fields, carriers) == [fields |-> fields, carriers |-> carriers]

\* No argument, one or two; a key twice; carriers alone, with fields, and nil.
SomeInputs ==
  {Args(<<>>, <<>>),
   Args(<<F("order", "o1")>>, <<>>),
   Args(<<F("order", "o1"), F("order", "o2")>>, <<"c1">>),
   Args(<<F("error", "e1")>>, <<NoContext>>),
   Args(<<F("err", "e2"), F("error", "nil")>>, <<>>),
   Args(<<>>, <<"c1", "c2", NoContext>>)}

\* A message without the error, and one that has it.
SomeMessages == {<<"op">>, <<"op", "e1">>}

SomeLevels == {0, 1}

Alike == Permutations(Goroutines)
=============================================================================
