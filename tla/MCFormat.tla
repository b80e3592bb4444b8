------------------------------ MODULE MCFormat ------------------------------
(***************************************************************************)
(* Small calls for Format: numbers of eight bits, a buffer of twelve       *)
(* characters and file names with which the prefix is shorter than that,   *)
(* just as long, or longer.                                                *)
(***************************************************************************)
EXTENDS Format

Files == {<<"m">>, <<"i", "n", "i", "t", "c">>, <<"m", "a", "i", "n", ".", "c">>}

\* 128 is what the least number is without its sign, 0 is a number with a digit.
SomeValues ==
  {any__bool(1), any__u64(0), any__u64(255), any__i64(-7), any__i64(-128), any__char("c"),
   any__char_ptr(1, <<"%", "f">>), any__char_ptr(0, <<>>),
   [type |-> "unknown", num |-> 0, text |-> <<>>]}

Chars == {"a", "%", "f"}

Formats ==
  UNION {[1 .. n -> Chars] : n \in 0 .. 4} \cup {<<"a", "%", "f", "a", "%", "f">>}

Arguments == UNION {[1 .. n -> SomeValues] : n \in 0 .. 2}

SmallCalls ==
  [fn : {"log_fmt"}, file : Files, line : {10}, fmt : Formats, args : Arguments]
    \cup [fn : {"log"}, file : Files, line : {10}, fmt : {<<>>}, args : Arguments]

Mark == <<".", ".", "!">>
=============================================================================
