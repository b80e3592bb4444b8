---------------------------- MODULE FormatProofs ----------------------------
(***************************************************************************)
(* Proofs about Format, for any size of the buffer, any file name, format  *)
(* and arguments.                                                          *)
(***************************************************************************)
EXTENDS Format, TLAPS

\* Str__suffix moves the beginning of a String and not its end, so that whatever
\* any__fmt is given ends with the buffer; and no more arguments are used than
\* there are.
IndInv ==
  /\ out.end = BUF_SIZE /\ InBuffer
  /\ at \in {"message", "values"} =>
       format_count \in Nat /\ Len(call.args) \in Nat /\ format_count <= Len(call.args)
  /\ at = "prefix" => Len(call.args) \in Nat
  /\ NamesParameter

\* A text that stops at the end of the buffer leaves the cells behind it alone
\* (strcpy_s, _out_buffer).
LEMMA WriteStops ==
  ASSUME InBuffer, NEW first, NEW text, Write(first, BUF_SIZE, text)
  PROVE  InBuffer'
<1> SUFFICES ASSUME NEW k \in BUF_SIZE .. BUF_SIZE + Beyond - 1 PROVE buffer'[k] = Stale
  BY DEF InBuffer
<1>1. k \in Cells /\ ~(k < BUF_SIZE) BY BufferAssumption DEF Cells
<1>2. buffer'[k] = buffer[k] BY <1>1 DEF Write
<1> QED BY <1>2 DEF InBuffer

\* At the beginning of a call nothing has been written.
LEMMA InitInd == Init => IndInv
<1> SUFFICES ASSUME Init PROVE IndInv OBVIOUS
<1>1. InBuffer BY BufferAssumption DEF Init, InBuffer, Cells
<1>2. Len(call.args) \in Nat BY CallsAssumption DEF Init
<1> QED BY <1>1, <1>2 DEF Init, IndInv, NamesParameter

\* The early returns of any__fmt name a parameter.
LEMMA FailsNames ==
  ASSUME IndInv, Fails PROVE IndInv'
<1> USE DEF IndInv, Fails
<1>1. at = "message" /\ at' = "failed" OBVIOUS
<1>2. InBuffer' BY DEF InBuffer
<1>3. format_count \in Nat /\ Len(call.args) \in Nat /\ format_count <= Len(call.args) BY <1>1
<1>4. -format_count - 1 \in -Len(call.args) - 1 .. -1 BY <1>3
<1>5. NamesParameter' BY <1>4 DEF NamesParameter
<1> QED BY <1>1, <1>2, <1>5

\* Every step of a call keeps the invariant.
LEMMA NextInd == IndInv /\ [Next]_vars => IndInv'
<1> SUFFICES ASSUME IndInv, [Next]_vars PROVE IndInv' OBVIOUS
<1>1. CASE Literal
  <2>1. InBuffer' BY <1>1, WriteStops DEF Literal, Put, IndInv
  <2> QED BY <1>1, <2>1 DEF Literal, IndInv, NamesParameter, Formatting
<1>2. CASE Percent
  <2>1. InBuffer' BY <1>2, WriteStops DEF Percent, Put, IndInv
  <2> QED BY <1>2, <2>1 DEF Percent, IndInv, NamesParameter, Formatting
<1>3. CASE BadSpecifier \/ MissingArgument \/ ArgumentFails \/ LeftOver
  <2>1. Fails BY <1>3 DEF BadSpecifier, MissingArgument, ArgumentFails, LeftOver
  <2> QED BY <2>1, FailsNames
<1>4. CASE Argument
  <2>1. InBuffer' BY <1>4, WriteStops DEF Argument, Put, IndInv
  <2>2. at' = at /\ call' = call /\ out' = out /\ format_count' = format_count + 1
    BY <1>4 DEF Argument
  <2>3. at = "message" => format_count < Len(call.args) BY <1>4 DEF Argument, args
  <2>4. at \in {"prefix", "message"} BY <1>4 DEF Argument, Specifier, Formatting
  <2> QED BY <2>1, <2>2, <2>3, <2>4 DEF IndInv, NamesParameter
<1>5. CASE PrefixDone
  <2>1. InBuffer' BY <1>5 DEF PrefixDone, InBuffer, IndInv
  <2>2. at' \in {"values", "message", "assert"} BY <1>5 DEF PrefixDone
  <2>3. Len(call.args) \in Nat BY <1>5 DEF PrefixDone, IndInv
  <2>4. call' = call /\ format_count' = 0 /\ out'.end = BUF_SIZE BY <1>5 DEF PrefixDone, IndInv
  <2> QED BY <2>1, <2>2, <2>3, <2>4 DEF IndInv, NamesParameter
<1>6. CASE MessageDone
  BY <1>6 DEF MessageDone, IndInv, InBuffer, NamesParameter
<1>7. CASE Value
  <2>1. InBuffer' BY <1>7, WriteStops DEF Value, IndInv
  <2>2. at = "values" /\ format_count < Len(call.args) BY <1>7 DEF Value, args
  <2>3. at' = at /\ call' = call /\ out' = out /\ format_count' = format_count + 1
    BY <1>7 DEF Value
  <2> QED BY <2>1, <2>2, <2>3 DEF IndInv, NamesParameter
<1>8. CASE ValueFails \/ ValuesDone
  BY <1>8 DEF ValueFails, ValuesDone, IndInv, InBuffer, NamesParameter
<1>9. CASE Line
  <2>1. InBuffer' BY <1>9, WriteStops DEF Line, IndInv, InBuffer
  <2> QED BY <1>9, <2>1 DEF Line, IndInv, NamesParameter
<1>10. CASE Done \/ UNCHANGED vars
  BY <1>10 DEF Done, vars, IndInv, InBuffer, NamesParameter
<1> QED BY <1>1, <1>2, <1>3, <1>4, <1>5, <1>6, <1>7, <1>8, <1>9, <1>10 DEF Next

\* IndInv holds in every reachable state.
THEOREM Inductive == Spec => []IndInv
  BY InitInd, NextInd, PTL DEF Spec

\* Whatever is logged, ext__log and ext__log_fmt write no cell behind their buffer.
THEOREM StaysInBuffer == Spec => []InBuffer
<1>1. IndInv => InBuffer BY DEF IndInv
<1> QED BY <1>1, Inductive, PTL

\* A failing any__fmt names one of the parameters it was given or the first missing
\* one; the branch of ext__log_fmt that reports too many is never taken.
THEOREM ComplainsOfParameter == Spec => []NamesParameter
<1>1. IndInv => NamesParameter BY DEF IndInv
<1> QED BY <1>1, Inductive, PTL
=============================================================================
