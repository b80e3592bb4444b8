------------------------------- MODULE Format -------------------------------
(***************************************************************************)
(* How ext__log and ext__log_fmt (kern/__lib_impl__.c) put a line into     *)
(* their buffer: the prefix with file and line number, the message made by *)
(* any__fmt and any__fmt_any (lib/basics.h) from a format and its          *)
(* arguments, and the mark on a line that does not fit.  The mutex, the    *)
(* serial port and the error path are the subject of Logger; here a call   *)
(* starts with the mutex held and ends with a line to send, with the       *)
(* number of the parameter it complains of, or at a failed assertion.      *)
(*                                                                         *)
(* A text is a sequence of characters.  The cells of the buffer hold what  *)
(* earlier lines left there (Stale); some cells behind it are watched too. *)
(* Flags, width and precision of the number conversion are zero in all its *)
(* calls.                                                                  *)
(***************************************************************************)
EXTENDS Integers, Sequences, FiniteSets, SequencesExt

CONSTANTS
  BUF_SIZE,
  Clip,      \* the mark "... [clipped]", a text
  Width,     \* bits of u64 and s64
  Beyond,    \* how many cells behind the buffer are watched
  Stale,     \* what a cell holds before a call
  Calls      \* [fn, file, line, fmt, args], with values made by make_any

ASSUME BufferAssumption == BUF_SIZE \in Nat /\ Beyond \in Nat
ASSUME ClipAssumption == Len(Clip) \in 0 .. BUF_SIZE
ASSUME CallsAssumption == \A c \in Calls : Len(c.args) \in Nat

VARIABLES
  call,
  buffer,        \* [cells -> characters]
  at,            \* "prefix", "message", "values", "line", then "sent", "failed" or "assert"
  out,           \* argument of any__fmt: the cells it may write, [data, end], end excluded
  fmt,           \* what is left of the format
  format_count,  \* the arguments used so far
  written,       \* local of any__fmt
  total,         \* local written of the log function
  fmt_try        \* what any__fmt returned for the message

vars == <<call, buffer, at, out, fmt, format_count, written, total, fmt_try>>

Cells == 0 .. BUF_SIZE + Beyond - 1

-----------------------------------------------------------------------------
(* Values *)

\* A value has the number (0 or 1 for a bool, the address for a pointer) and the
\* text at that address, or the one character.
any__bool(b) == [type |-> "bool", num |-> b, text |-> <<>>]
any__u64(n) == [type |-> "u64", num |-> n, text |-> <<>>]
any__i64(n) == [type |-> "i64", num |-> n, text |-> <<>>]
any__char(c) == [type |-> "char", num |-> 0, text |-> <<c>>]
any__char_ptr(address, text) == [type |-> "char_ptr", num |-> address, text |-> text]

type_id == {"bool", "u64", "i64", "char", "char_ptr"}

digit == <<"0", "1", "2", "3", "4", "5", "6", "7", "8", "9">>

\* The loop of _ntoa_long, last digit first
ntoa_buf[n \in Nat] ==
  <<digit[(n % 10) + 1]>> \o (IF n \div 10 = 0 THEN <<>> ELSE ntoa_buf[n \div 10])

\* _ntoa_long, _ntoa_format and _out_rev
ntoa(n, negative) == Reverse(ntoa_buf[n] \o (IF negative THEN <<"-">> ELSE <<>>))

\* The value of a signed number after a wrap-around, and of its bits as a u64
S64(n) == IF n = 2 ^ (Width - 1) THEN -n ELSE n
U64(n) == n % 2 ^ Width

fmt_u64(n) == ntoa(n, FALSE)

fmt_i64(n) == ntoa(U64(IF n < 0 THEN S64(-n) ELSE n), n < 0)

\* The text any__fmt_any tries to write, and whose length it returns
any__fmt_any(v) ==
  CASE v.type = "bool"     -> IF v.num # 0 THEN <<"t", "r", "u", "e">> ELSE <<"f", "a", "l", "s", "e">>
    [] v.type = "u64"      -> fmt_u64(v.num)
    [] v.type = "i64"      -> fmt_i64(v.num)
    [] v.type = "char"     -> v.text
    [] v.type = "char_ptr" -> IF v.num = 0 THEN <<>> ELSE v.text

-----------------------------------------------------------------------------
(* The buffer *)

\* Mutant: the cell behind the last one is written too.
Write_past(first, end, text) ==
  buffer' = [k \in Cells |-> IF k >= first /\ k <= end /\ k < first + Len(text)
                             THEN text[k - first + 1] ELSE buffer[k]]

\* What strcpy_s, _out_buffer and the assignments behind "written < len" do: the
\* text goes to the cells from first on, but to none from end on.
Write(first, end, text) ==
  buffer' = [k \in Cells |-> IF k >= first /\ k < end /\ k < first + Len(text)
                             THEN text[k - first + 1] ELSE buffer[k]]

Smaller(a, b) == IF a > b THEN b ELSE a

\* Mutant: counts what was written, not what was to be written.
Put_written(text) ==
  /\ Write(out.data + Smaller(written, out.end - out.data), out.end, text)
  /\ written' = written + Smaller(Len(text), out.end - out.data - Smaller(written, out.end - out.data))

\* Text goes to Str__suffix(out, min(written, len)).
Put(text) ==
  /\ Write(out.data + Smaller(written, out.end - out.data), out.end, text)
  /\ written' = written + Len(text)

-----------------------------------------------------------------------------
(* any__fmt *)

prefix == <<"[", "%", "f", ":", "%", "f", "]", ":", " ">>

args == IF at = "prefix" THEN <<any__char_ptr(1, call.file), any__u64(call.line)>> ELSE call.args

Formatting == at \in {"prefix", "message"}

Literal ==
  /\ Formatting /\ fmt # <<>> /\ fmt[1] # "%"
  /\ Put(<<fmt[1]>>) /\ fmt' = Tail(fmt)
  /\ UNCHANGED <<call, at, out, format_count, total, fmt_try>>

Percent ==
  /\ Formatting /\ Len(fmt) >= 2 /\ fmt[1] = "%" /\ fmt[2] = "%"
  /\ Put(<<"%">>) /\ fmt' = Tail(Tail(fmt))
  /\ UNCHANGED <<call, at, out, format_count, total, fmt_try>>

\* Every early return is -format_count - 1.  The prefix has none.
Fails ==
  /\ at = "message" /\ at' = "failed"
  /\ fmt_try' = -format_count - 1
  /\ UNCHANGED <<call, buffer, out, fmt, format_count, written, total>>

\* What follows % is neither % nor f, or nothing follows.
BadSpecifier ==
  /\ fmt # <<>> /\ fmt[1] = "%" /\ ~(Len(fmt) > 1 /\ fmt[2] \in {"%", "f"})
  /\ Fails

Specifier == Formatting /\ Len(fmt) >= 2 /\ fmt[1] = "%" /\ fmt[2] = "f"

MissingArgument == Specifier /\ format_count >= Len(args) /\ Fails

Argument ==
  /\ Specifier /\ format_count < Len(args) /\ args[format_count + 1].type \in type_id
  /\ Put(any__fmt_any(args[format_count + 1]))
  /\ fmt' = Tail(Tail(fmt)) /\ format_count' = format_count + 1
  /\ UNCHANGED <<call, at, out, total, fmt_try>>

ArgumentFails ==
  /\ Specifier /\ format_count < Len(args) /\ args[format_count + 1].type \notin type_id
  /\ Fails

LeftOver == fmt = <<>> /\ format_count # Len(args) /\ Fails

-----------------------------------------------------------------------------
(* ext__log_fmt and ext__log *)

\* write_prefix_to_buffer returns; ext__log_fmt takes Str__suffix(out, written),
\* which asserts that the prefix fits.
PrefixDone ==
  /\ at = "prefix" /\ fmt = <<>> /\ format_count = Len(args)
  /\ at' = CASE call.fn = "log" -> "values"
             [] call.fn = "log_fmt" /\ written <= BUF_SIZE -> "message"
             [] OTHER -> "assert"
  /\ total' = written /\ written' = 0 /\ format_count' = 0 /\ fmt' = call.fmt
  /\ out' = [data |-> written, end |-> out.end]
  /\ UNCHANGED <<call, buffer, fmt_try>>

MessageDone ==
  /\ at = "message" /\ fmt = <<>> /\ format_count = Len(args)
  /\ at' = "line" /\ total' = total + written /\ fmt_try' = written
  /\ UNCHANGED <<call, buffer, out, fmt, format_count, written>>

\* ext__log's loop over its values, with assert(fmt_try >= 0)
Value ==
  /\ at = "values" /\ format_count < Len(args) /\ args[format_count + 1].type \in type_id
  /\ LET text == any__fmt_any(args[format_count + 1]) IN
     Write(Smaller(total, BUF_SIZE), BUF_SIZE, text) /\ total' = total + Len(text)
  /\ format_count' = format_count + 1
  /\ UNCHANGED <<call, at, out, fmt, written, fmt_try>>

ValueFails ==
  /\ at = "values" /\ format_count < Len(args) /\ args[format_count + 1].type \notin type_id
  /\ at' = "assert"
  /\ UNCHANGED <<call, buffer, out, fmt, format_count, written, total, fmt_try>>

ValuesDone ==
  /\ at = "values" /\ format_count = Len(args)
  /\ at' = "line"
  /\ UNCHANGED <<call, buffer, out, fmt, format_count, written, total, fmt_try>>

\* A line longer than the buffer gets the mark.  What is sent is the first total
\* cells.
Line ==
  /\ at = "line" /\ at' = "sent"
  /\ IF total > BUF_SIZE
     THEN Write(BUF_SIZE - Len(Clip), BUF_SIZE, Clip) /\ total' = BUF_SIZE
     ELSE UNCHANGED <<buffer, total>>
  /\ UNCHANGED <<call, out, fmt, format_count, written, fmt_try>>

Init ==
  /\ call \in Calls
  /\ buffer = [k \in Cells |-> Stale]
  /\ at = "prefix" /\ fmt = prefix /\ out = [data |-> 0, end |-> BUF_SIZE]
  /\ format_count = 0 /\ written = 0 /\ total = 0 /\ fmt_try = 0

Done == at \in {"sent", "failed", "assert"} /\ UNCHANGED vars

Next ==
  \/ Literal \/ Percent \/ BadSpecifier \/ MissingArgument \/ Argument \/ ArgumentFails \/ LeftOver
  \/ PrefixDone \/ MessageDone \/ Value \/ ValueFails \/ ValuesDone \/ Line \/ Done

Spec == Init /\ [][Next]_vars

-----------------------------------------------------------------------------
(* What a call should do *)

\* A number in decimal: as many digits as it takes, each from its power of ten.
Decimal(n) ==
  LET length == CHOOSE l \in 1 .. n + 1 : n < 10 ^ l /\ (l = 1 \/ n >= 10 ^ (l - 1)) IN
  [i \in 1 .. length |-> digit[((n \div 10 ^ (length - i)) % 10) + 1]]

Meaning(v) ==
  CASE v.type = "u64" -> Decimal(v.num)
    [] v.type = "i64" -> IF v.num < 0 THEN <<"-">> \o Decimal(-v.num) ELSE Decimal(v.num)
    [] v.type = "char_ptr" /\ v.num = 0 -> <<>>
    [] v.type = "bool" -> IF v.num = 1 THEN <<"t", "r", "u", "e">> ELSE <<"f", "a", "l", "s", "e">>
    [] OTHER -> v.text

\* A % begins a specifier when an even number of % stands directly before it.
Opens(f) ==
  {p \in DOMAIN f :
     /\ f[p] = "%"
     /\ \E k \in 0 .. p - 1 :
          k % 2 = 0 /\ (\A i \in p - k .. p - 1 : f[i] = "%") /\ (k = p - 1 \/ f[p - k - 1] # "%")}

Places(f) == {p \in Opens(f) : p < Len(f) /\ f[p + 1] = "f"}

\* How many arguments come before place p
Before(f, p) == Cardinality({q \in Places(f) : q < p})

\* The places at which a format and its arguments do not agree
Wrong(f, values) ==
  {p \in Opens(f) :
     \/ p = Len(f) \/ f[p + 1] \notin {"%", "f"}
     \/ p \in Places(f) /\ (Before(f, p) >= Len(values) \/ values[Before(f, p) + 1].type \notin type_id)}

\* The parameter to complain of, or -1
Complaint(f, values) ==
  IF Wrong(f, values) # {} THEN Before(f, CHOOSE p \in Wrong(f, values) : \A q \in Wrong(f, values) : p <= q)
  ELSE IF Cardinality(Places(f)) < Len(values) THEN Cardinality(Places(f))
  ELSE -1

Message(f, values) ==
  FlattenSeq([p \in DOMAIN f |->
    CASE p \in Places(f) -> Meaning(values[Before(f, p) + 1])
      [] p \in Opens(f) \ Places(f) -> <<"%">>
      [] p - 1 \in Opens(f) -> <<>>
      [] OTHER -> <<f[p]>>])

Values(values) == FlattenSeq([i \in DOMAIN values |-> Meaning(values[i])])

Clipped(text) ==
  IF Len(text) <= BUF_SIZE THEN text ELSE SubSeq(text, 1, BUF_SIZE - Len(Clip)) \o Clip

-----------------------------------------------------------------------------
(* Properties *)

\* A call sends exactly the line its arguments mean, clipped to the buffer and free
\* of what an earlier line left there.  Otherwise it names the first parameter at
\* which format and arguments part, or stops at an assertion: ext__log only for a
\* value of no known type, ext__log_fmt only for a prefix longer than the buffer.
CallExact ==
  LET head == <<"[">> \o call.file \o <<":">> \o Decimal(call.line) \o <<"]", ":", " ">>
      known == \A i \in DOMAIN call.args : call.args[i].type \in type_id
      complaint == Complaint(call.fmt, call.args)
  IN /\ at = "sent" =>
          [i \in 1 .. total |-> buffer[i - 1]]
            = Clipped(head \o (IF call.fn = "log" THEN Values(call.args) ELSE Message(call.fmt, call.args)))
     /\ at = "failed" => -fmt_try - 1 = complaint
     /\ at = "sent" /\ call.fn = "log_fmt" => complaint = -1
     /\ at = "assert" => IF call.fn = "log" THEN ~known ELSE Len(head) > BUF_SIZE

\* A complaint is about one of the parameters, or the one missing behind them.
NamesParameter == at = "failed" => fmt_try \in -Len(call.args) - 1 .. -1

\* No call writes behind the buffer, whatever its file name, format and arguments.
InBuffer == \A k \in BUF_SIZE .. BUF_SIZE + Beyond - 1 : buffer[k] = Stale
=============================================================================
