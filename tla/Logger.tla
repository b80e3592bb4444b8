------------------------------- MODULE Logger -------------------------------
(***************************************************************************)
(* The kernel's logger (kern/__lib_impl__.c): ext__log and ext__log_fmt    *)
(* format a line into one shared buffer and send it, a character at a      *)
(* time, to the serial port, all under LoggingMutex, a spin lock that does *)
(* not know its owner.                                                     *)
(*                                                                         *)
(* A character is named by the call it comes from and by its place in the  *)
(* line.  Calls are numbered as they begin.  UseInterrupts is never set,   *)
(* so the early return on it is left out.  Waiting for the transmitter and *)
(* a compare-exchange that fails for no reason are stuttering steps.       *)
(***************************************************************************)
EXTENDS Integers, Sequences

CONSTANTS
  Cores,
  BufSize,    \* BUF_SIZE
  ClipSize,   \* length of "... [clipped]"
  Lengths,    \* how long formatted lines are, prefix included
  Malformed,  \* may any__fmt fail, because of a wrong number of arguments?
  MaxCalls    \* bound: how many calls are made altogether

ASSUME SizeAssumption == BufSize \in Nat \ {0} /\ ClipSize \in Nat /\ ClipSize <= BufSize
ASSUME LengthsAssumption == Lengths \subseteq Nat \ {0}
ASSUME MaxCallsAssumption == MaxCalls \in Nat
ASSUME MalformedAssumption == Malformed \in BOOLEAN

VARIABLES
  LoggingMutex,
  buffer,     \* [1 .. BufSize -> character]
  serial,     \* what the serial port has sent
  pc,         \* [core -> where it is]
  call,       \* [core -> the number of its call]
  written,    \* [core -> local written]
  sent,       \* [core -> local i of the loop around serial__write]
  nested,     \* [core -> is this the call that reports an error?]
  calls,      \* history: [call -> [length, bad]]
  halted      \* ext__shutdown has stopped the machine

line == <<pc, call, written, sent, nested>>
vars == <<LoggingMutex, buffer, serial, line, calls, halted>>

Character == [call : Nat, place : Nat \ {0}, clip : BOOLEAN]
Newline == [call |-> 0, place |-> 1, clip |-> FALSE]

\* Number of characters of a line that are sent.
Clipped(n) == IF n > BufSize THEN BufSize ELSE n

\* The characters of a line, the end of a long one replaced by the notice.
Text(k, n, i) ==
  [call |-> k, place |-> i, clip |-> n > BufSize /\ i > BufSize - ClipSize]

\* ext__log or ext__log_fmt is called; the line will be n long, or is malformed.
Log(c, n, bad) ==
  /\ ~halted /\ pc[c] = "idle" /\ Len(calls) < MaxCalls
  /\ pc' = [pc EXCEPT ![c] = "lock"]
  /\ calls' = Append(calls, [length |-> n, bad |-> bad])
  /\ call' = [call EXCEPT ![c] = Len(calls) + 1]
  /\ nested' = [nested EXCEPT ![c] = FALSE]
  /\ UNCHANGED <<LoggingMutex, buffer, serial, written, sent, halted>>

\* Mutant: the result of the compare-exchange is not looked at.
LockBlind(c) ==
  /\ ~halted /\ pc[c] = "lock"
  /\ LoggingMutex' = 1
  /\ pc' = [pc EXCEPT ![c] = "format"]
  /\ UNCHANGED <<buffer, serial, call, written, sent, nested, calls, halted>>

\* Mutex__try_lock succeeds
Lock(c) ==
  /\ ~halted /\ pc[c] = "lock" /\ LoggingMutex = 0
  /\ LoggingMutex' = 1
  /\ pc' = [pc EXCEPT ![c] = "format"]
  /\ UNCHANGED <<buffer, serial, call, written, sent, nested, calls, halted>>

\* while (!Mutex__try_lock(..)) pause()
Spin(c) == ~halted /\ pc[c] = "lock" /\ LoggingMutex = 1 /\ UNCHANGED vars

\* The line is put into the buffer and clipped to it.
Format(c) ==
  LET k == call[c]
      n == calls[k].length
  IN
  /\ ~halted /\ pc[c] = "format" /\ ~calls[k].bad
  /\ buffer' = [i \in 1 .. BufSize |-> IF i <= Clipped(n) THEN Text(k, n, i) ELSE buffer[i]]
  /\ written' = [written EXCEPT ![c] = Clipped(n)]
  /\ sent' = [sent EXCEPT ![c] = 0]
  /\ pc' = [pc EXCEPT ![c] = "send"]
  /\ UNCHANGED <<LoggingMutex, serial, call, nested, calls, halted>>

\* any__fmt fails (fmt_try < 0): what went wrong is logged by a call of
\* ext__log_fmt from within, with the mutex held, after which the kernel exits.
FormatFails(c, n) ==
  /\ ~halted /\ pc[c] = "format" /\ calls[call[c]].bad
  /\ pc' = [pc EXCEPT ![c] = "lock"]
  /\ calls' = Append(calls, [length |-> n, bad |-> FALSE])
  /\ call' = [call EXCEPT ![c] = Len(calls) + 1]
  /\ nested' = [nested EXCEPT ![c] = TRUE]
  /\ UNCHANGED <<LoggingMutex, buffer, serial, written, sent, halted>>

\* serial__write(buffer[i])
Send(c) ==
  /\ ~halted /\ pc[c] = "send" /\ sent[c] < written[c]
  /\ serial' = Append(serial, buffer[sent[c] + 1])
  /\ sent' = [sent EXCEPT ![c] = @ + 1]
  /\ UNCHANGED <<LoggingMutex, buffer, pc, call, written, nested, calls, halted>>

\* serial__write('\n')
SendNewline(c) ==
  /\ ~halted /\ pc[c] = "send" /\ sent[c] = written[c]
  /\ serial' = Append(serial, Newline)
  /\ pc' = [pc EXCEPT ![c] = "unlock"]
  /\ UNCHANGED <<LoggingMutex, buffer, call, written, sent, nested, calls, halted>>

\* Mutant: the mutex is never given back.
UnlockForgotten(c) ==
  /\ ~halted /\ pc[c] = "unlock"
  /\ pc' = [pc EXCEPT ![c] = "idle"]
  /\ halted' = nested[c]
  /\ UNCHANGED <<LoggingMutex, buffer, serial, call, written, sent, nested, calls>>

\* Mutex__unlock, and the call returns; the one that reports an error
\* returns to exit(1).
Unlock(c) ==
  /\ ~halted /\ pc[c] = "unlock"
  /\ LoggingMutex' = 0
  /\ pc' = [pc EXCEPT ![c] = "idle"]
  /\ halted' = nested[c]
  /\ UNCHANGED <<buffer, serial, call, written, sent, nested, calls>>

Init ==
  /\ LoggingMutex = 0
  /\ buffer = [i \in 1 .. BufSize |-> Newline] /\ serial = <<>>
  /\ pc = [c \in Cores |-> "idle"] /\ call = [c \in Cores |-> 0]
  /\ written = [c \in Cores |-> 0] /\ sent = [c \in Cores |-> 0]
  /\ nested = [c \in Cores |-> FALSE]
  /\ calls = <<>> /\ halted = FALSE

Step(c) == \/ Lock(c) \/ Spin(c) \/ Format(c) \/ Send(c) \/ SendNewline(c) \/ Unlock(c)
           \/ \E n \in Lengths : FormatFails(c, n)

\* Every call that is allowed has been made and has returned.
Rest ==
  /\ Len(calls) >= MaxCalls /\ \A c \in Cores : pc[c] = "idle"
  /\ UNCHANGED vars

Next ==
  \/ \E c \in Cores : \/ \E n \in Lengths, bad \in {FALSE, Malformed} : Log(c, n, bad)
                      \/ Step(c)
  \/ Rest

Spec == Init /\ [][Next]_vars

\* A core inside the logger keeps executing.
FairSpec == Spec /\ \A c \in Cores : WF_vars(Step(c))

-----------------------------------------------------------------------------
(* Properties *)

TypeOK ==
  /\ LoggingMutex \in {0, 1} /\ halted \in BOOLEAN
  /\ buffer \in [1 .. BufSize -> Character] /\ serial \in Seq(Character)
  /\ pc \in [Cores -> {"idle", "lock", "format", "send", "unlock"}]
  /\ call \in [Cores -> Nat] /\ written \in [Cores -> Nat] /\ sent \in [Cores -> Nat]
  /\ nested \in [Cores -> BOOLEAN]
  /\ calls \in Seq([length : Nat \ {0}, bad : BOOLEAN])
  /\ \A c \in Cores : pc[c] # "idle" => call[c] \in 1 .. Len(calls)

\* What may follow what on the serial port: a line is sent from its first to its
\* last character without a character of another line in between.
Follows(x, y) ==
  IF x = Newline THEN y.place = 1 /\ y # Newline
  ELSE \/ y.call = x.call /\ y.place = x.place + 1
       \/ y = Newline /\ x.place = Clipped(calls[x.call].length)

\* Lines arrive whole, whatever cores log at the same time, and long ones carry
\* the notice at their end.
LinesWhole ==
  /\ Len(serial) > 0 => serial[1].place = 1
  /\ \A i \in 1 .. Len(serial) - 1 : Follows(serial[i], serial[i + 1])
  /\ \A i \in 1 .. Len(serial) :
       LET x == serial[i]
       IN x # Newline => x = Text(x.call, calls[x.call].length, x.place)

\* The mutex is taken as long as a core is between Mutex__try_lock and
\* Mutex__unlock, also while it waits in the nested call.
Owns(c) == pc[c] \in {"format", "send", "unlock"} \/ (pc[c] = "lock" /\ nested[c])

MutexInv ==
  /\ \A c \in Cores : Owns(c) => LoggingMutex = 1
  /\ \A c, d \in Cores : Owns(c) /\ Owns(d) => c = d

\* A line has been sent as far as its core has counted, and the buffer still
\* holds it.
Sending(c) ==
  LET k == call[c]
      n == calls[k].length
  IN /\ written[c] = Clipped(n) /\ sent[c] <= written[c]
     /\ \A i \in 1 .. written[c] : buffer[i] = Text(k, n, i)
     /\ sent[c] > 0 => Len(serial) > 0 /\ serial[Len(serial)] = Text(k, n, sent[c])

\* Between two lines the last character sent is a newline.
BetweenLines ==
  (\A c \in Cores : pc[c] = "send" => sent[c] = 0) /\ Len(serial) > 0
     => serial[Len(serial)] = Newline

SendInv == (\A c \in Cores : pc[c] = "send" => Sending(c)) /\ BetweenLines

\* Every character on the serial port belongs to a call that was made.
SerialInv ==
  \A i \in 1 .. Len(serial) : serial[i] = Newline \/ serial[i].call \in 1 .. Len(calls)

\* What makes LinesWhole inductive.
IndInv == TypeOK /\ MutexInv /\ SendInv /\ SerialInv /\ LinesWhole

\* Every call of the logger returns once the other cores leave it in peace, as
\* long as nobody makes a malformed one.
CallsReturn ==
  \A c \in Cores : pc[c] # "idle" ~> pc[c] = "idle" \/ \E k \in DOMAIN calls : calls[k].bad

\* A malformed call ends with the shutdown of the machine, as the code after it
\* means to.
ErrorShutsDown == (\E c \in Cores : nested[c]) ~> halted
=============================================================================
