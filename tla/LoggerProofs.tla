---------------------------- MODULE LoggerProofs ----------------------------
(***************************************************************************)
(* Proofs about Logger, for any number of cores, any size of the buffer,   *)
(* any lengths of lines and any number of calls, malformed ones included.  *)
(***************************************************************************)
EXTENDS Logger, TLAPS

CallRecord == [length : Nat \ {0}, bad : BOOLEAN]

\* The invariant holds before anybody has logged.
LEMMA InitInd == Init => IndInv
<1> SUFFICES ASSUME Init PROVE IndInv
  OBVIOUS
<1> USE SizeAssumption DEF Init
<1>1. TypeOK
  <2>1. Newline \in Character BY DEF Newline, Character
  <2>2. buffer \in [1 .. BufSize -> Character] BY <2>1
  <2>3. serial \in Seq(Character) /\ calls \in Seq([length : Nat \ {0}, bad : BOOLEAN])
    OBVIOUS
  <2>4. nested \in [Cores -> BOOLEAN] /\ halted \in BOOLEAN OBVIOUS
  <2>5. /\ pc \in [Cores -> {"idle", "lock", "format", "send", "unlock"}]
        /\ \A c \in Cores : pc[c] # "idle" => call[c] \in 1 .. Len(calls)
    OBVIOUS
  <2>6. call \in [Cores -> Nat] /\ written \in [Cores -> Nat] /\ sent \in [Cores -> Nat]
    OBVIOUS
  <2> QED BY <2>2, <2>3, <2>4, <2>5, <2>6 DEF TypeOK
<1>2. MutexInv BY DEF MutexInv, Owns
<1>3. SendInv BY DEF SendInv, BetweenLines
<1>4. SerialInv BY DEF SerialInv
<1>5. LinesWhole BY DEF LinesWhole
<1> QED BY <1>1, <1>2, <1>3, <1>4, <1>5 DEF IndInv

\* A new call leaves the earlier ones as they were.
LEMMA CallsAppended ==
  ASSUME TypeOK, NEW r \in CallRecord, calls' = Append(calls, r)
  PROVE  /\ calls' \in Seq(CallRecord) /\ Len(calls') = Len(calls) + 1
         /\ \A k \in 1 .. Len(calls) : calls'[k] = calls[k]
         /\ calls'[Len(calls) + 1] = r
  BY DEF TypeOK, CallRecord

\* The lines on the serial port do not change when a call begins.
LEMMA LinesKept ==
  ASSUME IndInv, NEW r \in CallRecord, calls' = Append(calls, r), serial' = serial
  PROVE  SerialInv' /\ LinesWhole'
<1> USE DEF IndInv
<1>1. /\ Len(calls') = Len(calls) + 1 /\ Len(calls) \in Nat /\ Len(serial) \in Nat
      /\ \A k \in 1 .. Len(calls) : calls'[k] = calls[k]
  BY CallsAppended DEF TypeOK
<1>2. \A i \in 1 .. Len(serial) : serial[i] \in Character
  BY DEF TypeOK
<1>3. SerialInv' BY <1>1 DEF SerialInv, Newline
<1>4. \A i \in 1 .. Len(serial) : serial[i] # Newline => calls'[serial[i].call] = calls[serial[i].call]
  BY <1>1 DEF SerialInv
<1>5. \A i \in 1 .. Len(serial) - 1 : Follows(serial[i], serial[i + 1])'
  <2> SUFFICES ASSUME NEW i \in 1 .. Len(serial) - 1
               PROVE  Follows(serial[i], serial[i + 1])'
    OBVIOUS
  <2>1. Follows(serial[i], serial[i + 1]) BY DEF LinesWhole
  <2>2. i \in 1 .. Len(serial) BY <1>1
  <2> QED BY <1>4, <2>1, <2>2 DEF Follows, Newline, Clipped
<1>6. \A i \in 1 .. Len(serial) : serial[i] # Newline
        => serial[i] = Text(serial[i].call, calls'[serial[i].call].length, serial[i].place)
  BY <1>4 DEF LinesWhole
<1>7. Len(serial) > 0 => serial[1].place = 1 BY DEF LinesWhole
<1>8. LinesWhole' BY <1>5, <1>6, <1>7 DEF LinesWhole, Newline, Text
<1> QED BY <1>3, <1>8

\* A step that sends nothing and begins no call leaves the lines as they are.
LEMMA LinesSame ==
  ASSUME SerialInv, LinesWhole, UNCHANGED <<serial, calls>>
  PROVE  SerialInv' /\ LinesWhole'
  BY DEF SerialInv, LinesWhole, Follows, Text, Clipped, Newline

\* A step of a core that begins a call, from outside or within another one.
LEMMA BeginInd ==
  ASSUME IndInv, NEW c \in Cores, NEW r \in CallRecord, pc[c] # "send",
         Owns(c) <=> Owns(c)',
         pc' = [pc EXCEPT ![c] = "lock"], calls' = Append(calls, r),
         call' = [call EXCEPT ![c] = Len(calls) + 1],
         nested' \in [Cores -> BOOLEAN], \A d \in Cores \ {c} : nested'[d] = nested[d],
         UNCHANGED <<LoggingMutex, buffer, serial, written, sent, halted>>
  PROVE  IndInv'
<1> USE DEF IndInv
<1>1. SerialInv' /\ LinesWhole' BY LinesKept
<1>2. /\ calls' \in Seq(CallRecord) /\ Len(calls') = Len(calls) + 1 /\ Len(calls) \in Nat
      /\ \A k \in 1 .. Len(calls) : calls'[k] = calls[k]
  BY CallsAppended DEF TypeOK
<1>3. TypeOK'
  <2>1. call' \in [Cores -> Nat] BY <1>2 DEF TypeOK
  <2>2. pc' \in [Cores -> {"idle", "lock", "format", "send", "unlock"}] BY DEF TypeOK
  <2>3. \A d \in Cores : pc'[d] # "idle" => call'[d] \in 1 .. Len(calls')
    BY <1>2 DEF TypeOK
  <2> QED BY <1>2, <2>1, <2>2, <2>3 DEF TypeOK, CallRecord
<1>4. MutexInv'
  <2>1. \A d \in Cores : Owns(d)' <=> Owns(d)
    BY DEF TypeOK, Owns
  <2> QED BY <2>1 DEF MutexInv
<1>5. SendInv'
  <2>1. \A d \in Cores : pc'[d] = "send" <=> pc[d] = "send" BY DEF TypeOK
  <2>2. \A d \in Cores : pc[d] = "send" => call'[d] = call[d] /\ calls'[call[d]] = calls[call[d]]
    BY <1>2 DEF TypeOK
  <2>3. ASSUME NEW d \in Cores, pc'[d] = "send" PROVE Sending(d)'
    <3>1. Sending(d) BY <2>1, <2>3 DEF SendInv
    <3> QED BY <2>1, <2>2, <2>3, <3>1 DEF Sending, Text, Clipped
  <2>4. BetweenLines' BY <2>1 DEF SendInv, BetweenLines, Newline
  <2> QED BY <2>3, <2>4 DEF SendInv
<1> QED BY <1>1, <1>3, <1>4, <1>5

\* One more character on the serial port.
LEMMA LinesGrow ==
  ASSUME TypeOK, SerialInv, LinesWhole, NEW x \in Character,
         serial' = Append(serial, x), calls' = calls,
         Len(serial) > 0 => Follows(serial[Len(serial)], x),
         Len(serial) = 0 => x.place = 1,
         \/ x = Newline
         \/ x.call \in 1 .. Len(calls) /\ x = Text(x.call, calls[x.call].length, x.place)
  PROVE  SerialInv' /\ LinesWhole'
<1>1. /\ Len(serial') = Len(serial) + 1 /\ Len(serial) \in Nat
      /\ \A i \in 1 .. Len(serial) : serial'[i] = serial[i]
      /\ serial'[Len(serial) + 1] = x
  BY DEF TypeOK
<1>2. SerialInv'
  <2> SUFFICES ASSUME NEW i \in 1 .. Len(serial')
               PROVE  serial'[i] = Newline \/ serial'[i].call \in 1 .. Len(calls)
    BY DEF SerialInv, Newline
  <2>1. CASE i \in 1 .. Len(serial) BY <1>1, <2>1 DEF SerialInv
  <2>2. CASE i = Len(serial) + 1 BY <1>1, <2>2
  <2> QED BY <1>1, <2>1, <2>2
<1>3. \A i \in 1 .. Len(serial') - 1 : Follows(serial[i], serial'[i + 1])
  <2> SUFFICES ASSUME NEW i \in 1 .. Len(serial) PROVE Follows(serial[i], serial'[i + 1])
    BY <1>1
  <2>1. CASE i = Len(serial) BY <1>1, <2>1
  <2>2. CASE i # Len(serial)
    <3>1. i \in 1 .. Len(serial) - 1 /\ i + 1 \in 1 .. Len(serial) BY <1>1, <2>2
    <3> QED BY <1>1, <3>1 DEF LinesWhole
  <2> QED BY <2>1, <2>2
<1>4. \A i \in 1 .. Len(serial') - 1 : Follows(serial[i], serial[i + 1])'
  BY <1>1, <1>3 DEF Follows, Clipped, Newline
<1>5. \A i \in 1 .. Len(serial') : serial'[i] # Newline
        => serial'[i] = Text(serial'[i].call, calls[serial'[i].call].length, serial'[i].place)
  BY <1>1 DEF LinesWhole
<1>6. Len(serial') > 0 => serial'[1].place = 1
  <2>1. CASE Len(serial) = 0 BY <1>1, <2>1
  <2>2. CASE Len(serial) > 0 BY <1>1, <2>2 DEF LinesWhole
  <2> QED BY <1>1, <2>1, <2>2
<1>7. LinesWhole' BY <1>4, <1>5, <1>6 DEF LinesWhole, Text, Newline
<1> QED BY <1>2, <1>7

\* A core inside the logger has a call, whose length is known.
LEMMA InCall ==
  ASSUME TypeOK, NEW c \in Cores, pc[c] # "idle"
  PROVE  /\ call[c] \in Nat /\ call[c] \in 1 .. Len(calls)
         /\ calls[call[c]].length \in Nat \ {0}
         /\ sent[c] \in Nat /\ written[c] \in Nat
<1>1. call[c] \in Nat /\ call[c] \in 1 .. Len(calls) BY DEF TypeOK
<1>2. calls[call[c]] \in CallRecord
  <2>1. calls \in Seq(CallRecord) BY DEF TypeOK, CallRecord
  <2> QED BY <1>1, <2>1
<1>3. sent[c] \in Nat /\ written[c] \in Nat BY DEF TypeOK
<1> QED BY <1>1, <1>2, <1>3 DEF CallRecord

\* Mutex__try_lock succeeds only when nobody owns the mutex, so its core
\* becomes the one owner.
LEMMA LockInd ==
  ASSUME IndInv, NEW c \in Cores, Lock(c) PROVE IndInv'
<1> USE DEF IndInv, Lock
<1>1. SerialInv' /\ LinesWhole' BY LinesSame
<1>2. TypeOK' BY DEF TypeOK
<1>3. MutexInv'
  <2>1. \A d \in Cores \ {c} : ~Owns(d)' BY DEF TypeOK, MutexInv, Owns
  <2> QED BY <2>1 DEF MutexInv
<1>4. SendInv'
  <2>1. \A d \in Cores : pc'[d] # "send" BY DEF TypeOK, MutexInv, Owns
  <2>2. \A d \in Cores : pc[d] # "send" BY DEF MutexInv, Owns
  <2> QED BY <2>1, <2>2 DEF SendInv, BetweenLines, Newline
<1> QED BY <1>1, <1>2, <1>3, <1>4

\* Formatting overwrites the buffer, which no other core is sending from.
LEMMA FormatInd ==
  ASSUME IndInv, NEW c \in Cores, Format(c) PROVE IndInv'
<1> USE DEF IndInv, Format
<1> DEFINE k == call[c]
           n == calls[k].length
<1>1. SerialInv' /\ LinesWhole' BY LinesSame
<1>2. k \in Nat /\ k \in 1 .. Len(calls) /\ n \in Nat \ {0} BY InCall
<1>3. Clipped(n) \in 0 .. BufSize BY <1>2, SizeAssumption DEF Clipped
<1>4. TypeOK'
  <2>1. \A i \in 1 .. BufSize : Text(k, n, i) \in Character
    BY <1>2, SizeAssumption DEF Text, Character
  <2>2. buffer' \in [1 .. BufSize -> Character] BY <2>1 DEF TypeOK
  <2>3. written' \in [Cores -> Nat] /\ sent' \in [Cores -> Nat] BY <1>3 DEF TypeOK
  <2> QED BY <2>2, <2>3 DEF TypeOK
<1>5. MutexInv'
  <2>1. \A d \in Cores : Owns(d)' <=> Owns(d) BY DEF TypeOK, Owns
  <2> QED BY <2>1 DEF MutexInv
<1>6. \A d \in Cores \ {c} : pc[d] # "send" /\ pc'[d] # "send"
  BY DEF TypeOK, MutexInv, Owns
<1>7. Sending(c)'
  <2>1. written'[c] = Clipped(n) /\ sent'[c] = 0 /\ call'[c] = k /\ calls' = calls BY DEF TypeOK
  <2>2. \A i \in 1 .. Clipped(n) : buffer'[i] = Text(k, n, i) BY <1>3, SizeAssumption
  <2> QED BY <1>3, <2>1, <2>2 DEF Sending, Clipped, Text
<1>8. BetweenLines'
  BY <1>6 DEF TypeOK, SendInv, BetweenLines, Newline
<1> QED BY <1>1, <1>4, <1>5, <1>6, <1>7, <1>8 DEF SendInv

\* serial__write sends the character that has to follow the last one.
LEMMA SendInd ==
  ASSUME IndInv, NEW c \in Cores, Send(c) PROVE IndInv'
<1> USE DEF IndInv, Send
<1> DEFINE k == call[c]
           n == calls[k].length
           x == Text(k, n, sent[c] + 1)
<1>1. k \in Nat /\ k \in 1 .. Len(calls) /\ n \in Nat \ {0} /\ sent[c] \in Nat /\ written[c] \in Nat
  BY InCall
<1>2. Sending(c) BY DEF SendInv
<1>3. buffer[sent[c] + 1] = x BY <1>1, <1>2 DEF Sending
<1>4. x \in Character BY <1>1, SizeAssumption DEF Text, Character
<1>5. \A d \in Cores \ {c} : pc[d] # "send" BY DEF MutexInv, Owns
<1>6. Len(serial) \in Nat /\ Len(serial') = Len(serial) + 1 /\ serial'[Len(serial) + 1] = x
  BY <1>3, <1>4 DEF TypeOK
<1>7. Len(serial) > 0 => Follows(serial[Len(serial)], x)
  <2>1. CASE sent[c] = 0
    <3>1. Len(serial) > 0 => serial[Len(serial)] = Newline
      BY <1>5, <2>1 DEF SendInv, BetweenLines
    <3> QED BY <1>1, <2>1, <3>1 DEF Follows, Text, Newline
  <2>2. CASE sent[c] > 0
    <3>1. serial[Len(serial)] = Text(k, n, sent[c]) BY <1>2, <2>2 DEF Sending
    <3> QED BY <1>1, <3>1 DEF Follows, Text, Newline
  <2> QED BY <1>1, <2>1, <2>2
<1>8. Len(serial) = 0 => x.place = 1
  BY <1>1, <1>2 DEF Sending, Text
<1>9. x.call \in 1 .. Len(calls) /\ x = Text(x.call, calls[x.call].length, x.place)
  BY <1>1 DEF Text
<1>10. SerialInv' /\ LinesWhole'
  BY <1>3, <1>4, <1>7, <1>8, <1>9, LinesGrow
<1>11. TypeOK' BY <1>1, <1>3, <1>4 DEF TypeOK
<1>12. MutexInv' BY DEF MutexInv, Owns
<1>13. Sending(c)'
  BY <1>1, <1>2, <1>6 DEF TypeOK, Sending, Clipped, Text
<1>14. BetweenLines' BY <1>1 DEF TypeOK, BetweenLines
<1> QED BY <1>5, <1>10, <1>11, <1>12, <1>13, <1>14 DEF SendInv

\* The newline is sent when the whole line has been.
LEMMA SendNewlineInd ==
  ASSUME IndInv, NEW c \in Cores, SendNewline(c) PROVE IndInv'
<1> USE DEF IndInv, SendNewline
<1> DEFINE k == call[c]
           n == calls[k].length
<1>1. k \in Nat /\ k \in 1 .. Len(calls) /\ n \in Nat \ {0} /\ sent[c] \in Nat /\ written[c] \in Nat
  BY InCall
<1>2. Sending(c) BY DEF SendInv
<1>3. sent[c] = Clipped(n) /\ sent[c] > 0
  BY <1>1, <1>2, SizeAssumption DEF Sending, Clipped
<1>4. Len(serial) > 0 /\ serial[Len(serial)] = Text(k, n, sent[c]) BY <1>2, <1>3 DEF Sending
<1>5. Newline \in Character BY DEF Newline, Character
<1>6. Follows(serial[Len(serial)], Newline)
  BY <1>1, <1>3, <1>4 DEF Follows, Text, Newline
<1>7. SerialInv' /\ LinesWhole'
  BY <1>4, <1>5, <1>6, LinesGrow
<1>8. TypeOK' BY <1>5 DEF TypeOK
<1>9. MutexInv'
  <2>1. \A d \in Cores : Owns(d)' <=> Owns(d) BY DEF TypeOK, Owns
  <2> QED BY <2>1 DEF MutexInv
<1>10. \A d \in Cores : pc'[d] # "send" BY DEF TypeOK, MutexInv, Owns
<1>11. serial'[Len(serial')] = Newline BY <1>5 DEF TypeOK
<1> QED BY <1>7, <1>8, <1>9, <1>10, <1>11 DEF SendInv, BetweenLines, Newline

\* Mutex__unlock is called between two lines, by the owner.
LEMMA UnlockInd ==
  ASSUME IndInv, NEW c \in Cores, Unlock(c) PROVE IndInv'
<1> USE DEF IndInv, Unlock
<1>1. SerialInv' /\ LinesWhole' BY LinesSame
<1>2. TypeOK'
  <2>1. halted' \in BOOLEAN BY DEF TypeOK
  <2>2. pc' \in [Cores -> {"idle", "lock", "format", "send", "unlock"}] BY DEF TypeOK
  <2>3. \A d \in Cores : pc'[d] # "idle" => call'[d] \in 1 .. Len(calls') BY DEF TypeOK
  <2> QED BY <2>1, <2>2, <2>3 DEF TypeOK
<1>3. MutexInv'
  <2>1. \A d \in Cores : ~Owns(d)' BY DEF TypeOK, MutexInv, Owns
  <2> QED BY <2>1 DEF MutexInv
<1>4. SendInv'
  <2>1. \A d \in Cores : pc'[d] # "send" /\ pc[d] # "send" BY DEF TypeOK, MutexInv, Owns
  <2> QED BY <2>1 DEF SendInv, BetweenLines, Newline
<1> QED BY <1>1, <1>2, <1>3, <1>4

\* Every step of the logger on any core keeps the invariant.
LEMMA NextInd == IndInv /\ [Next]_vars => IndInv'
<1> SUFFICES ASSUME IndInv, [Next]_vars PROVE IndInv'
  OBVIOUS
<1>1. ASSUME NEW c \in Cores, NEW n \in Lengths, NEW bad \in {FALSE, Malformed}, Log(c, n, bad)
      PROVE  IndInv'
  <2>1. [length |-> n, bad |-> bad] \in CallRecord
    BY LengthsAssumption, MalformedAssumption DEF CallRecord
  <2>2. Owns(c) <=> Owns(c)' BY <1>1 DEF IndInv, TypeOK, Owns, Log
  <2>3. nested' \in [Cores -> BOOLEAN] /\ \A d \in Cores \ {c} : nested'[d] = nested[d]
    BY <1>1 DEF IndInv, TypeOK, Log
  <2> QED BY <1>1, <2>1, <2>2, <2>3, BeginInd DEF Log
<1>2. ASSUME NEW c \in Cores, NEW n \in Lengths, FormatFails(c, n) PROVE IndInv'
  <2>1. [length |-> n, bad |-> FALSE] \in CallRecord
    BY LengthsAssumption DEF CallRecord
  <2>2. Owns(c) <=> Owns(c)' BY <1>2 DEF IndInv, TypeOK, Owns, FormatFails
  <2>3. nested' \in [Cores -> BOOLEAN] /\ \A d \in Cores \ {c} : nested'[d] = nested[d]
    BY <1>2 DEF IndInv, TypeOK, FormatFails
  <2> QED BY <1>2, <2>1, <2>2, <2>3, BeginInd DEF FormatFails
<1>3. ASSUME UNCHANGED vars PROVE IndInv'
  <2>1. UNCHANGED <<LoggingMutex, buffer, serial, pc, call, written, sent, nested, calls, halted>>
    BY <1>3 DEF vars, line
  <2>2. SerialInv' /\ LinesWhole' BY <2>1, LinesSame DEF IndInv
  <2>3. TypeOK' BY <2>1 DEF IndInv, TypeOK, Character
  <2>4. MutexInv' BY <2>1 DEF IndInv, MutexInv, Owns
  <2>5. SendInv' BY <2>1 DEF IndInv, SendInv, Sending, BetweenLines, Text, Clipped, Newline
  <2> QED BY <2>2, <2>3, <2>4, <2>5 DEF IndInv
<1>4. ASSUME NEW c \in Cores, Step(c) PROVE IndInv'
  BY <1>2, <1>3, <1>4, LockInd, FormatInd, SendInd, SendNewlineInd, UnlockInd DEF Step, Spin
<1> QED BY <1>1, <1>3, <1>4 DEF Next, Rest

\* The inductive invariant: the mutex has one owner at a time, the owner's line
\* is in the buffer and is sent in order.
THEOREM Inductive == Spec => []IndInv
  BY InitInd, NextInd, PTL DEF Spec

\* Lines reach the serial port whole and in order, for any number of cores that
\* call ext__log and ext__log_fmt at the same time.
THEOREM SentWhole == Spec => []LinesWhole
<1>1. IndInv => LinesWhole BY DEF IndInv
<1> QED BY <1>1, Inductive, PTL
=============================================================================
