------------------------ MODULE LedControllerProofs --------------------------
(***************************************************************************)
(* Proofs about LedController, for any number of LEDs, any numbers in the  *)
(* requests and any number of requests.                                    *)
(***************************************************************************)
EXTENDS LedController, SequenceTheorems, TLAPS

\* The characters of the digits, and the values of those a request may end with.
LEMMA DigitFacts ==
  /\ DOMAIN Digit = {"0", "1", "2", "3", "4", "5", "6", "7", "8", "9"}
  /\ Digit["0"] = 0 /\ Digit["1"] = 1 /\ Digit["2"] = 2
  BY DEF Digit

\* The range of an update's value.
LEMMA ValueRange == ASSUME NEW c PROVE Value(c) \in 0..2
  BY DEF Value

\* A block asks for updates with a value of 0, 1 or 2 only.
LEMMA UpdateValues == ASSUME NEW b, NEW u \in Updates(b) PROVE u[2] \in 0..2
  BY ValueRange DEF Updates

\* The bytes of a request are characters the reader knows.
LEMMA RequestType ==
  ASSUME NEW number \in Numbers, NEW value \in {"0", "1", "2"}
  PROVE  Request(number, value) \in Seq(Char)
<1>1. number \in Seq(Char)
  BY LedAssumption DEF Char
<1>2. <<"#">> \in Seq(Char) /\ <<"~", value, "!">> \in Seq(Char)
  BY DigitFacts DEF Char
<1> QED BY <1>1, <1>2 DEF Request

\* What Led_Controller does to the shared table, for the parts of the state the
\* invariants are about.
LEMMA ControllerStep ==
  ASSUME Led_Controller
  PROVE  /\ UNCHANGED <<proc, pin, sent, crowded>>
         /\ \/ UNCHANGED <<GPIO, wanted, raced>>
            \/ \E n \in Led, v \in 0..2 :
                  /\ GPIO' = [GPIO EXCEPT ![n].state = v]
                  /\ wanted' = [wanted EXCEPT ![n] = v]
                  /\ raced' = [raced EXCEPT ![n] = proc = [led |-> n, at |-> "DRIVEN"]]
<1>1. CASE UNCHANGED <<GPIO, wanted, raced, received>>
  BY <1>1 DEF Led_Controller
<1>2. ASSUME NEW u \in Updates(led_fifo_buff'), update_structure(gpio_number(u[1]), u[2])
      PROVE  \/ UNCHANGED <<GPIO, wanted, raced>>
             \/ \E n \in Led, v \in 0..2 :
                  /\ GPIO' = [GPIO EXCEPT ![n].state = v]
                  /\ wanted' = [wanted EXCEPT ![n] = v]
                  /\ raced' = [raced EXCEPT ![n] = proc = [led |-> n, at |-> "DRIVEN"]]
  <2> DEFINE n == gpio_number(u[1])
  <2>1. u[2] \in 0..2
    BY UpdateValues
  <2>2. update_structure(n, u[2])
    BY <1>2
  <2> HIDE DEF n
  <2> QED BY <2>1, <2>2 DEF update_structure
<1> QED BY <1>1, <1>2 DEF Led_Controller

\* The part of the type invariant the shared table needs.
TableType ==
    /\ GPIO \in [Led -> [state : {0, 1, 2, EXECUTED}, flag : {0, 1}]]
    /\ proc \in [led : Led, at : {"ON", "OFF", "DRIVEN", "TOGGLE"}]
    /\ pin \in [Led -> {0, 1, Undriven}]
    /\ wanted \in [Led -> 0..2] /\ raced \in [Led -> BOOLEAN] /\ crowded \in BOOLEAN

\* The part about the pipe and the buffer.
BytesType ==
    /\ fifo \in Seq(Char)
    /\ led_fifo_buff \in [0..(DATA_LENGTH - 1) -> Char \cup {"NUL"}]
    /\ behind \in Leftovers

USE DEF EXECUTED, Undriven

\* A toggling LED gets the level of its flag, and nothing else is touched: its
\* state stays 2, and so do the states of the others.
LEMMA ToggleStep ==
  ASSUME TableType, TestToggle
  PROVE  /\ GPIO' \in [Led -> [state : {0, 1, 2, EXECUTED}, flag : {0, 1}]]
         /\ \A i \in Led : GPIO'[i].state = GPIO[i].state
         /\ pin' \in [Led -> {0, 1, Undriven}]
         /\ \A i \in Led : GPIO[i].state # 2 => pin'[i] = pin[i]
<1>1. proc.led \in Led /\ GPIO[proc.led].flag \in {0, 1}
  BY DEF TableType
<1>2. CASE GPIO[proc.led].state = 2
  <2>1. pin' = [pin EXCEPT ![proc.led] = GPIO[proc.led].flag]
    BY <1>2 DEF TestToggle, Drive, state
  <2>2. GPIO' = [GPIO EXCEPT ![proc.led].flag = 1 - GPIO[proc.led].flag]
    BY <1>2 DEF TestToggle, Toggled, state
  <2>3. 1 - GPIO[proc.led].flag \in {0, 1}
    BY <1>1
  <2> QED BY <1>1, <1>2, <2>1, <2>2, <2>3 DEF TableType
<1>3. CASE GPIO[proc.led].state # 2
  BY <1>3 DEF TestToggle, TableType, state
<1> QED BY <1>2, <1>3

\* A step of either thread or of a user keeps the table's types.
LEMMA TableTypeStep == TableType /\ [Next]_vars => TableType'
<1> SUFFICES ASSUME TableType, [Next]_vars PROVE TableType'
  OBVIOUS
<1> USE DEF TableType
<1>1. ASSUME NEW number, NEW value, led_manager(number, value) PROVE TableType'
  BY <1>1 DEF led_manager, Even
<1>2. CASE Led_Controller
  <2>1. CASE UNCHANGED <<GPIO, wanted, raced>>
    BY <1>2, <2>1, ControllerStep
  <2>2. ASSUME NEW n \in Led, NEW v \in 0..2,
               GPIO' = [GPIO EXCEPT ![n].state = v],
               wanted' = [wanted EXCEPT ![n] = v],
               raced' = [raced EXCEPT ![n] = proc = [led |-> n, at |-> "DRIVEN"]]
        PROVE TableType'
    <3>1. UNCHANGED <<proc, pin, crowded>>
      BY <1>2, ControllerStep
    <3>2. GPIO' \in [Led -> [state : {0, 1, 2, EXECUTED}, flag : {0, 1}]]
      BY <2>2
    <3>3. wanted' \in [Led -> 0..2] /\ raced' \in [Led -> BOOLEAN]
      BY <2>2
    <3> QED BY <3>1, <3>2, <3>3
  <2> QED BY <1>2, <2>1, <2>2, ControllerStep
<1>3. CASE TestOn
  BY <1>3 DEF TestOn, At, Step, Drive, state
<1>4. CASE TestOff
  BY <1>4 DEF TestOff, At, Step, Drive, state
<1>5. (proc.led + 1) % NUMBER_OF_LED \in Led /\ 0 \in Led
  BY LedAssumption DEF Led
<1>6. CASE MarkExecuted
  BY <1>5, <1>6 DEF MarkExecuted, Mark, At, NextLed
<1>7. CASE TestToggle
  BY <1>7, ToggleStep, <1>5 DEF TestToggle, At, NextLed
<1>8. CASE UNCHANGED vars
  BY <1>8 DEF vars
<1> QED BY <1>1, <1>2, <1>3, <1>4, <1>6, <1>7, <1>8 DEF Next, Led_Controller_Processing

\* So does the pipe.
LEMMA BytesTypeStep == BytesType /\ [Next]_vars => BytesType'
<1> SUFFICES ASSUME BytesType, [Next]_vars PROVE BytesType'
  OBVIOUS
<1> USE DEF BytesType
<1>1. ASSUME NEW number \in Numbers, NEW value \in {"0", "1", "2"}, led_manager(number, value)
      PROVE BytesType'
  BY <1>1, RequestType DEF led_manager
<1>2. CASE Led_Controller
  <2> DEFINE n == IF Len(fifo) < DATA_LENGTH THEN Len(fifo) ELSE DATA_LENGTH
  <2>1. n \in 0..Len(fifo) /\ n \in Nat
    BY DEF DATA_LENGTH
  <2>2. /\ led_fifo_buff' = Filled(led_fifo_buff, SubSeq(fifo, 1, n))
        /\ fifo' = SubSeq(fifo, n + 1, Len(fifo))
    BY <1>2 DEF Led_Controller
  <2> HIDE DEF n
  <2>3. SubSeq(fifo, 1, n) \in Seq(Char) /\ Len(SubSeq(fifo, 1, n)) = n
    BY <2>1
  <2>4. \A k \in 0..(DATA_LENGTH - 1) :
            k < n => SubSeq(fifo, 1, n)[k + 1] \in Char
    BY <2>1, <2>3 DEF DATA_LENGTH
  <2>5. fifo' \in Seq(Char)
    BY <2>1, <2>2
  <2>6. led_fifo_buff' \in [0..(DATA_LENGTH - 1) -> Char \cup {"NUL"}]
    BY <2>2, <2>3, <2>4 DEF Filled
  <2>7. behind' \in Leftovers
    BY <1>2 DEF Led_Controller
  <2> QED BY <2>5, <2>6, <2>7
<1>3. CASE Led_Controller_Processing
  BY <1>3 DEF Led_Controller_Processing, TestOn, TestOff, MarkExecuted, TestToggle, At
<1>4. CASE UNCHANGED vars
  BY <1>4 DEF vars
<1> QED BY <1>1, <1>2, <1>3, <1>4 DEF Next

\* Nothing has been asked for and nothing driven when the controller starts.
LEMMA InitType == Init => TableType /\ BytesType
<1>1. Init => TableType
  <2> SUFFICES ASSUME Init PROVE TableType
    OBVIOUS
  <2>1. 0 \in Led
    BY LedAssumption DEF Led
  <2>2. GPIO \in [Led -> [state : {0, 1, 2, EXECUTED}, flag : {0, 1}]]
    BY DEF Init
  <2>3. /\ proc \in [led : Led, at : {"ON", "OFF", "DRIVEN", "TOGGLE"}]
        /\ pin \in [Led -> {0, 1, Undriven}]
    BY <2>1 DEF Init
  <2>4. wanted \in [Led -> 0..2] /\ crowded \in BOOLEAN
    <3>1. wanted = [i \in Led |-> 0] /\ crowded = FALSE /\ 0 \in 0..2
      BY DEF Init
    <3> QED BY Zenon, <3>1
  <2>5. raced \in [Led -> BOOLEAN]
    <3>1. raced = [i \in Led |-> FALSE]
      BY DEF Init
    <3> QED BY Zenon, <3>1
  <2> QED BY <2>2, <2>3, <2>4, <2>5 DEF TableType
<1>2. Init => BytesType
  BY DEF Init, BytesType
<1> QED BY <1>1, <1>2

\* The table, the pins, the pipe and the buffer keep to their types.
THEOREM TypeCorrect == Spec => []TypeOK
<1>1. TypeOK <=> TableType /\ BytesType
  BY DEF TypeOK, TableType, BytesType
<1> QED BY <1>1, InitType, TableTypeStep, BytesTypeStep, PTL DEF Spec

-----------------------------------------------------------------------------
\* The strengthening: a state that is not marked is the level last asked for, and
\* between driving and marking the pin is at that level unless a request came.
Inv ==
    /\ TableType
    /\ \A i \in Led : GPIO[i].state # EXECUTED => GPIO[i].state = wanted[i]
    /\ proc.at = "DRIVEN" => raced[proc.led] \/ pin[proc.led] = wanted[proc.led]
    /\ ExecutedUnlessRaced

\* Every step keeps the invariant.
LEMMA InvStep == Inv /\ [Next]_vars => Inv'
<1> SUFFICES ASSUME Inv, [Next]_vars PROVE Inv'
  OBVIOUS
<1> USE DEF Inv, TableType, ExecutedUnlessRaced
<1>0. TableType'
  BY TableTypeStep
<1>1. ASSUME NEW number, NEW value, led_manager(number, value) PROVE Inv'
  BY <1>0, <1>1 DEF led_manager
<1>2. CASE Led_Controller
  <2>1. CASE UNCHANGED <<GPIO, wanted, raced>>
    BY <1>0, <1>2, <2>1, ControllerStep
  <2>2. ASSUME NEW n \in Led, NEW v \in 0..2,
               GPIO' = [GPIO EXCEPT ![n].state = v],
               wanted' = [wanted EXCEPT ![n] = v],
               raced' = [raced EXCEPT ![n] = proc = [led |-> n, at |-> "DRIVEN"]]
        PROVE Inv'
    <3>0. UNCHANGED <<proc, pin>>
      BY <1>2, ControllerStep
    <3>1. \A i \in Led : GPIO'[i].state # EXECUTED => GPIO'[i].state = wanted'[i]
      BY <2>2
    <3>2. proc'.at = "DRIVEN" => raced'[proc'.led] \/ pin'[proc'.led] = wanted'[proc'.led]
      BY <2>2, <3>0
    <3>3. ExecutedUnlessRaced'
      BY <2>2, <3>0
    <3> QED BY <1>0, <3>1, <3>2, <3>3
  <2> QED BY <1>2, <2>1, <2>2, ControllerStep
<1>3. CASE TestOn
  BY <1>0, <1>3 DEF TestOn, At, Step, Drive, state
<1>4. CASE TestOff
  BY <1>0, <1>4 DEF TestOff, At, Step, Drive, state
<1>5. CASE MarkExecuted
  BY <1>0, <1>5 DEF MarkExecuted, Mark, At, NextLed
<1>6. CASE TestToggle
  BY <1>0, <1>6, ToggleStep DEF TestToggle, At, NextLed
<1>7. CASE UNCHANGED vars
  BY <1>0, <1>7 DEF vars
<1> QED BY <1>1, <1>2, <1>3, <1>4, <1>5, <1>6, <1>7 DEF Next, Led_Controller_Processing

\* So it holds at every state.
LEMMA InvInvariant == Spec => []Inv
<1>1. Init => Inv
  <2> SUFFICES ASSUME Init PROVE Inv
    OBVIOUS
  <2>1. TableType
    BY InitType
  <2>2. \A i \in Led : GPIO[i].state = 0 /\ wanted[i] = 0
    BY DEF Init
  <2>3. proc.at # "DRIVEN"
    BY DEF Init
  <2> QED BY <2>1, <2>2, <2>3 DEF Inv, ExecutedUnlessRaced
<1> QED BY <1>1, InvStep, PTL DEF Spec

\* A state marked as executed was executed, unless a request came between the
\* driving of the pin and the mark.
THEOREM MarkedIsExecuted == Spec => []ExecutedUnlessRaced
<1>1. Inv => ExecutedUnlessRaced
  BY DEF Inv
<1> QED BY <1>1, InvInvariant, PTL
\* A level that was asked for, and no request has raced with, is reached or still in the
\* table, where Led_Controller_Processing finds it: none is forgotten on the way.
THEOREM LevelIsOnItsWay ==
    Spec => []\A i \in Led : raced[i] \/ pin[i] = wanted[i] \/ GPIO[i].state = wanted[i]
<1>1. Inv => \A i \in Led : raced[i] \/ pin[i] = wanted[i] \/ GPIO[i].state = wanted[i]
  BY DEF Inv, ExecutedUnlessRaced
<1> QED BY <1>1, InvInvariant, PTL

-----------------------------------------------------------------------------
(* Only what was asked for *)

Requests == (Seq(DOMAIN Digit) \ {<<>>}) \X (0..2)

\* The request r stands in the bytes s from k on.
StandsAt(r, s, k) ==
    LET L == Len(r[1]) IN
    /\ k + L + 3 <= Len(s)
    /\ s[k] = "#" /\ s[k + L + 1] = "~" /\ s[k + L + 3] = "!"
    /\ \A i \in 1..L : s[k + i] = r[1][i]
    /\ s[k + L + 2] \in {"0", "1", "2"} /\ r[2] = Value(s[k + L + 2])

\* The strengthening: wherever a request begins in the pipe, one that was made stands
\* whole.  (A block may begin in the middle of a request, but only with another byte.)
Whole(s, requests) ==
    \A k \in 1..Len(s) : s[k] = "#" => \E r \in requests : StandsAt(r, s, k)

Asked ==
    /\ BytesType
    /\ sent \in Seq(Requests) /\ received \in Seq(Requests)
    /\ Whole(fifo, Range(sent))
    /\ OnlyWhatWasAsked

\* What is in a queue when one message is added.
LEMMA RangeAppend ==
  ASSUME NEW S, NEW s \in Seq(S), NEW e \in S
  PROVE  Range(Append(s, e)) = Range(s) \cup {e}
<1>1. /\ Append(s, e) \in Seq(S) /\ Len(Append(s, e)) = Len(s) + 1
      /\ Append(s, e)[Len(s) + 1] = e
      /\ \A i \in 1..Len(s) : Append(s, e)[i] = s[i]
  BY AppendProperties
<1>2. Len(s) \in Nat /\ DOMAIN s = 1..Len(s) /\ DOMAIN Append(s, e) = 1..(Len(s) + 1)
  BY <1>1, LenProperties
<1> HIDE DEF Range
<1>3. ASSUME NEW x \in Range(Append(s, e)) PROVE x \in Range(s) \cup {e}
  BY <1>1, <1>2 DEF Range
<1>4. ASSUME NEW x \in Range(s) \cup {e} PROVE x \in Range(Append(s, e))
  BY <1>1, <1>2 DEF Range
<1> QED BY <1>3, <1>4

\* What a request is made of, byte by byte.
LEMMA RequestBytes ==
  ASSUME NEW number \in Numbers, NEW value \in {"0", "1", "2"}
  PROVE  LET q == Request(number, value)
             L == Len(number)
         IN  /\ L \in Nat /\ L >= 1 /\ Len(q) = L + 4
             /\ q[1] = "#" /\ q[L + 2] = "~" /\ q[L + 3] = value /\ q[L + 4] = "!"
             /\ \A i \in 1..L : q[1 + i] = number[i] /\ number[i] \in DOMAIN Digit
<1> DEFINE L == Len(number)
           a == <<"#">> \o number
           z == <<"~", value, "!">>
<1>1. number \in Seq(DOMAIN Digit) /\ number # <<>>
  BY LedAssumption
<1>2. L \in Nat /\ L >= 1 /\ \A i \in 1..L : number[i] \in DOMAIN Digit
  BY <1>1, LenProperties, EmptySeq
<1>3. number \in Seq(Char) /\ <<"#">> \in Seq(Char) /\ z \in Seq(Char)
  BY <1>1, DigitFacts DEF Char
<1>4. a \in Seq(Char) /\ Len(a) = L + 1 /\ a[1] = "#" /\ \A i \in 1..L : a[1 + i] = number[i]
  <2>1. /\ a \in Seq(Char) /\ Len(a) = Len(<<"#">>) + Len(number)
        /\ \A i \in 1..(Len(<<"#">>) + Len(number)) :
              a[i] = IF i <= Len(<<"#">>) THEN <<"#">>[i] ELSE number[i - Len(<<"#">>)]
    BY <1>3, ConcatProperties
  <2>2. Len(<<"#">>) = 1 /\ <<"#">>[1] = "#"
    OBVIOUS
  <2> HIDE DEF a
  <2> QED BY <2>1, <2>2, <1>2
<1>5. Len(z) = 3 /\ z[1] = "~" /\ z[2] = value /\ z[3] = "!"
  OBVIOUS
<1> DEFINE q == Request(number, value)
<1>6. q = a \o z
  BY DEF Request
<1> HIDE DEF a, z, q, L
<1>7. /\ Len(q) = Len(a) + Len(z)
      /\ \A i \in 1..(Len(a) + Len(z)) : q[i] = IF i <= Len(a) THEN a[i] ELSE z[i - Len(a)]
  BY <1>3, <1>4, <1>6, ConcatProperties
<1>8. /\ Len(q) = L + 4 /\ q[1] = "#" /\ q[L + 2] = "~" /\ q[L + 3] = value /\ q[L + 4] = "!"
      /\ \A i \in 1..L : q[1 + i] = number[i]
  BY <1>2, <1>4, <1>5, <1>7
<1> QED BY <1>2, <1>8 DEF q, L

\* The number of a request is one digit or more.
LEMMA RequestNumber ==
  ASSUME NEW p \in Requests
  PROVE  /\ p[1] \in Seq(DOMAIN Digit) /\ p[2] \in 0..2 /\ p = <<p[1], p[2]>>
         /\ Len(p[1]) \in Nat /\ Len(p[1]) >= 1
         /\ \A i \in 1..Len(p[1]) : p[1][i] \in DOMAIN Digit
<1>1. p[1] \in Seq(DOMAIN Digit) /\ p[1] # <<>> /\ p[2] \in 0..2 /\ p = <<p[1], p[2]>>
  BY DEF Requests
<1> QED BY <1>1, LenProperties, EmptySeq

\* A request in the pipe is not touched by what is written behind it.
LEMMA StandsInFront ==
  ASSUME NEW s \in Seq(Char), NEW q \in Seq(Char), NEW p \in Requests,
         NEW k \in Nat, k >= 1, StandsAt(p, s, k)
  PROVE  StandsAt(p, s \o q, k)
<1> DEFINE M == Len(p[1])
           N == Len(s)
           t == s \o q
<1>1. /\ k + M + 3 <= N
      /\ s[k] = "#" /\ s[k + M + 1] = "~" /\ s[k + M + 3] = "!"
      /\ \A i \in 1..M : s[k + i] = p[1][i]
      /\ s[k + M + 2] \in {"0", "1", "2"} /\ p[2] = Value(s[k + M + 2])
  BY DEF StandsAt
<1>2. M \in Nat /\ N \in Nat /\ Len(q) \in Nat
  BY RequestNumber, LenProperties
<1>3. /\ Len(t) = N + Len(q)
      /\ \A i \in 1..(N + Len(q)) : t[i] = IF i <= N THEN s[i] ELSE q[i - N]
  BY ConcatProperties
<1> HIDE DEF M, N, t
<1>4. Len(t) >= N /\ \A i \in 1..N : t[i] = s[i]
  BY <1>2, <1>3
<1>5. /\ k \in 1..N /\ k + M + 1 \in 1..N /\ k + M + 2 \in 1..N /\ k + M + 3 \in 1..N
      /\ \A i \in 1..M : k + i \in 1..N
  <2>1. k + M + 3 <= N /\ k \in Nat /\ k >= 1
    BY <1>1
  <2> QED BY <1>2, <2>1
<1>6. /\ t[k] = s[k] /\ t[k + M + 1] = s[k + M + 1] /\ t[k + M + 2] = s[k + M + 2]
      /\ t[k + M + 3] = s[k + M + 3] /\ \A i \in 1..M : t[k + i] = s[k + i]
  BY <1>4, <1>5
<1>7. k + M + 3 <= Len(t)
  <2>1. Len(t) = N + Len(q) /\ k \in Nat
    BY <1>3
  <2> QED BY <1>1, <1>2, <2>1
<1>8. StandsAt(p, t, k)
  BY <1>1, <1>6, <1>7 DEF StandsAt, M
<1> QED BY <1>8 DEF t

\* The request led_manager writes stands behind the bytes s, and none of its bytes but
\* the first is like a first byte.
LEMMA StandsLast ==
  ASSUME NEW s \in Seq(Char), NEW number \in Numbers, NEW value \in {"0", "1", "2"}
  PROVE  LET r == <<number, Digit[value]>>
             t == s \o Request(number, value)
         IN  /\ StandsAt(r, t, Len(s) + 1)
             /\ Len(t) = Len(s) + Len(number) + 4
             /\ \A i \in 1..Len(s) : t[i] = s[i]
             /\ \A k \in (Len(s) + 2)..Len(t) : t[k] # "#"
<1> DEFINE q == Request(number, value)
           L == Len(number)
           r == <<number, Digit[value]>>
           t == s \o q
           N == Len(s)
<1>1. /\ L \in Nat /\ L >= 1 /\ Len(q) = L + 4
      /\ q[1] = "#" /\ q[L + 2] = "~" /\ q[L + 3] = value /\ q[L + 4] = "!"
      /\ \A i \in 1..L : q[1 + i] = number[i] /\ number[i] \in DOMAIN Digit
  BY RequestBytes
<1>2. q \in Seq(Char) /\ N \in Nat
  BY RequestType, LenProperties
<1>3. r[1] = number /\ r[2] = Value(value) /\ r[2] = Digit[value]
  BY DigitFacts DEF Value
<1> HIDE DEF q, r, N, L
<1>4. /\ Len(t) = N + Len(q)
      /\ \A i \in 1..(N + Len(q)) : t[i] = IF i <= N THEN s[i] ELSE q[i - N]
  BY <1>2, ConcatProperties DEF N
<1> HIDE DEF t
<1>5. Len(t) = N + L + 4 /\ \A i \in 1..N : t[i] = s[i]
  BY <1>1, <1>2, <1>4
<1>6. \A i \in 1..(L + 4) : t[N + i] = q[i]
  BY <1>1, <1>2, <1>4
<1>7. StandsAt(r, t, N + 1)
  <2>1. /\ t[N + 1] = "#" /\ t[N + 1 + L + 1] = "~" /\ t[N + 1 + L + 2] = value
        /\ t[N + 1 + L + 3] = "!" /\ N + 1 + L + 3 <= Len(t)
    <3>1. /\ N + 1 + L + 1 = N + (L + 2) /\ N + 1 + L + 2 = N + (L + 3)
          /\ N + 1 + L + 3 = N + (L + 4) /\ N + L + 4 = N + (L + 4)
      BY <1>1, <1>2
    <3>2. 1 \in 1..(L + 4) /\ L + 2 \in 1..(L + 4) /\ L + 3 \in 1..(L + 4) /\ L + 4 \in 1..(L + 4)
      BY <1>1
    <3> QED BY <1>1, <1>2, <1>5, <1>6, <3>1, <3>2
  <2>2. \A i \in 1..L : t[N + 1 + i] = number[i]
    <3> SUFFICES ASSUME NEW i \in 1..L PROVE t[N + 1 + i] = number[i]
      OBVIOUS
    <3>1. 1 + i \in 1..(L + 4) /\ N + 1 + i = N + (1 + i)
      BY <1>1, <1>2
    <3> QED BY <1>1, <1>6, <3>1
  <2> QED BY <1>3, <2>1, <2>2 DEF StandsAt, L
<1>8. ASSUME NEW k \in (N + 2)..Len(t) PROVE t[k] # "#"
  <2> DEFINE j == k - N
  <2>1. j \in 2..(L + 4) /\ k = N + j
    BY <1>1, <1>2, <1>5
  <2> HIDE DEF j
  <2>2. t[k] = q[j]
    BY <1>1, <1>6, <2>1
  <2>3. CASE j <= L + 1
    <3>1. j - 1 \in 1..L /\ j = 1 + (j - 1)
      BY <1>1, <2>1, <2>3
    <3>2. q[j] \in DOMAIN Digit
      BY <1>1, <3>1
    <3> QED BY <2>2, <3>2, DigitFacts
  <2>4. CASE j > L + 1
    <3>1. j = L + 2 \/ j = L + 3 \/ j = L + 4
      BY <1>1, <2>1, <2>4
    <3> QED BY <1>1, <2>2, <3>1
  <2> QED BY <1>1, <2>1, <2>3, <2>4
<1> QED BY <1>5, <1>7, <1>8 DEF t, q, r, N, L

\* led_manager adds a whole request, with nothing but the first byte like a first byte.
LEMMA WholeAppended ==
  ASSUME NEW s \in Seq(Char), NEW requests \in SUBSET Requests, Whole(s, requests),
         NEW number \in Numbers, NEW value \in {"0", "1", "2"}
  PROVE  Whole(s \o Request(number, value), requests \cup {<<number, Digit[value]>>})
<1> DEFINE r == <<number, Digit[value]>>
           t == s \o Request(number, value)
           N == Len(s)
<1>1. /\ StandsAt(r, t, N + 1) /\ \A i \in 1..N : t[i] = s[i]
      /\ \A k \in (N + 2)..Len(t) : t[k] # "#"
  BY StandsLast
<1>2. N \in Nat /\ Request(number, value) \in Seq(Char) /\ Len(t) \in Nat
  BY RequestType, LenProperties, ConcatProperties
<1> HIDE DEF r
<1> SUFFICES ASSUME NEW k \in 1..Len(t), t[k] = "#"
             PROVE  \E p \in requests \cup {r} : StandsAt(p, t, k)
  BY DEF Whole, r
<1>3. CASE k \in 1..N
  <2>1. PICK p \in requests : StandsAt(p, s, k)
    BY <1>1, <1>3 DEF Whole
  <2>2. k \in Nat /\ k >= 1
    BY <1>2, <1>3
  <2> QED BY <1>2, <2>1, <2>2, StandsInFront
<1>4. k \in 1..N \/ k = N + 1 \/ k \in (N + 2)..Len(t)
  <2> HIDE DEF N, t
  <2> QED BY <1>2
<1> QED BY <1>1, <1>3, <1>4

\* What a read leaves in the pipe.
LEMMA BytesLeft ==
  ASSUME NEW s \in Seq(Char), NEW n \in 0..Len(s)
  PROVE  /\ Len(s) \in Nat /\ Len(SubSeq(s, n + 1, Len(s))) = Len(s) - n
         /\ \A i \in 1..(Len(s) - n) : SubSeq(s, n + 1, Len(s))[i] = s[n + i]
<1> DEFINE t == SubSeq(s, n + 1, Len(s))
           N == Len(s)
<1>1. N \in Nat /\ n \in Nat /\ n <= N
  BY LenProperties
<1>2. Len(t) = N - n /\ \A i \in 1..(N - n) : t[i] = s[n + i]
  <2>1. \A i \in (n + 1)..N : s[i] \in Char
    BY <1>1
  <2>2. /\ Len(t) = IF n + 1 <= N THEN N - (n + 1) + 1 ELSE 0
        /\ \A i \in 1..(N - (n + 1) + 1) : t[i] = s[(n + 1) + i - 1]
    BY <1>1, <2>1, SubSeqProperties
  <2> HIDE DEF t, N
  <2>3. N - (n + 1) + 1 = N - n /\ \A i \in Int : (n + 1) + i - 1 = n + i
    BY <1>1
  <2> QED BY <1>1, <2>2, <2>3
<1> QED BY <1>1, <1>2

\* A request that a read of n bytes leaves in the pipe moves forward by n.
LEMMA StandsLeft ==
  ASSUME NEW s \in Seq(Char), NEW p \in Requests, NEW n \in 0..Len(s),
         NEW k \in Nat, k >= 1, StandsAt(p, s, n + k)
  PROVE  StandsAt(p, SubSeq(s, n + 1, Len(s)), k)
<1> DEFINE t == SubSeq(s, n + 1, Len(s))
           N == Len(s)
<1>1. N \in Nat /\ n \in Nat /\ n <= N
  BY LenProperties
<1>2. Len(t) = N - n /\ \A i \in 1..(N - n) : t[i] = s[n + i]
  BY BytesLeft
<1>3. k \in Nat /\ k >= 1
  OBVIOUS
<1> HIDE DEF t, N
<1> DEFINE M == Len(p[1])
<1>4. M \in Nat
  BY RequestNumber
<1>5. /\ (n + k) + M + 3 <= N /\ s[n + k] = "#"
      /\ s[(n + k) + M + 1] = "~" /\ s[(n + k) + M + 3] = "!"
      /\ \A i \in 1..M : s[(n + k) + i] = p[1][i]
      /\ s[(n + k) + M + 2] \in {"0", "1", "2"} /\ p[2] = Value(s[(n + k) + M + 2])
  BY DEF StandsAt, N
<1> HIDE DEF M
<1>6. k + M + 3 <= Len(t)
  <2>1. (n + k) + M + 3 <= N /\ Len(t) = N - n
    BY <1>2, <1>5
  <2> QED BY <1>1, <1>3, <1>4, <2>1
<1>7. /\ t[k + M + 1] = s[(n + k) + M + 1] /\ t[k + M + 2] = s[(n + k) + M + 2]
      /\ t[k + M + 3] = s[(n + k) + M + 3] /\ \A i \in 1..M : t[k + i] = s[(n + k) + i]
  <2>1. \A j \in 1..(M + 3) : k + j \in 1..(N - n) /\ n + (k + j) = (n + k) + j
    <3>1. k + M + 3 <= N - n
      BY <1>2, <1>6
    <3>2. N \in Nat /\ n \in Nat /\ k \in Nat /\ M \in Nat /\ k >= 1
      BY <1>1, <1>3, <1>4
    <3> QED BY <3>1, <3>2
  <2>2. \A j \in 1..(M + 3) : t[k + j] = s[(n + k) + j]
    BY <1>2, <2>1
  <2>3. /\ M + 1 \in 1..(M + 3) /\ M + 2 \in 1..(M + 3) /\ M + 3 \in 1..(M + 3)
        /\ \A i \in 1..M : i \in 1..(M + 3)
    BY <1>4
  <2>4. /\ t[k + (M + 1)] = s[(n + k) + (M + 1)] /\ t[k + (M + 2)] = s[(n + k) + (M + 2)]
        /\ t[k + (M + 3)] = s[(n + k) + (M + 3)] /\ \A i \in 1..M : t[k + i] = s[(n + k) + i]
    BY <2>2, <2>3
  <2>5. /\ k + (M + 1) = k + M + 1 /\ (n + k) + (M + 1) = (n + k) + M + 1
        /\ k + (M + 2) = k + M + 2 /\ (n + k) + (M + 2) = (n + k) + M + 2
        /\ k + (M + 3) = k + M + 3 /\ (n + k) + (M + 3) = (n + k) + M + 3
    BY <1>1, <1>3, <1>4
  <2> QED BY <2>4, <2>5
<1>8. t[k] = "#"
  <2>1. k \in 1..(N - n)
    BY <1>1, <1>2, <1>3, <1>4, <1>6
  <2> QED BY <1>2, <1>5, <2>1
<1>9. StandsAt(p, t, k)
  BY <1>5, <1>6, <1>7, <1>8 DEF StandsAt, M
<1> QED BY <1>9 DEF t

\* What a read leaves in the pipe is whole where it begins a request.
LEMMA WholeLeft ==
  ASSUME NEW s \in Seq(Char), NEW requests \in SUBSET Requests, Whole(s, requests),
         NEW n \in 0..Len(s)
  PROVE  Whole(SubSeq(s, n + 1, Len(s)), requests)
<1> DEFINE t == SubSeq(s, n + 1, Len(s))
<1>1. Len(s) \in Nat /\ Len(t) = Len(s) - n /\ \A i \in 1..(Len(s) - n) : t[i] = s[n + i]
  BY BytesLeft
<1> HIDE DEF t
<1> SUFFICES ASSUME NEW k \in 1..Len(t), t[k] = "#"
             PROVE  \E p \in requests : StandsAt(p, t, k)
  BY DEF Whole, t
<1>2. n + k \in 1..Len(s) /\ s[n + k] = "#" /\ k \in Nat /\ k >= 1
  BY <1>1
<1>3. PICK p \in requests : StandsAt(p, s, n + k)
  BY <1>2 DEF Whole
<1> QED BY <1>2, <1>3, StandsLeft DEF t

\* Whatever is left in the buffer b of earlier blocks, a block that begins with a request
\* for a number of three digits or more asks for nothing.
LEMMA BlockSilent ==
  ASSUME NEW s, NEW b, NEW N \in Nat, NEW n \in Nat, N = Len(s),
         N < 6 => n = N, N >= 6 => n = 6,
         \A j \in 0..5 : j < n => b[j] = s[j + 1],
         NEW p \in Requests, StandsAt(p, s, 1), Len(p[1]) >= 3
  PROVE  Updates(b) = {}
<1> DEFINE L == Len(p[1])
<1>1. L \in Nat /\ L >= 3 /\ \A i \in 1..L : p[1][i] \in DOMAIN Digit
  BY RequestNumber
<1>2. /\ 1 + L + 3 <= N /\ s[1 + L + 1] = "~"
      /\ \A i \in 1..L : s[1 + i] = p[1][i]
      /\ s[1 + L + 2] \in {"0", "1", "2"}
  BY DEF StandsAt
<1> HIDE DEF L
<1>3. n = 6
  <2>1. N >= 6
    BY <1>1, <1>2
  <2> QED BY <2>1
<1>4. \A i \in 1..L : s[1 + i] \in DOMAIN Digit
  BY <1>1, <1>2
<1>5. s[5] \in DOMAIN Digit \/ s[5] = "~"
  <2>1. CASE L = 3  BY <1>2, <2>1
  <2>2. CASE L > 3
    <3>1. 4 \in 1..L /\ 1 + 4 = 5  BY <1>1, <2>2
    <3> QED BY <1>4, <3>1
  <2> QED BY <1>1, <2>1, <2>2
<1>6. s[6] \in DOMAIN Digit \/ s[6] = "~" \/ s[6] \in {"0", "1", "2"}
  <2>1. CASE L = 3  BY <1>2, <2>1
  <2>2. CASE L = 4  BY <1>2, <2>2
  <2>3. CASE L > 4
    <3>1. 5 \in 1..L /\ 1 + 5 = 6  BY <1>1, <2>3
    <3> QED BY <1>4, <3>1
  <2> QED BY <1>1, <2>1, <2>2, <2>3
<1>7. s[5] # "!" /\ s[6] # "!"
  BY <1>5, <1>6, DigitFacts
<1>8. b[4] = s[5] /\ b[5] = s[6]
  <2>1. b[4] = s[4 + 1] /\ b[5] = s[5 + 1]
    BY <1>3
  <2> QED BY <2>1
<1>9. ~Marked(b)
  <2>1. DATA_LENGTH - 1 = 5 /\ DATA_LENGTH - 2 = 4
    BY DEF DATA_LENGTH
  <2> QED BY <1>7, <1>8, <2>1 DEF Marked
<1> QED BY <1>9 DEF Updates

\* A block that begins with a request for a number of one or two digits asks for an
\* update: the mark at its end is where Led_Controller looks for it.
LEMMA BlockHeard ==
  ASSUME NEW s, NEW b, NEW N \in Nat, NEW n \in Nat, N = Len(s),
         N < 6 => n = N, N >= 6 => n = 6,
         \A j \in 0..5 : j < n => b[j] = s[j + 1],
         NEW p \in Requests, StandsAt(p, s, 1), Len(p[1]) <= 2
  PROVE  Updates(b) # {}
<1> DEFINE L == Len(p[1])
<1>1. (L = 1 \/ L = 2) /\ \A i \in 1..L : p[1][i] \in DOMAIN Digit
  <2>1. L \in Nat /\ L >= 1 /\ L <= 2 /\ \A i \in 1..L : p[1][i] \in DOMAIN Digit
    BY RequestNumber
  <2> HIDE DEF L
  <2> QED BY <2>1
<1>2. /\ 1 + L + 3 <= N
      /\ s[1] = "#" /\ s[1 + L + 1] = "~" /\ s[1 + L + 3] = "!"
      /\ \A i \in 1..L : s[1 + i] = p[1][i]
  BY DEF StandsAt
<1> HIDE DEF L
<1>3. b[0] = s[1] /\ b[2] = s[3] /\ b[3] = s[4] /\ b[4] = s[5]
  <2>1. n >= 5
    BY <1>1, <1>2
  <2>2. b[0] = s[0 + 1] /\ b[2] = s[2 + 1] /\ b[3] = s[3 + 1] /\ b[4] = s[4 + 1]
    BY <2>1
  <2> QED BY <2>2
<1>4. DATA_LENGTH - 1 = 5 /\ DATA_LENGTH - 2 = 4
  BY DEF DATA_LENGTH
<1>5. CASE L = 1
  <2>1. b[0] = "#" /\ b[2] = "~" /\ b[4] = "!"
    BY <1>2, <1>3, <1>5
  <2> QED BY <1>4, <2>1 DEF Updates, Marked
<1>6. CASE L = 2
  <2>1. N >= 6 /\ n = 6
    BY <1>2, <1>6
  <2>2. b[5] = s[6]
    <3>1. b[5] = s[5 + 1]
      BY <2>1
    <3> QED BY <3>1
  <2>3. s[3] \in DOMAIN Digit
    <3>1. 2 \in 1..L /\ s[1 + 2] = p[1][2]
      BY <1>2, <1>6
    <3> QED BY <1>1, <3>1
  <2>4. b[0] = "#" /\ b[2] # "~" /\ b[3] = "~" /\ b[5] = "!"
    <3>1. s[3] # "~"
      BY <2>3, DigitFacts
    <3> QED BY <1>2, <1>3, <1>6, <2>2, <3>1
  <2> QED BY <1>4, <2>4 DEF Updates, Marked
<1> QED BY <1>1, <1>5, <1>6

\* Whatever is left in the buffer b of earlier blocks, a block asks for an update only
\* if it begins with a request of one or two digits, and then for that one.
LEMMA BlockUpdate ==
  ASSUME NEW s, NEW b, NEW N \in Nat, NEW n \in Nat, N = Len(s),
         N < 6 => n = N, N >= 6 => n = 6,
         \A j \in 0..5 : j < n => b[j] = s[j + 1],
         NEW p \in Requests, StandsAt(p, s, 1), NEW u \in Updates(b)
  PROVE  u = p
<1> DEFINE L == Len(p[1])
<1>1. /\ L \in Nat /\ L >= 1 /\ p[1] \in Seq(DOMAIN Digit) /\ p = <<p[1], p[2]>>
      /\ \A i \in 1..L : p[1][i] \in DOMAIN Digit
  BY RequestNumber
<1>2. /\ 1 + L + 3 <= N
      /\ s[1] = "#" /\ s[1 + L + 1] = "~" /\ s[1 + L + 3] = "!"
      /\ \A i \in 1..L : s[1 + i] = p[1][i]
      /\ s[1 + L + 2] \in {"0", "1", "2"} /\ p[2] = Value(s[1 + L + 2])
  BY DEF StandsAt
<1>3. /\ b[0] = "#" /\ (b[5] = "!" \/ b[4] = "!")
      /\ \/ b[2] = "~" /\ u = << <<b[1]>>, Value(b[3])>>
         \/ b[2] # "~" /\ b[3] = "~" /\ u = << <<b[1], b[2]>>, Value(b[4])>>
  <2>1. DATA_LENGTH - 1 = 5 /\ DATA_LENGTH - 2 = 4
    BY DEF DATA_LENGTH
  <2> QED BY <2>1 DEF Updates, Marked
<1> HIDE DEF L
<1>4. n >= 5 /\ (L > 1 => n = 6)
  BY <1>1, <1>2
<1>5. b[1] = s[2] /\ b[2] = s[3] /\ b[3] = s[4] /\ b[4] = s[5] /\ (L > 1 => b[5] = s[6])
  <2>1. 1 < n /\ 2 < n /\ 3 < n /\ 4 < n
    BY <1>4
  <2>2. L > 1 => 5 < n
    BY <1>1, <1>4
  <2>3. /\ b[1] = s[1 + 1] /\ b[2] = s[2 + 1] /\ b[3] = s[3 + 1] /\ b[4] = s[4 + 1]
        /\ L > 1 => b[5] = s[5 + 1]
    BY <2>1, <2>2
  <2> QED BY <2>3
<1>6. CASE L = 1
  <2>1. s[2] = p[1][1] /\ s[3] = "~" /\ s[4] \in {"0", "1", "2"} /\ p[2] = Value(s[4])
    BY <1>2, <1>6
  <2>2. p[1] = <<s[2]>>
    BY <1>1, <1>6, <2>1 DEF L
  <2> QED BY <1>1, <1>3, <1>5, <2>1, <2>2
<1>7. CASE L = 2
  <2>1. /\ s[2] = p[1][1] /\ s[3] = p[1][2] /\ s[4] = "~" /\ p[2] = Value(s[5])
        /\ s[3] \in DOMAIN Digit
    BY <1>1, <1>2, <1>7
  <2>2. s[3] # "~"
    BY <2>1, DigitFacts
  <2>3. p[1] = <<s[2], s[3]>>
    BY <1>1, <1>7, <2>1 DEF L
  <2> QED BY <1>1, <1>3, <1>5, <2>1, <2>2, <2>3
<1>8. CASE L >= 3
  <2>1. Updates(b) = {}
    BY <1>8, BlockSilent DEF L
  <2> QED BY <2>1
<1> QED BY <1>1, <1>6, <1>7, <1>8

\* The buffer after a read of n bytes of the pipe s.
LEMMA FilledBytes ==
  ASSUME NEW s \in Seq(Char), s # <<>>,
         NEW buff \in [0..(DATA_LENGTH - 1) -> Char \cup {"NUL"}],
         NEW n \in 0..Len(s),
         Len(s) < DATA_LENGTH => n = Len(s), Len(s) >= DATA_LENGTH => n = DATA_LENGTH
  PROVE  /\ Len(s) \in Nat /\ Len(s) >= 1 /\ n \in Nat /\ n <= Len(s) /\ n >= 1 /\ n <= 6
         /\ (Len(s) < 6 => n = Len(s)) /\ (Len(s) >= 6 => n = 6)
         /\ \A j \in 0..5 : j < n => Filled(buff, SubSeq(s, 1, n))[j] = s[j + 1]
<1> DEFINE t == SubSeq(s, 1, n)
           b == Filled(buff, t)
           N == Len(s)
<1>1. N \in Nat /\ N >= 1 /\ n \in Nat /\ n <= N /\ n >= 1 /\ n <= 6
      /\ (N < 6 => n = N) /\ (N >= 6 => n = 6)
  BY LenProperties, EmptySeq DEF DATA_LENGTH
<1>2. Len(t) = n /\ \A i \in 1..n : t[i] = s[i]
  <2>1. \A i \in 1..n : s[i] \in Char
    BY <1>1
  <2>2. Len(t) = (IF 1 <= n THEN n - 1 + 1 ELSE 0) /\ \A i \in 1..(n - 1 + 1) : t[i] = s[1 + i - 1]
    BY <1>1, <2>1, SubSeqProperties
  <2> HIDE DEF t
  <2>3. n - 1 + 1 = n /\ \A i \in Int : 1 + i - 1 = i
    BY <1>1
  <2> QED BY <1>1, <2>2, <2>3
<1> HIDE DEF t
<1>3. \A j \in 0..5 : j < n => b[j] = s[j + 1]
  <2>1. \A j \in 0..5 : b[j] = IF j < Len(t) THEN t[j + 1] ELSE buff[j]
    BY DEF Filled, DATA_LENGTH
  <2> HIDE DEF b
  <2>2. ASSUME NEW j \in 0..5, j < n PROVE b[j] = s[j + 1]
    <3>1. j + 1 \in 1..n /\ j < Len(t)
      BY <1>1, <1>2, <2>2
    <3> QED BY <1>2, <2>1, <3>1
  <2> QED BY <2>2
<1> QED BY <1>1, <1>3 DEF t

\* The update a read of the pipe leads to is one that was asked for.
LEMMA BlockAsked ==
  ASSUME NEW s \in Seq(Char), NEW requests \in SUBSET Requests, Whole(s, requests), s # <<>>,
         NEW buff \in [0..(DATA_LENGTH - 1) -> Char \cup {"NUL"}],
         NEW n \in 0..Len(s),
         Len(s) < DATA_LENGTH => n = Len(s), Len(s) >= DATA_LENGTH => n = DATA_LENGTH,
         NEW u \in Updates(Filled(buff, SubSeq(s, 1, n)))
  PROVE  u \in requests
<1> DEFINE b == Filled(buff, SubSeq(s, 1, n))
           N == Len(s)
<1>1. /\ N \in Nat /\ N >= 1 /\ n \in Nat /\ n >= 1 /\ (N < 6 => n = N) /\ (N >= 6 => n = 6)
      /\ \A j \in 0..5 : j < n => b[j] = s[j + 1]
  BY FilledBytes
<1>2. u \in Updates(b)
  OBVIOUS
<1> HIDE DEF b
<1>3. s[1] = "#"
  <2>1. b[0] = "#"
    BY <1>2 DEF Updates, Marked
  <2>2. b[0] = s[0 + 1] /\ 0 + 1 = 1
    BY <1>1
  <2> QED BY <2>1, <2>2
<1>4. PICK p \in requests : StandsAt(p, s, 1)
  BY <1>1, <1>3 DEF Whole
<1>5. p \in Requests /\ StandsAt(p, s, 1)
  BY <1>4
<1>6. /\ N \in Nat /\ n \in Nat /\ N = Len(s) /\ (N < 6 => n = N) /\ (N >= 6 => n = 6)
      /\ \A j \in 0..5 : j < n => b[j] = s[j + 1]
  BY <1>1
<1> HIDE DEF N
<1>7. \A v \in Updates(b) : v = p
  <2> SUFFICES ASSUME NEW v \in Updates(b) PROVE v = p
    OBVIOUS
  <2> QED BY <1>5, <1>6, BlockUpdate
<1>8. u = p
  BY <1>2, <1>7
<1> QED BY <1>8

\* Every step keeps to what was asked for.
LEMMA AskedStep == Asked /\ [Next]_vars => Asked'
<1> SUFFICES ASSUME Asked, [Next]_vars PROVE Asked'
  OBVIOUS
<1>0. BytesType' /\ fifo \in Seq(Char) /\ Range(sent) \in SUBSET Requests
  <2>1. BytesType'
    BY BytesTypeStep DEF Asked
  <2>2. sent \in Seq(Requests) /\ fifo \in Seq(Char)
    BY DEF Asked, BytesType
  <2> QED BY <2>1, <2>2 DEF Range
<1>1. ASSUME NEW number \in Numbers, NEW value \in {"0", "1", "2"}, led_manager(number, value)
      PROVE  Asked'
  <2> DEFINE r == <<number, Digit[value]>>
  <2>1. /\ fifo' = fifo \o Request(number, value) /\ sent' = Append(sent, r)
        /\ received' = received
    BY <1>1 DEF led_manager
  <2>2. r \in Requests
    BY LedAssumption, DigitFacts DEF Requests
  <2>3. Whole(fifo', Range(sent) \cup {r})
    BY <1>0, <2>1, WholeAppended DEF Asked
  <2> HIDE DEF r
  <2>4. sent' \in Seq(Requests) /\ Range(sent') = Range(sent) \cup {r}
    BY <2>1, <2>2, RangeAppend, AppendProperties DEF Asked
  <2> QED BY <1>0, <2>1, <2>3, <2>4 DEF Asked, OnlyWhatWasAsked
<1>2. CASE Led_Controller
  <2> DEFINE n == IF Len(fifo) < DATA_LENGTH THEN Len(fifo) ELSE DATA_LENGTH
             b == Filled(led_fifo_buff, SubSeq(fifo, 1, n))
  <2>1. /\ fifo # <<>> /\ led_fifo_buff' = b /\ fifo' = SubSeq(fifo, n + 1, Len(fifo))
        /\ sent' = sent
        /\ \/ received' = received
           \/ \E u \in Updates(led_fifo_buff') : received' = Append(received, u)
    BY <1>2 DEF Led_Controller
  <2>2. /\ n \in 0..Len(fifo)
        /\ Len(fifo) < DATA_LENGTH => n = Len(fifo)
        /\ Len(fifo) >= DATA_LENGTH => n = DATA_LENGTH
    BY <1>0, LenProperties DEF DATA_LENGTH
  <2>3. Whole(fifo', Range(sent'))
    <3> HIDE DEF n
    <3> QED BY <1>0, <2>1, <2>2, WholeLeft DEF Asked
  <2>4. CASE received' = received
    BY <1>0, <2>1, <2>3, <2>4 DEF Asked, OnlyWhatWasAsked
  <2>5. ASSUME NEW u \in Updates(led_fifo_buff'), received' = Append(received, u)
        PROVE  Asked'
    <3>1. led_fifo_buff \in [0..(DATA_LENGTH - 1) -> Char \cup {"NUL"}]
      BY DEF Asked, BytesType
    <3>2. u \in Updates(b) /\ Whole(fifo, Range(sent))
      BY <2>1, <2>5 DEF Asked
    <3>3. u \in Range(sent)
      BY <1>0, <2>1, <2>2, <3>1, <3>2, BlockAsked
    <3>4. u \in Requests
      BY <1>0, <3>3
    <3>5. received' \in Seq(Requests) /\ Range(received') = Range(received) \cup {u}
      BY <2>5, <3>4, RangeAppend, AppendProperties DEF Asked
    <3> QED BY <1>0, <2>1, <2>3, <3>3, <3>5 DEF Asked, OnlyWhatWasAsked
  <2> QED BY <2>1, <2>4, <2>5
<1>3. CASE Led_Controller_Processing
  <2>1. UNCHANGED <<fifo, sent, received>>
    BY <1>3 DEF Led_Controller_Processing, TestOn, TestOff, MarkExecuted, TestToggle, At
  <2> QED BY <1>0, <2>1 DEF Asked, OnlyWhatWasAsked
<1>4. CASE UNCHANGED vars
  BY <1>0, <1>4 DEF vars, Asked, OnlyWhatWasAsked
<1> QED BY <1>1, <1>2, <1>3, <1>4 DEF Next

\* Nothing is under way initially.
LEMMA AskedInit == Init => Asked
<1> SUFFICES ASSUME Init PROVE Asked
  OBVIOUS
<1>1. BytesType
  BY InitType
<1>2. fifo = <<>> /\ sent = <<>> /\ received = <<>>
  BY DEF Init
<1>3. Whole(fifo, Range(sent))
  BY <1>2 DEF Whole
<1>4. OnlyWhatWasAsked
  BY <1>2 DEF OnlyWhatWasAsked, Range
<1> QED BY <1>1, <1>2, <1>3, <1>4 DEF Asked

\* Led_Controller changes an LED only as a led_manager has asked, to the value it asked
\* for: however the requests of five, six, seven and more bytes fall into the blocks of
\* DATA_LENGTH bytes, and whatever a short read leaves in led_fifo_buff.
THEOREM ChangesOnlyWhatWasAsked == Spec => []OnlyWhatWasAsked
<1>1. Init => Asked
  BY AskedInit
<1>2. Asked => OnlyWhatWasAsked
  BY DEF Asked
<1> QED BY <1>1, <1>2, AskedStep, PTL DEF Spec
-----------------------------------------------------------------------------
(* Everything that was asked for, while nothing is crowded *)

\* The requests received are at these places among those sent, in order, and all of
\* them for one or two digits.
ReceivedFrom(place, rcv, snt) ==
    /\ place \in [1..Len(rcv) -> 1..Len(snt)]
    /\ \A k \in 1..Len(rcv) : Len(snt[place[k]][1]) <= 2 /\ rcv[k] = snt[place[k]]
    /\ \A k, l \in 1..Len(rcv) : k < l => place[k] < place[l]

\* Requests for one or two digits that are not received, and all behind those that are.
Waiting(place, rcv, snt) ==
    {i \in 1..Len(snt) : Len(snt[i][1]) <= 2 /\ \A k \in 1..Len(rcv) : place[k] # i}
Behind(place, rcv, W) == \A k \in 1..Len(rcv), i \in W : place[k] < i

\* All that is received came in order, and those of W still wait.
Leaves(W, rcv, snt) == \E place : /\ ReceivedFrom(place, rcv, snt)
                                  /\ Behind(place, rcv, W)
                                  /\ Waiting(place, rcv, snt) = W

\* Each of W stands in the pipe s at the beginning of the block at[i] that will be read,
\* in order; the shortest are at the very end.  Every other block begins in
\* the middle of a request, or with one of three digits or more.
InBlocks(at, W, s, snt) ==
    /\ at \in [W -> Nat]
    /\ \A i \in W : /\ StandsAt(snt[i], s, 6 * at[i] + 1)
                    /\ Len(snt[i][1]) = 1 => 6 * at[i] + 5 = Len(s)
    /\ \A i, j \in W : i < j => at[i] < at[j]
    /\ \A q \in Nat : 6 * q + 1 <= Len(s) /\ s[6 * q + 1] = "#" =>
           \/ \E i \in W : at[i] = q
           \/ \E r \in Requests : StandsAt(r, s, 6 * q + 1) /\ Len(r[1]) >= 3

InOrder == ~crowded =>
    \E place, at : /\ ReceivedFrom(place, received, sent)
                   /\ Behind(place, received, Waiting(place, received, sent))
                   /\ InBlocks(at, Waiting(place, received, sent), fifo, sent)

\* A read takes the first block away, and brings the others one nearer.
LEMMA BlocksLeft ==
  ASSUME NEW s \in Seq(Char), NEW snt \in Seq(Requests), NEW W \in SUBSET (1..Len(snt)),
         NEW at, InBlocks(at, W, s, snt),
         NEW n \in 0..Len(s), Len(s) < 6 => n = Len(s), Len(s) >= 6 => n = 6
  PROVE  LET V == {i \in W : at[i] # 0}
         IN  InBlocks([i \in V |-> at[i] - 1], V, SubSeq(s, n + 1, Len(s)), snt)
<1> DEFINE V == {i \in W : at[i] # 0}
           at2 == [i \in V |-> at[i] - 1]
           t == SubSeq(s, n + 1, Len(s))
           N == Len(s)
<1>1. N \in Nat /\ Len(t) = N - n /\ \A i \in 1..(N - n) : t[i] = s[n + i]
  BY BytesLeft
<1>2. /\ at \in [W -> Nat]
      /\ \A i \in W : /\ StandsAt(snt[i], s, 6 * at[i] + 1)
                      /\ Len(snt[i][1]) = 1 => 6 * at[i] + 5 = N
      /\ \A i, j \in W : i < j => at[i] < at[j]
      /\ \A q \in Nat : 6 * q + 1 <= N /\ s[6 * q + 1] = "#" =>
             \/ \E i \in W : at[i] = q
             \/ \E r \in Requests : StandsAt(r, s, 6 * q + 1) /\ Len(r[1]) >= 3
  BY DEF InBlocks
<1>3. ASSUME NEW r \in Requests, NEW q \in Nat, StandsAt(r, s, 6 * (q + 1) + 1)
      PROVE  n = 6 /\ N >= 6 /\ StandsAt(r, t, 6 * q + 1)
  <2>1. 6 * (q + 1) + 1 + Len(r[1]) + 3 <= N /\ Len(r[1]) \in Nat
    BY <1>3, RequestNumber DEF StandsAt
  <2>2. N >= 6 /\ n = 6
    <3> DEFINE L == Len(r[1])
    <3>1. 6 * (q + 1) + 1 + L + 3 <= N /\ L \in Nat /\ N \in Nat
      BY <1>1, <2>1
    <3> HIDE DEF N, L
    <3>2. N >= 6
      BY <3>1
    <3> QED BY <3>2 DEF N
  <2>3. 6 * (q + 1) + 1 = n + (6 * q + 1) /\ 6 * q + 1 \in Nat /\ 6 * q + 1 >= 1
    BY <2>2
  <2>4. StandsAt(r, s, n + (6 * q + 1))
    BY <1>3, <2>3
  <2> QED BY <2>2, <2>3, <2>4, StandsLeft
<1> HIDE DEF N, t
<1>4. \A i \in V : i \in W /\ snt[i] \in Requests /\ at[i] - 1 \in Nat /\ at[i] = (at[i] - 1) + 1
  <2>1. \A i \in V : i \in W /\ at[i] \in Nat /\ at[i] # 0
    BY <1>2
  <2> QED BY <2>1
<1>5. at2 \in [V -> Nat] /\ \A i \in V : at2[i] = at[i] - 1
  <2> HIDE DEF V
  <2> QED BY <1>4
<1> HIDE DEF V, at2
<1>6. ASSUME NEW i \in V
      PROVE  /\ StandsAt(snt[i], t, 6 * at2[i] + 1)
             /\ Len(snt[i][1]) = 1 => 6 * at2[i] + 5 = Len(t)
  <2>1. /\ at2[i] \in Nat /\ at[i] = at2[i] + 1 /\ snt[i] \in Requests
        /\ StandsAt(snt[i], s, 6 * at[i] + 1)
    BY <1>2, <1>4, <1>5
  <2>2. StandsAt(snt[i], s, 6 * (at2[i] + 1) + 1)
    BY <2>1
  <2>3. n = 6 /\ N >= 6 /\ StandsAt(snt[i], t, 6 * at2[i] + 1)
    BY <1>3, <2>1, <2>2
  <2>4. ASSUME Len(snt[i][1]) = 1 PROVE 6 * at2[i] + 5 = Len(t)
    <3> DEFINE a == at2[i]
               T == Len(t)
    <3>1. 6 * (a + 1) + 5 = N
      BY <1>2, <1>4, <2>1, <2>4
    <3>2. T = N - 6 /\ a \in Nat /\ N \in Nat
      BY <1>1, <2>1, <2>3
    <3> HIDE DEF a, T
    <3>3. 6 * a + 5 = T
      BY <3>1, <3>2
    <3> QED BY <3>3 DEF a, T
  <2> QED BY <2>3, <2>4
<1>7. ASSUME NEW i \in V, NEW j \in V, i < j PROVE at2[i] < at2[j]
  <2>1. /\ at[i] < at[j] /\ at2[i] = at[i] - 1 /\ at2[j] = at[j] - 1
        /\ at[i] \in Nat /\ at[j] \in Nat
    BY <1>2, <1>4, <1>5, <1>7
  <2> QED BY <2>1
<1>8. ASSUME NEW q \in Nat, 6 * q + 1 <= Len(t), t[6 * q + 1] = "#"
      PROVE  \/ \E i \in V : at2[i] = q
             \/ \E r \in Requests : StandsAt(r, t, 6 * q + 1) /\ Len(r[1]) >= 3
  <2>1. N >= 6 /\ n = 6
    <3>1. n \in Nat /\ N - n >= 1
      BY <1>1, <1>8 DEF N
    <3>2. (N < 6 => n = N) /\ (N >= 6 => n = 6)
      BY DEF N
    <3> QED BY <1>1, <3>1, <3>2
  <2>2. /\ 6 * (q + 1) + 1 <= N /\ s[6 * (q + 1) + 1] = "#" /\ q + 1 \in Nat
    <3>1. 6 * q + 1 \in 1..(N - n) /\ n + (6 * q + 1) = 6 * (q + 1) + 1
      BY <1>1, <1>8, <2>1
    <3> QED BY <1>1, <1>8, <2>1, <3>1
  <2>3. CASE \E i \in W : at[i] = q + 1
    <3>1. PICK i \in W : at[i] = q + 1
      BY <2>3
    <3>2. i \in V /\ at2[i] = q
      <4>1. i \in V
        BY <3>1 DEF V
      <4> QED BY <1>5, <3>1, <4>1
    <3> QED BY <3>2
  <2>4. CASE \E r \in Requests : StandsAt(r, s, 6 * (q + 1) + 1) /\ Len(r[1]) >= 3
    BY <1>3, <2>4
  <2> QED BY <1>2, <2>2, <2>3, <2>4
<1>9. InBlocks(at2, V, t, snt)
  BY <1>5, <1>6, <1>7, <1>8 DEF InBlocks
<1> QED BY <1>9 DEF V, at2, t
\* A block at which the first request waiting stands is received: one more is, and
\* none is left out.
LEMMA OrderHeard ==
  ASSUME NEW s \in Seq(Char), NEW snt \in Seq(Requests), NEW rcv \in Seq(Requests),
         NEW place, ReceivedFrom(place, rcv, snt),
         Behind(place, rcv, Waiting(place, rcv, snt)),
         NEW at, InBlocks(at, Waiting(place, rcv, snt), s, snt),
         NEW i \in Waiting(place, rcv, snt), at[i] = 0
  PROVE  /\ Leaves(Waiting(place, rcv, snt) \ {i}, Append(rcv, snt[i]), snt)
         /\ \A j \in Waiting(place, rcv, snt) : j # i => at[j] # 0
<1> DEFINE W == Waiting(place, rcv, snt)
           K == Len(rcv)
           X == Len(snt)
           rcv2 == Append(rcv, snt[i])
           new == [k \in 1..(K + 1) |-> IF k \in 1..K THEN place[k] ELSE i]
<1>1. /\ i \in 1..X /\ Len(snt[i][1]) <= 2 /\ snt[i] \in Requests
      /\ K \in Nat /\ X \in Nat /\ W \subseteq 1..X
  BY LenProperties DEF Waiting
<1>2. /\ place \in [1..K -> 1..X]
      /\ \A k \in 1..K : Len(snt[place[k]][1]) <= 2 /\ rcv[k] = snt[place[k]]
      /\ \A k, l \in 1..K : k < l => place[k] < place[l]
  BY DEF ReceivedFrom
<1>3. /\ Len(rcv2) = K + 1 /\ rcv2[K + 1] = snt[i]
      /\ \A k \in 1..K : rcv2[k] = rcv[k]
  BY <1>1, AppendProperties
<1>4. \A k \in 1..K, j \in W : place[k] < j
  BY DEF Behind
<1>5. at \in [W -> Nat] /\ \A j, l \in W : j < l => at[j] < at[l]
  BY DEF InBlocks
<1> HIDE DEF K, X, rcv2
<1>6. /\ new \in [1..(K + 1) -> 1..X] /\ new[K + 1] = i
      /\ \A k \in 1..K : new[k] = place[k]
  BY <1>1, <1>2
<1> HIDE DEF new
<1>7. \A k \in 1..(K + 1) : k \in 1..K \/ k = K + 1
  BY <1>1
<1>8. \A j \in W \ {i} : i < j /\ at[j] # 0
  <2> SUFFICES ASSUME NEW j \in W, j # i PROVE i < j /\ at[j] # 0
    OBVIOUS
  <2>1. i \in Nat /\ j \in Nat /\ at[j] \in Nat
    BY <1>1, <1>5
  <2>2. ~(j < i)
    BY <1>5, <2>1
  <2>3. i < j
    BY <2>1, <2>2
  <2> QED BY <1>5, <2>1, <2>3
<1>9. ReceivedFrom(new, rcv2, snt)
  <2>1. \A k \in 1..(K + 1) : Len(snt[new[k]][1]) <= 2 /\ rcv2[k] = snt[new[k]]
    BY <1>1, <1>2, <1>3, <1>6, <1>7
  <2>2. ASSUME NEW k \in 1..(K + 1), NEW l \in 1..(K + 1), k < l
        PROVE  new[k] < new[l]
    <3>1. k \in 1..K
      BY <1>1, <2>2
    <3>2. CASE l \in 1..K
      BY <1>2, <1>6, <2>2, <3>1, <3>2
    <3>3. CASE l = K + 1
      BY <1>4, <1>6, <3>1, <3>3
    <3> QED BY <1>7, <3>2, <3>3
  <2> QED BY <1>3, <1>6, <2>1, <2>2 DEF ReceivedFrom, X
<1>10. Behind(new, rcv2, W \ {i})
  BY <1>3, <1>4, <1>6, <1>7, <1>8 DEF Behind
<1>11. Waiting(new, rcv2, snt) = W \ {i}
  <2>1. W = {j \in 1..X : Len(snt[j][1]) <= 2 /\ \A k \in 1..K : place[k] # j}
    BY DEF Waiting, K, X
  <2>2. Waiting(new, rcv2, snt)
          = {j \in 1..X : Len(snt[j][1]) <= 2 /\ \A k \in 1..(K + 1) : new[k] # j}
    BY <1>3 DEF Waiting, X
  <2>3. \A j : (\A k \in 1..(K + 1) : new[k] # j) <=> (\A k \in 1..K : place[k] # j) /\ i # j
    <3>1. K + 1 \in 1..(K + 1) /\ \A k \in 1..K : k \in 1..(K + 1)
      BY <1>1
    <3> QED BY <1>6, <1>7, <3>1
  <2> QED BY <2>1, <2>2, <2>3
<1>12. \A j \in W : j # i => at[j] # 0
  BY <1>8
<1>13. Leaves(W \ {i}, rcv2, snt)
  BY <1>9, <1>10, <1>11 DEF Leaves
<1> QED BY <1>12, <1>13 DEF rcv2, W

\* A request written where a block will begin waits at that block, behind all others.
LEMMA OrderWritten ==
  ASSUME NEW s \in Seq(Char), NEW snt \in Seq(Requests), NEW rcv \in Seq(Requests),
         NEW place, ReceivedFrom(place, rcv, snt),
         Behind(place, rcv, Waiting(place, rcv, snt)),
         NEW at, InBlocks(at, Waiting(place, rcv, snt), s, snt),
         NEW M \in Nat, Len(s) = 6 * M,
         NEW number \in Numbers, NEW value \in {"0", "1", "2"},
         NEW snt2, snt2 = Append(snt, <<number, Digit[value]>>)
  PROVE  /\ ReceivedFrom(place, rcv, snt2)
         /\ Behind(place, rcv, Waiting(place, rcv, snt2))
         /\ \E new : InBlocks(new, Waiting(place, rcv, snt2), s \o Request(number, value), snt2)
<1> DEFINE r == <<number, Digit[value]>>
           t == s \o Request(number, value)
           W == Waiting(place, rcv, snt)
           W2 == Waiting(place, rcv, snt2)
           X == Len(snt)
           K == Len(rcv)
           L == Len(number)
           new == [i \in W2 |-> IF i = X + 1 THEN M ELSE at[i]]
<1>1. r \in Requests /\ r[1] = number /\ L \in Nat /\ L >= 1
  <2>1. r \in Requests /\ r[1] = number
    BY LedAssumption, DigitFacts DEF Requests
  <2>2. Len(r[1]) \in Nat /\ Len(r[1]) >= 1
    BY <2>1, RequestNumber
  <2> QED BY <2>1, <2>2
<1>2. /\ StandsAt(r, t, 6 * M + 1) /\ Len(t) = 6 * M + L + 4
      /\ \A i \in 1..(6 * M) : t[i] = s[i]
      /\ \A k \in (6 * M + 2)..Len(t) : t[k] # "#"
  <2> DEFINE N == Len(s)
  <2>1. /\ StandsAt(r, t, N + 1) /\ Len(t) = N + L + 4
        /\ \A i \in 1..N : t[i] = s[i]
        /\ \A k \in (N + 2)..Len(t) : t[k] # "#"
    BY StandsLast
  <2>2. N = 6 * M
    OBVIOUS
  <2> HIDE DEF N, t, r, L
  <2> QED BY <2>1, <2>2
<1>3. Request(number, value) \in Seq(Char)
  BY RequestType
<1> HIDE DEF r
<1>4. /\ X \in Nat /\ K \in Nat /\ Len(snt2) = X + 1 /\ snt2[X + 1] = r
      /\ \A i \in 1..X : snt2[i] = snt[i]
  BY <1>1, AppendProperties, LenProperties DEF r
<1>5. /\ place \in [1..K -> 1..X]
      /\ \A k \in 1..K : Len(snt[place[k]][1]) <= 2 /\ rcv[k] = snt[place[k]]
      /\ \A k, l \in 1..K : k < l => place[k] < place[l]
      /\ \A k \in 1..K, i \in W : place[k] < i
  BY DEF ReceivedFrom, Behind
<1>6. /\ at \in [W -> Nat]
      /\ \A i \in W : /\ StandsAt(snt[i], s, 6 * at[i] + 1)
                      /\ Len(snt[i][1]) = 1 => 6 * at[i] + 5 = 6 * M
      /\ \A i, j \in W : i < j => at[i] < at[j]
      /\ \A q \in Nat : 6 * q + 1 <= 6 * M /\ s[6 * q + 1] = "#" =>
             \/ \E i \in W : at[i] = q
             \/ \E p \in Requests : StandsAt(p, s, 6 * q + 1) /\ Len(p[1]) >= 3
  BY DEF InBlocks
<1>7. /\ W = {i \in 1..X : Len(snt[i][1]) <= 2 /\ \A k \in 1..K : place[k] # i}
      /\ W2 = {i \in 1..(X + 1) : Len(snt2[i][1]) <= 2 /\ \A k \in 1..K : place[k] # i}
  <2>1. Len(snt2) = X + 1
    BY <1>4
  <2> HIDE DEF X
  <2>2. W2 = {i \in 1..(X + 1) : Len(snt2[i][1]) <= 2 /\ \A k \in 1..K : place[k] # i}
    BY <2>1 DEF Waiting
  <2> QED BY <2>2 DEF Waiting, X
<1> HIDE DEF X, K, W, W2, t, L
<1>8. /\ \A i \in W : i \in W2 /\ i \in 1..X
      /\ \A i \in W2 : i \in W \/ (i = X + 1 /\ L <= 2)
      /\ L <= 2 => X + 1 \in W2
  <2>1. \A i \in 1..(X + 1) : i \in 1..X \/ i = X + 1
    BY <1>4
  <2>2. \A i \in 1..X : i \in 1..(X + 1)
    BY <1>4
  <2>3. X + 1 \in 1..(X + 1) /\ \A k \in 1..K : place[k] # X + 1
    <3>1. \A k \in 1..K : place[k] \in 1..X
      BY <1>5
    <3>2. X + 1 \notin 1..X
      BY <1>4
    <3> QED BY <1>4, <3>1, <3>2
  <2>4. Len(snt2[X + 1][1]) = L
    BY <1>1, <1>4 DEF L
  <2>5. \A i \in W : i \in W2 /\ i \in 1..X
    BY <1>4, <1>7, <2>2
  <2>6. ASSUME NEW i \in W2 PROVE i \in W \/ (i = X + 1 /\ L <= 2)
    <3>1. CASE i \in 1..X
      BY <1>4, <1>7, <3>1
    <3>2. CASE i = X + 1
      BY <1>7, <2>4, <3>2
    <3> QED BY <1>7, <2>1, <3>1, <3>2
  <2>7. L <= 2 => X + 1 \in W2
    BY <1>7, <2>3, <2>4
  <2> QED BY <2>5, <2>6, <2>7
<1>9. ReceivedFrom(place, rcv, snt2)
  <2>1. place \in [1..K -> 1..(X + 1)]
    <3>1. \A i \in 1..X : i \in 1..(X + 1)
      BY <1>4
    <3> QED BY <1>5, <3>1
  <2>2. \A k \in 1..K : snt2[place[k]] = snt[place[k]]
    <3>1. \A k \in 1..K : place[k] \in 1..X
      BY <1>5
    <3> QED BY <1>4, <3>1
  <2> QED BY <1>4, <1>5, <2>1, <2>2 DEF ReceivedFrom, K
<1>10. Behind(place, rcv, W2)
  <2> SUFFICES ASSUME NEW k \in 1..K, NEW i \in W2 PROVE place[k] < i
    BY DEF Behind, K
  <2>1. CASE i \in W
    BY <1>5, <2>1
  <2>2. CASE i = X + 1
    <3>1. place[k] \in 1..X
      BY <1>5
    <3> QED BY <1>4, <2>2, <3>1
  <2> QED BY <1>8, <2>1, <2>2
<1>11. \A i \in W : at[i] \in Nat /\ at[i] < M /\ Len(snt[i][1]) # 1 /\ snt2[i] = snt[i] /\ i # X + 1
  <2> SUFFICES ASSUME NEW i \in W
               PROVE  at[i] \in Nat /\ at[i] < M /\ Len(snt[i][1]) # 1
                      /\ snt2[i] = snt[i] /\ i # X + 1
    OBVIOUS
  <2> DEFINE a == at[i]
             l == Len(snt[i][1])
  <2>1. a \in Nat /\ i \in 1..X /\ snt[i] \in Requests
    BY <1>6, <1>8 DEF X
  <2>2. l \in Nat /\ 6 * a + 1 + l + 3 <= 6 * M /\ (l = 1 => 6 * a + 5 = 6 * M)
    BY <1>6, <2>1, RequestNumber DEF StandsAt
  <2> HIDE DEF a, l
  <2>3. a < M /\ l # 1
    <3>1. a < M
      BY <2>1, <2>2
    <3>2. 6 * a + 5 # 6 * M
      BY <2>1
    <3> QED BY <2>2, <3>1, <3>2
  <2>4. snt2[i] = snt[i] /\ i # X + 1
    BY <1>4, <2>1
  <2> QED BY <2>1, <2>3, <2>4 DEF a, l
<1>12. /\ new \in [W2 -> Nat]
       /\ \A i \in W : i \in W2 /\ new[i] = at[i]
       /\ X + 1 \in W2 => new[X + 1] = M
  BY <1>8, <1>11
<1> HIDE DEF new
<1>13. ASSUME NEW i \in W2
       PROVE  /\ StandsAt(snt2[i], t, 6 * new[i] + 1)
              /\ Len(snt2[i][1]) = 1 => 6 * new[i] + 5 = Len(t)
  <2>1. CASE i \in W
    <3>1. /\ StandsAt(snt[i], s, 6 * at[i] + 1) /\ at[i] \in Nat /\ new[i] = at[i]
          /\ snt2[i] = snt[i] /\ Len(snt[i][1]) # 1 /\ snt[i] \in Requests
      BY <1>6, <1>8, <1>11, <1>12, <2>1 DEF X
    <3>2. 6 * at[i] + 1 \in Nat /\ 6 * at[i] + 1 >= 1
      BY <3>1
    <3>3. StandsAt(snt[i], t, 6 * at[i] + 1)
      BY <1>3, <3>1, <3>2, StandsInFront DEF t
    <3> QED BY <3>1, <3>3
  <2>2. CASE i = X + 1
    <3>1. snt2[i] = r /\ new[i] = M /\ Len(r[1]) = L
      BY <1>1, <1>4, <1>12, <2>2 DEF L
    <3>2. L = 1 => 6 * M + 5 = Len(t)
      BY <1>2
    <3> QED BY <1>2, <3>1, <3>2
  <2> QED BY <1>8, <2>1, <2>2
<1>14. ASSUME NEW i \in W2, NEW j \in W2, i < j PROVE new[i] < new[j]
  <2>1. i \in W
    <3>1. i # X + 1
      <4>1. j \in W => j \in 1..X
        BY <1>8
      <4> QED BY <1>4, <1>8, <1>14, <4>1
    <3> QED BY <1>8, <3>1
  <2>2. CASE j \in W
    BY <1>6, <1>12, <1>14, <2>1, <2>2
  <2>3. CASE j = X + 1
    BY <1>11, <1>12, <2>1, <2>3
  <2> QED BY <1>8, <2>2, <2>3
<1>15. ASSUME NEW q \in Nat, 6 * q + 1 <= Len(t), t[6 * q + 1] = "#"
       PROVE  \/ \E i \in W2 : new[i] = q
              \/ \E p \in Requests : StandsAt(p, t, 6 * q + 1) /\ Len(p[1]) >= 3
  <2>1. CASE q < M
    <3>1. 6 * q + 1 \in 1..(6 * M) /\ 6 * q + 1 \in Nat /\ 6 * q + 1 >= 1
      BY <2>1
    <3>2. 6 * q + 1 <= 6 * M /\ s[6 * q + 1] = "#"
      BY <1>2, <1>15, <3>1
    <3>3. CASE \E i \in W : at[i] = q
      BY <1>12, <3>3
    <3>4. CASE \E p \in Requests : StandsAt(p, s, 6 * q + 1) /\ Len(p[1]) >= 3
      BY <1>3, <3>1, <3>4, StandsInFront DEF t
    <3> QED BY <1>6, <3>2, <3>3, <3>4
  <2>2. CASE q = M
    <3>1. CASE L <= 2
      BY <1>8, <1>12, <2>2, <3>1
    <3>2. CASE L > 2
      <4>1. StandsAt(r, t, 6 * q + 1)
        BY <1>2, <2>2
      <4>2. Len(r[1]) >= 3
        BY <1>1, <3>2 DEF L
      <4> QED BY <1>1, <4>1, <4>2
    <3> QED BY <1>1, <3>1, <3>2
  <2>3. CASE q > M
    <3>1. 6 * q + 1 \in (6 * M + 2)..Len(t)
      BY <1>1, <1>2, <1>15, <2>3
    <3> QED BY <1>2, <1>15, <3>1
  <2> QED BY <2>1, <2>2, <2>3
<1>16. InBlocks(new, W2, t, snt2)
  BY <1>12, <1>13, <1>14, <1>15 DEF InBlocks
<1> QED BY <1>9, <1>10, <1>16 DEF W2, t

\* What Led_Controller takes out of the pipe is the first request waiting, or nothing.
LEMMA OrderRead ==
  ASSUME Asked, Asked', InOrder, ~crowded, Led_Controller
  PROVE  InOrder'
<1> DEFINE n == IF Len(fifo) < DATA_LENGTH THEN Len(fifo) ELSE DATA_LENGTH
           b == Filled(led_fifo_buff, SubSeq(fifo, 1, n))
           t == SubSeq(fifo, n + 1, Len(fifo))
<1>1. /\ fifo # <<>> /\ led_fifo_buff' = b /\ fifo' = t /\ sent' = sent /\ crowded' = crowded
      /\ \/ Updates(b) = {} /\ received' = received
         \/ \E u \in Updates(b) : received' = Append(received, u)
  BY DEF Led_Controller
<1>2. /\ fifo \in Seq(Char) /\ sent \in Seq(Requests) /\ received \in Seq(Requests)
      /\ led_fifo_buff \in [0..(DATA_LENGTH - 1) -> Char \cup {"NUL"}]
  BY DEF Asked, BytesType
<1>3. /\ n \in 0..Len(fifo)
      /\ Len(fifo) < DATA_LENGTH => n = Len(fifo)
      /\ Len(fifo) >= DATA_LENGTH => n = DATA_LENGTH
  BY <1>2, LenProperties DEF DATA_LENGTH
<1> HIDE DEF n
<1>4. /\ Len(fifo) \in Nat /\ n \in Nat /\ n >= 1 /\ n <= Len(fifo)
      /\ (Len(fifo) < 6 => n = Len(fifo)) /\ (Len(fifo) >= 6 => n = 6)
      /\ \A j \in 0..5 : j < n => b[j] = fifo[j + 1]
  BY <1>1, <1>2, <1>3, FilledBytes
<1> HIDE DEF b
<1>5. PICK place, at : /\ ReceivedFrom(place, received, sent)
                       /\ Behind(place, received, Waiting(place, received, sent))
                       /\ InBlocks(at, Waiting(place, received, sent), fifo, sent)
  BY DEF InOrder
<1> DEFINE V == Waiting(place, received, sent)
           left == {i \in V : at[i] # 0}
           nearer == [i \in left |-> at[i] - 1]
<1>6. InBlocks(nearer, left, t, sent)
  <2>1. V \in SUBSET (1..Len(sent))
    BY DEF Waiting
  <2> HIDE DEF V
  <2> QED BY <1>2, <1>3, <1>4, <1>5, <2>1, BlocksLeft DEF V
<1>7. CASE \E i \in V : at[i] = 0
  <2>1. PICK i \in V : at[i] = 0
    BY <1>7
  <2> DEFINE p == sent[i]
  <2>2. p \in Requests /\ Len(p[1]) <= 2 /\ StandsAt(p, fifo, 1)
    <3>1. i \in 1..Len(sent) /\ Len(p[1]) <= 2
      BY DEF Waiting
    <3>2. StandsAt(p, fifo, 6 * at[i] + 1)
      BY <1>5 DEF InBlocks
    <3>3. 6 * at[i] + 1 = 1
      BY <2>1
    <3> QED BY <1>2, <3>1, <3>2, <3>3
  <2> HIDE DEF p
  <2>3. Updates(b) # {} /\ \A u \in Updates(b) : u = p
    <3> DEFINE N == Len(fifo)
    <3>1. /\ N \in Nat /\ n \in Nat /\ N = Len(fifo) /\ (N < 6 => n = N) /\ (N >= 6 => n = 6)
          /\ \A j \in 0..5 : j < n => b[j] = fifo[j + 1]
      BY <1>4
    <3> HIDE DEF V, left, nearer, t, N
    <3>2. Updates(b) # {}
      BY <2>2, <3>1, BlockHeard
    <3>3. ASSUME NEW u \in Updates(b) PROVE u = p
      BY <2>2, <3>1, BlockUpdate
    <3> QED BY <3>2, <3>3
  <2>4. received' = Append(received, p)
    BY <1>1, <2>3
  <2>5. PICK new : /\ ReceivedFrom(new, received', sent)
                   /\ Behind(new, received', V \ {i})
                   /\ Waiting(new, received', sent) = V \ {i}
                   /\ \A j \in V : j # i => at[j] # 0
    <3>1. /\ ReceivedFrom(place, received, sent)
          /\ Behind(place, received, Waiting(place, received, sent))
          /\ InBlocks(at, Waiting(place, received, sent), fifo, sent)
          /\ i \in Waiting(place, received, sent) /\ at[i] = 0
      BY <1>5, <2>1
    <3> HIDE DEF V, left, nearer, t
    <3>2. /\ Leaves(Waiting(place, received, sent) \ {i}, Append(received, sent[i]), sent)
          /\ \A j \in Waiting(place, received, sent) : j # i => at[j] # 0
      BY <1>2, <3>1, OrderHeard
    <3>3. Leaves(V \ {i}, received', sent)
      BY <2>4, <3>2 DEF p, V
    <3> QED BY <3>2, <3>3 DEF Leaves, V
  <2>6. left = V \ {i}
    BY <2>1, <2>5
  <2> HIDE DEF V, left, nearer, t
  <2>7. /\ ReceivedFrom(new, received', sent')
        /\ Behind(new, received', Waiting(new, received', sent'))
        /\ InBlocks(nearer, Waiting(new, received', sent'), fifo', sent')
    BY <1>1, <1>6, <2>5, <2>6
  <2> QED BY <2>7 DEF InOrder
<1>8. CASE \A i \in V : at[i] # 0
  <2>1. left = V
    BY <1>8
  <2>2. Updates(b) = {}
    <3>1. CASE b[0] = "#"
      <4>1. fifo[1] = "#" /\ 6 * 0 + 1 = 1 /\ 0 \in Nat
        <5>1. b[0] = fifo[0 + 1]
          BY <1>4
        <5> QED BY <3>1, <5>1
      <4>2. 6 * 0 + 1 <= Len(fifo) /\ fifo[6 * 0 + 1] = "#"
        BY <1>4, <4>1
      <4>3. \/ \E i \in V : at[i] = 0
            \/ \E r \in Requests : StandsAt(r, fifo, 6 * 0 + 1) /\ Len(r[1]) >= 3
        <5> HIDE DEF V
        <5> QED BY <1>5, <4>2 DEF InBlocks, V
      <4>4. PICK r \in Requests : StandsAt(r, fifo, 1) /\ Len(r[1]) >= 3
        BY <1>8, <4>1, <4>3
      <4> QED BY <1>4, <4>4, BlockSilent
    <3>2. CASE b[0] # "#"
      BY <3>2 DEF Updates, Marked
    <3> QED BY <3>1, <3>2
  <2>3. received' = received
    BY <1>1, <2>2
  <2>4. InBlocks(nearer, V, t, sent)
    BY <1>6, <2>1
  <2> HIDE DEF nearer, t
  <2>5. /\ ReceivedFrom(place, received', sent')
        /\ Behind(place, received', Waiting(place, received', sent'))
        /\ InBlocks(nearer, Waiting(place, received', sent'), fifo', sent')
    BY <1>1, <1>5, <2>3, <2>4
  <2> QED BY <2>5 DEF InOrder
<1> QED BY <1>7, <1>8

\* Every step keeps the order of the messages.
LEMMA OrderStep == Asked /\ Asked' /\ InOrder /\ [Next]_vars => InOrder'
<1> SUFFICES ASSUME Asked, Asked', InOrder, [Next]_vars, ~crowded' PROVE InOrder'
  BY DEF InOrder
<1>1. ASSUME NEW number \in Numbers, NEW value \in {"0", "1", "2"}, led_manager(number, value)
      PROVE  InOrder'
  <2>1. /\ fifo' = fifo \o Request(number, value) /\ received' = received
        /\ sent' = Append(sent, <<number, Digit[value]>>)
        /\ ~crowded /\ Even(fifo)
    BY <1>1 DEF led_manager
  <2>2. fifo \in Seq(Char) /\ sent \in Seq(Requests) /\ received \in Seq(Requests)
    BY DEF Asked, BytesType
  <2>3. PICK M \in Nat : Len(fifo) = 6 * M
    <3> DEFINE N == Len(fifo)
    <3>1. N \in Nat /\ N % 6 = 0
      BY <2>1, <2>2, LenProperties DEF Even, DATA_LENGTH
    <3> HIDE DEF N
    <3>2. N = 6 * (N \div 6) /\ N \div 6 \in Nat
      BY <3>1
    <3> QED BY <3>2 DEF N
  <2>4. PICK place, at : /\ ReceivedFrom(place, received, sent)
                         /\ Behind(place, received, Waiting(place, received, sent))
                         /\ InBlocks(at, Waiting(place, received, sent), fifo, sent)
    BY <2>1 DEF InOrder
  <2>5. /\ ReceivedFrom(place, received, sent')
        /\ Behind(place, received, Waiting(place, received, sent'))
        /\ \E new : InBlocks(new, Waiting(place, received, sent'), fifo', sent')
    BY <2>1, <2>2, <2>3, <2>4, OrderWritten
  <2> QED BY <2>1, <2>5 DEF InOrder
<1>2. CASE Led_Controller
  <2>1. ~crowded
    BY <1>2 DEF Led_Controller
  <2> QED BY <1>2, <2>1, OrderRead
<1>3. CASE Led_Controller_Processing
  <2>1. UNCHANGED <<fifo, sent, received, crowded>>
    BY <1>3 DEF Led_Controller_Processing, TestOn, TestOff, MarkExecuted, TestToggle, At
  <2> QED BY <2>1 DEF InOrder
<1>4. CASE UNCHANGED vars
  BY <1>4 DEF vars, InOrder
<1> QED BY <1>1, <1>2, <1>3, <1>4 DEF Next

\* Requests for LEDs of one and two digits all arrive at Led_Controller, in order and
\* once, as long as none is written behind an unread one that is not DATA_LENGTH long:
\* however many there are, and whatever longer ones lie between them.
THEOREM ArrivesInOrder == Spec => []ArrivesUnlessCrowded
<1>1. Init => Asked /\ InOrder
  <2> SUFFICES ASSUME Init PROVE InOrder
    BY AskedInit
  <2>1. fifo = <<>> /\ sent = <<>> /\ received = <<>>
    BY DEF Init
  <2>2. \A place : Waiting(place, received, sent) = {}
    BY <2>1 DEF Waiting
  <2>3. \E place : ReceivedFrom(place, received, sent)
    <3> DEFINE none == [k \in 1..Len(received) |-> 1]
    <3>1. 1..Len(received) = {}
      BY <2>1
    <3>2. ReceivedFrom(none, received, sent)
      BY <3>1 DEF ReceivedFrom
    <3> QED BY <3>2
  <2>4. \E at : InBlocks(at, {}, fifo, sent)
    <3> DEFINE none == [i \in {} |-> 1]
    <3>1. none \in [{} -> Nat] /\ Len(fifo) = 0
      BY <2>1
    <3>2. \A q \in Nat : ~(6 * q + 1 <= Len(fifo))
      BY <3>1
    <3> HIDE DEF none
    <3>3. InBlocks(none, {}, fifo, sent)
      BY <3>1, <3>2 DEF InBlocks
    <3> QED BY <3>3
  <2> QED BY <2>2, <2>3, <2>4 DEF InOrder, Behind
<1>2. Asked /\ InOrder => ArrivesUnlessCrowded
  <2> SUFFICES ASSUME Asked, InOrder, ~crowded PROVE ArrivesUnlessCrowded
    BY DEF ArrivesUnlessCrowded
  <2>1. PICK place, at : /\ ReceivedFrom(place, received, sent)
                         /\ Behind(place, received, Waiting(place, received, sent))
                         /\ InBlocks(at, Waiting(place, received, sent), fifo, sent)
    BY DEF InOrder
  <2> DEFINE W == Waiting(place, received, sent)
             K == Len(received)
  <2>2. /\ place \in [1..K -> 1..Len(sent)]
        /\ \A k \in 1..K : Len(sent[place[k]][1]) <= 2 /\ received[k] = sent[place[k]]
        /\ \A k, l \in 1..K : k < l => place[k] < place[l]
    BY <2>1 DEF ReceivedFrom
  <2>3. place \in [1..K -> Short] /\ DOMAIN place = 1..K
    BY <2>2 DEF Short
  <2>4. ASSUME NEW i \in Short, i \notin Range(place) PROVE i \in W
    <3>1. \A k \in 1..K : place[k] # i
      BY <2>3, <2>4 DEF Range
    <3> QED BY <3>1 DEF Short, Waiting
  <2>5. ASSUME NEW i \in W, fifo = <<>> PROVE FALSE
    <3>1. StandsAt(sent[i], fifo, 6 * at[i] + 1) /\ at[i] \in Nat
      BY <2>1 DEF InBlocks
    <3>2. sent[i] \in Requests
      BY DEF Asked, Waiting
    <3> DEFINE L == Len(sent[i][1])
    <3>3. L \in Nat /\ 6 * at[i] + 1 + L + 3 <= Len(fifo)
      BY <3>1, <3>2, RequestNumber DEF StandsAt
    <3>4. Len(fifo) = 0
      BY <2>5
    <3> HIDE DEF L
    <3> QED BY <3>1, <3>3, <3>4
  <2>6. ASSUME NEW i \in W, NEW k \in 1..K, i < place[k] PROVE FALSE
    <3>1. place[k] < i /\ place[k] \in Nat /\ i \in Nat
      BY <2>1, <2>2 DEF Behind, Waiting
    <3> QED BY <2>6, <3>1
  <2> HIDE DEF W, K
  <2>7. /\ \A k \in DOMAIN place : received[k] = sent[place[k]]
        /\ \A k, l \in DOMAIN place : k < l => place[k] < place[l]
        /\ \A i \in Short :
               fifo = <<>> \/ (\E k \in DOMAIN place : i < place[k]) => i \in Range(place)
    BY <2>2, <2>3, <2>4, <2>5, <2>6
  <2> QED BY <2>3, <2>7 DEF ArrivesUnlessCrowded, K
<1>3. Asked /\ InOrder /\ [Next]_vars => (Asked /\ InOrder)'
  BY AskedStep, OrderStep
<1> DEFINE I == Asked /\ InOrder
<1> HIDE DEF I
<1>4. (Init => I) /\ (I /\ [Next]_vars => I') /\ (I => ArrivesUnlessCrowded)
  BY <1>1, <1>2, <1>3 DEF I
<1> QED BY <1>4, PTL DEF Spec
=============================================================================
