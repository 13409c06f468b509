---------------------------- MODULE LedController ----------------------------
(***************************************************************************)
(* The LED manager and the LED controller (LED_Manager).                   *)
(*                                                                         *)
(*   led_manager -o n v  --"#n~v!"-->  fifo  -->  Led_Controller           *)
(*                                                    | GPIO[n].state      *)
(*                                     Led_Controller_Processing --> pins  *)
(*                                                                         *)
(* Requests have no framing but their own marks, and the reader always     *)
(* asks for DATA_LENGTH bytes: a request for a one-digit LED is shorter, a  *)
(* longer number makes it longer.  The two threads share GPIO without a    *)
(* lock.                                                                   *)
(***************************************************************************)
EXTENDS Naturals, SequencesExt

CONSTANTS
    NUMBER_OF_LED,   \* entries of GPIO, 4 in the code
    Numbers,         \* LED numbers requests are made for, as sequences of digits
    Leftovers,       \* digits the stack may hold from value[2] on, up to another byte
    MaxRequests      \* bound: requests made

Digit == [c \in {"0", "1", "2", "3", "4", "5", "6", "7", "8", "9"} |->
    CASE c = "0" -> 0 [] c = "1" -> 1 [] c = "2" -> 2 [] c = "3" -> 3 [] c = "4" -> 4
      [] c = "5" -> 5 [] c = "6" -> 6 [] c = "7" -> 7 [] c = "8" -> 8 [] c = "9" -> 9]

ASSUME LedAssumption ==
    /\ NUMBER_OF_LED \in Nat \ {0}
    /\ MaxRequests \in Nat
    /\ \A n \in Numbers : n \in Seq(DOMAIN Digit) /\ n # <<>>
    /\ Leftovers \subseteq Seq(DOMAIN Digit)

DATA_LENGTH == 6
Led == 0..(NUMBER_OF_LED - 1)

VARIABLES
    fifo,           \* bytes in the pipe
    led_fifo_buff,  \* what is not overwritten by a short read stays in it
    behind,         \* value[2] and on: never written, whatever the stack held
    GPIO,           \* the shared table: state and flag of every LED
    proc,           \* where Led_Controller_Processing is: LED and step
    pin,            \* what each pin was last driven to (2: not yet)
    sent,           \* ghost: requests written, <<number, value>>
    received,       \* ghost: updates made by Led_Controller
    crowded,        \* ghost: a request was written behind an unread odd-sized one
    wanted,         \* ghost: the last update of each LED
    raced           \* ghost: it came while the LED was being driven

vars == <<fifo, led_fifo_buff, behind, GPIO, proc, pin, sent, received, crowded, wanted, raced>>

EXECUTED == 5
Undriven == 2

Init ==
    /\ fifo = <<>> /\ led_fifo_buff = [k \in 0..(DATA_LENGTH - 1) |-> "NUL"]
    /\ behind \in Leftovers
    /\ GPIO = [i \in Led |-> [state |-> 0, flag |-> 0]]
    /\ proc = [led |-> 0, at |-> "ON"]
    /\ pin = [i \in Led |-> Undriven]
    /\ sent = <<>> /\ received = <<>> /\ crowded = FALSE
    /\ wanted = [i \in Led |-> 0] /\ raced = [i \in Led |-> FALSE]

-----------------------------------------------------------------------------
(* led_manager -o number value: one write() of the whole request *)

Request(number, value) == <<"#">> \o number \o <<"~", value, "!">>

\* Whether the bytes in the pipe will be read in blocks that end with them.
Even(bytes) == Len(bytes) % DATA_LENGTH = 0

led_manager(number, value) ==
    /\ Len(sent) < MaxRequests
    /\ fifo' = fifo \o Request(number, value)
    /\ sent' = Append(sent, <<number, Digit[value]>>)
    /\ crowded' = (crowded \/ ~Even(fifo))
    /\ UNCHANGED <<led_fifo_buff, behind, GPIO, proc, pin, received, wanted, raced>>

-----------------------------------------------------------------------------
(* Led_Controller: read DATA_LENGTH bytes, or what there is *)

Filled(buff, bytes) ==
    [k \in DOMAIN buff |-> IF k < Len(bytes) THEN bytes[k + 1] ELSE buff[k]]

\* Mutant of Marked: the shorter requests not allowed for.
MarkedLong(b)  == b[0] = "#" /\ b[DATA_LENGTH - 1] = "!"

Marked(b) == b[0] = "#" /\ (b[DATA_LENGTH - 1] = "!" \/ b[DATA_LENGTH - 2] = "!")

\* Any value but 1 and 2 means off.
Value(c) == CASE c = "1" -> 1 [] c = "2" -> 2 [] OTHER -> 0

\* Mutant of Updates: the two-digit form read one byte too early.
UpdatesEarly(b) ==
    CASE Marked(b) /\ b[2] = "~" -> {<< <<b[1]>>, Value(b[3])>>}
      [] Marked(b) /\ b[2] # "~" /\ b[3] = "~" -> {<< <<b[1], b[2]>>, Value(b[3])>>}
      [] OTHER -> {}

\* The updates a block asks for: none, or one.
Updates(b) ==
    CASE Marked(b) /\ b[2] = "~" -> {<< <<b[1]>>, Value(b[3])>>}
      [] Marked(b) /\ b[2] # "~" /\ b[3] = "~" -> {<< <<b[1], b[2]>>, Value(b[4])>>}
      [] OTHER -> {}

\* sscanf(value, "%d", &gpio_number).  One digit has the NUL of the memset()
\* behind it; two digits run on into whatever the stack holds.
gpio_number(digits) ==
    FoldLeft(LAMBDA n, c : 10 * n + Digit[c], 0,
             IF Len(digits) = 1 THEN digits ELSE digits \o behind)

\* GPIO[n].state = v.  A number beyond the table writes to memory that no
\* pin depends on.
update_structure(n, v) ==
    /\ GPIO' = IF n \in Led THEN [GPIO EXCEPT ![n].state = v] ELSE GPIO
    /\ wanted' = IF n \in Led THEN [wanted EXCEPT ![n] = v] ELSE wanted
    /\ raced' = IF n \in Led
                THEN [raced EXCEPT ![n] = proc = [led |-> n, at |-> "DRIVEN"]] ELSE raced

Led_Controller ==
    /\ fifo # <<>>
    /\ LET n == IF Len(fifo) < DATA_LENGTH THEN Len(fifo) ELSE DATA_LENGTH
       IN  /\ led_fifo_buff' = Filled(led_fifo_buff, SubSeq(fifo, 1, n))
           /\ fifo' = SubSeq(fifo, n + 1, Len(fifo))
    /\ \/ /\ Updates(led_fifo_buff') = {}
          /\ UNCHANGED <<GPIO, wanted, raced, received>>
       \/ \E u \in Updates(led_fifo_buff') :
              /\ update_structure(gpio_number(u[1]), u[2])
              /\ received' = Append(received, u)
    /\ UNCHANGED <<behind, proc, pin, sent, crowded>>

-----------------------------------------------------------------------------
(* Led_Controller_Processing: LED by LED, one test of the state after the   *)
(* other, each a read of its own                                           *)

state == GPIO[proc.led].state

At(step) ==
    /\ proc.at = step
    /\ UNCHANGED <<fifo, led_fifo_buff, behind, sent, received, crowded, wanted, raced>>
Step(step) == proc' = [proc EXCEPT !.at = step]
\* Mutant of NextLed: i <= NUMBER_OF_LED.
NextLedPastEnd == proc' = [led |-> (proc.led + 1) % (NUMBER_OF_LED + 1), at |-> "ON"]
NextLed == proc' = [led |-> (proc.led + 1) % NUMBER_OF_LED, at |-> "ON"]
Drive(level) == pin' = [pin EXCEPT ![proc.led] = level]

\* state == 1, then state == 0: the pin is driven and the state marked later.
TestOn  == /\ At("ON")
           /\ IF state = 1 THEN Drive(1) /\ Step("DRIVEN") ELSE Step("OFF") /\ pin' = pin
           /\ UNCHANGED GPIO
TestOff == /\ At("OFF")
           /\ IF state = 0 THEN Drive(0) /\ Step("DRIVEN") ELSE Step("TOGGLE") /\ pin' = pin
           /\ UNCHANGED GPIO

\* Mutant of Mark: all LEDs are marked.
MarkAll == GPIO' = [i \in Led |-> [GPIO[i] EXCEPT !.state = EXECUTED]]

Mark == GPIO' = [GPIO EXCEPT ![proc.led].state = EXECUTED]
MarkExecuted == At("DRIVEN") /\ Mark /\ NextLed /\ UNCHANGED pin

\* Mutant of Toggled: the flag is set and never cleared.
ToggledStuck(flag) == 1
Toggled(flag) == 1 - flag
TestToggle ==
    /\ At("TOGGLE") /\ NextLed
    /\ IF state = 2
       THEN /\ Drive(GPIO[proc.led].flag)
            /\ GPIO' = [GPIO EXCEPT ![proc.led].flag = Toggled(@)]
       ELSE UNCHANGED <<GPIO, pin>>

Led_Controller_Processing == TestOn \/ TestOff \/ MarkExecuted \/ TestToggle

Next == \/ \E number \in Numbers, value \in {"0", "1", "2"} : led_manager(number, value)
        \/ Led_Controller
        \/ Led_Controller_Processing

\* Both threads are scheduled; nothing makes a user ask for anything.
Spec == Init /\ [][Next]_vars /\ WF_vars(Led_Controller) /\ WF_vars(Led_Controller_Processing)

-----------------------------------------------------------------------------
(* Properties *)

Char == DOMAIN Digit \cup {"#", "~", "!"}

\* The table, the pins and the pipe keep to their types.
TypeOK ==
    /\ fifo \in Seq(Char)
    /\ led_fifo_buff \in [0..(DATA_LENGTH - 1) -> Char \cup {"NUL"}]
    /\ behind \in Leftovers
    /\ GPIO \in [Led -> [state : {0, 1, 2, EXECUTED}, flag : {0, 1}]]
    /\ proc \in [led : Led, at : {"ON", "OFF", "DRIVEN", "TOGGLE"}]
    /\ pin \in [Led -> {0, 1, Undriven}]
    /\ wanted \in [Led -> 0..2] /\ raced \in [Led -> BOOLEAN] /\ crowded \in BOOLEAN

\* However the requests fall into the blocks that are read, and whatever an
\* earlier block has left in the buffer, no update is made whose digits and value
\* nobody asked for.  (Which LED two digits end up as is gpio_number's affair.)
OnlyWhatWasAsked == Range(received) \subseteq Range(sent)

\* Requests for LEDs of one or two digits all arrive, in order and once, as long
\* as none is written behind an unread one whose size is not DATA_LENGTH: what
\* Led_Controller has received stands at growing places among those requests, none
\* in front of a received one is left out, and none at all once the pipe is empty.
Short == {i \in 1..Len(sent) : Len(sent[i][1]) <= 2}
ArrivesUnlessCrowded ==
    ~crowded =>
        \E place \in [1..Len(received) -> Short] :
            /\ \A k \in DOMAIN place : received[k] = sent[place[k]]
            /\ \A k, l \in DOMAIN place : k < l => place[k] < place[l]
            /\ \A i \in Short :
                   fifo = <<>> \/ (\E k \in DOMAIN place : i < place[k]) => i \in Range(place)

\* A state marked as executed was executed: the pin is at the level last asked
\* for, unless that request came between the driving and the marking.
ExecutedUnlessRaced ==
    \A i \in Led : GPIO[i].state = EXECUTED /\ ~raced[i] => pin[i] = wanted[i]

\* Every level asked for is reached, unless another request or the race above
\* gets in between; an LED that is left to toggle keeps blinking.
LevelIsReached ==
    \A i \in Led, v \in {0, 1} :
        wanted[i] = v /\ ~raced[i] ~> pin[i] = v \/ wanted[i] # v \/ raced[i]
Blinks == \A i \in Led :
    <>[](GPIO[i].state = 2) => []<>(pin[i] = 0) /\ []<>(pin[i] = 1)
=============================================================================
