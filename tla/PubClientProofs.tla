--------------------------- MODULE PubClientProofs ---------------------------
(***************************************************************************)
(* Theorems about mosquitto_pub, for every block size, largest id, input   *)
(* and bound: the variables keep to their types, and the client ends by    *)
(* itself only when everything was read and acknowledged.                  *)
(***************************************************************************)
EXTENDS PubClient, SequenceTheorems, TLAPS

At == [pos : Nat, read_len : Nat, buf_len : Nat, read : Nat]

\* The strengthening: pos is within what was read as long as more of the line follows.
ReaderInv ==
    /\ at.read_len >= Block /\ at.buf_len >= Block
    /\ stdin # <<>> /\ Rest > 0 => at.pos <= Len(buf)

TypeInv ==
    TypeOK /\ ReaderInv /\ faults \in [losses : Nat, failures : Nat] /\ lapped \in BOOLEAN

\* The next message id is an id.
LEMMA NextMidType == ASSUME NEW mid \in Ids \cup {0} PROVE NextMid(mid) \in Ids
<1>1. mid \in Nat /\ MaxMid \in Nat /\ MaxMid > 0
  BY PubAssumption DEF Ids
<1>2. mid % MaxMid \in 0..(MaxMid - 1)
  BY <1>1
<1> QED BY <1>1, <1>2 DEF NextMid, Ids

\* The types hold initially, and every action keeps them.
LEMMA TypeInit == Init => TypeInv
<1> SUFFICES ASSUME Init PROVE TypeInv
  OBVIOUS
<1>1. mode \in Mode /\ stdin \in Seq(Line)
  <2>1. CASE mode = "STDIN_LINE"
    BY <2>1, PubAssumption DEF Init
  <2>2. CASE mode # "STDIN_LINE"
    BY <2>2, PubAssumption DEF Init
  <2> QED BY <2>1, <2>2
<1>2. at \in At /\ at.read_len = Block /\ at.buf_len = Block /\ at.pos = 0
  BY PubAssumption DEF Init, Start, At
<1>3. ReaderInv
  BY <1>2, PubAssumption DEF Init, ReaderInv
<1>4. TypeOK
  <2>1. connected \in BOOLEAN /\ disconnect_sent \in BOOLEAN /\ closing \in BOOLEAN
    BY DEF Init
  <2>2. inflight \in Seq(Ids) /\ buf \in Seq(Nat)
    BY DEF Init
  <2>3. /\ mid_sent \in Ids \cup {0} /\ last_mid \in Ids \cup {-1, 0}
        /\ last_mid_sent \in Ids \cup {-1} /\ rc \in 0..1 /\ cb \in Ids \cup {0}
    BY DEF Init
  <2> QED BY <1>1, <1>2, <2>1, <2>2, <2>3 DEF Init, TypeOK, At
<1> QED BY <1>3, <1>4 DEF Init, TypeInv

\* What mosquitto_publish() does to the types, whether it succeeds or fails.
LEMMA PublishType ==
    ASSUME TypeInv, Accepted(NextMid(mid_sent)) \/ Failed(NextMid(mid_sent))
    PROVE  /\ mid_sent' \in Ids \cup {0} /\ inflight' \in Seq(Ids)
           /\ faults' \in [losses : Nat, failures : Nat] /\ lapped' \in BOOLEAN
           /\ closing' \in BOOLEAN
<1> DEFINE mid == NextMid(mid_sent)
<1>1. mid \in Ids
  BY NextMidType DEF TypeInv, TypeOK
<1> HIDE DEF mid
<1>2. CASE Accepted(mid)
  <2>1. lapped' = (lapped \/ InUse(mid)) /\ lapped \in BOOLEAN
    BY <1>2 DEF Accepted, TypeInv
  <2>2. lapped' \in BOOLEAN
    BY <2>1, Zenon
  <2>3. mid_sent' = mid /\ inflight' = Append(inflight, mid) /\ inflight \in Seq(Ids)
    BY <1>2 DEF Accepted, TypeInv, TypeOK
  <2>4. closing' \in BOOLEAN /\ faults' \in [losses : Nat, failures : Nat]
    BY <1>2 DEF Accepted, TypeInv, TypeOK
  <2> QED BY <1>1, <2>2, <2>3, <2>4
<1>3. CASE Failed(mid)
  <2>1. lapped' = (lapped \/ InUse(mid)) /\ lapped \in BOOLEAN
    BY <1>3 DEF Failed, TypeInv
  <2>2. lapped' \in BOOLEAN
    BY <2>1, Zenon
  <2>3. mid_sent' \in {mid_sent, mid} /\ mid_sent \in Ids \cup {0} /\ inflight' \in Seq(Ids)
    BY <1>3 DEF Failed, TypeInv, TypeOK
  <2>4. closing' \in BOOLEAN
    BY <1>3 DEF Failed
  <2>5. faults' \in [losses : Nat, failures : Nat]
    <3>1. /\ faults \in [losses : Nat, failures : Nat] /\ faults.failures \in Nat
          /\ \A n \in Nat : [faults EXCEPT !.failures = n] \in [losses : Nat, failures : Nat]
      BY DEF TypeInv
    <3>2. faults' = [faults EXCEPT !.failures = IF net = "UP" THEN faults.failures + 1
                                                              ELSE faults.failures]
      BY <1>3 DEF Failed
    <3> QED BY <3>1, <3>2
  <2> QED BY <1>1, <2>2, <2>3, <2>4, <2>5
<1> QED BY <1>2, <1>3 DEF mid

\* The line being read: its length, what a call of fgets() adds, and the buffer.
LEMMA ReaderType ==
    ASSUME TypeInv, stdin # <<>>, Rest > 0
    PROVE  /\ Tail(stdin) \in Seq(Line)
           /\ Rest \in Nat /\ Gathered \in Seq(Nat)
           /\ Len(Chunk) = IF Rest < at.read_len - 1 THEN Rest ELSE at.read_len - 1
           /\ Len(Gathered) = at.pos + Len(Chunk)
<1>1. Head(stdin) \in Line /\ Tail(stdin) \in Seq(Line)
  BY DEF TypeInv, TypeOK
<1>2. at \in At /\ buf \in Seq(Nat) /\ at.pos <= Len(buf) /\ at.read_len >= Block
  BY DEF TypeInv, TypeOK, ReaderInv, At
<1>3. Head(stdin).length \in Nat
  BY <1>1 DEF Line
<1>4. Rest \in Nat
  BY <1>2, <1>3 DEF Rest, At
<1> DEFINE size == IF Rest < at.read_len - 1 THEN Rest ELSE at.read_len - 1
<1>5. size \in Nat
  BY <1>2, <1>4, PubAssumption DEF At
<1>6. \A k \in 1..size : Char(at.read + k) \in Nat
  BY <1>2, <1>5 DEF At, Char, NL
<1>7. Chunk \in Seq(Nat) /\ Len(Chunk) = size
  BY <1>5, <1>6 DEF Chunk
<1> HIDE DEF size
<1>8. SubSeq(buf, 1, at.pos) \in Seq(Nat) /\ Len(SubSeq(buf, 1, at.pos)) = at.pos
  <2>1. at.pos \in Nat /\ 1 \in Int /\ at.pos \in Int
    BY <1>2 DEF At
  <2>2. \A i \in 1..at.pos : buf[i] \in Nat
    BY <1>2, <2>1
  <2> QED BY <2>1, <2>2, SubSeqProperties
<1>9. Gathered \in Seq(Nat) /\ Len(Gathered) = at.pos + Len(Chunk)
  BY <1>7, <1>8 DEF Gathered
<1> QED BY <1>1, <1>4, <1>7, <1>9 DEF size

\* A line that is not complete leaves pos within the buffer, or nothing to read.
LEMMA FgetsType == TypeInv /\ Fgets => at' \in At /\ buf' \in Seq(Nat) /\ ReaderInv'
<1> SUFFICES ASSUME TypeInv, Fgets PROVE at' \in At /\ buf' \in Seq(Nat) /\ ReaderInv'
  OBVIOUS
<1>1. /\ stdin # <<>> /\ Rest > 0 /\ buf' = Gathered /\ at' = Grown(at) /\ stdin' = stdin
  BY DEF Fgets
<1>2. /\ at.pos \in Nat /\ at.read_len \in Nat /\ at.buf_len \in Nat /\ at.read \in Nat
      /\ at.read_len >= Block /\ at.buf_len >= Block
  BY DEF TypeInv, TypeOK, ReaderInv
<1>3. Len(Chunk) \in Nat /\ Rest \in Nat
  BY <1>1, <1>2, ReaderType, PubAssumption
<1>4. /\ at'.pos = at.pos + Block - 1 /\ at'.read_len = Block
      /\ at'.buf_len = at.buf_len + Block /\ at'.read = at.read + Len(Chunk)
  BY <1>1 DEF Grown
<1>5. at' \in At
  <2>0. Block \in Nat /\ Block > 1
    BY PubAssumption
  <2>1. /\ at.pos + Block - 1 \in Nat /\ Block \in Nat /\ at.buf_len + Block \in Nat
        /\ at.read + Len(Chunk) \in Nat
    <3>1. ASSUME NEW p \in Nat, NEW n \in Nat, NEW m \in Nat, m > 1
          PROVE  p + m - 1 \in Nat /\ p + n \in Nat /\ p + m \in Nat
      BY <3>1
    <3> QED BY <1>2, <1>3, <2>0, <3>1
  <2>2. at' = [pos |-> at'.pos, read_len |-> at'.read_len, buf_len |-> at'.buf_len,
               read |-> at'.read]
    BY <1>1 DEF Grown
  <2> QED BY <1>4, <2>1, <2>2 DEF At
<1>6. Head(stdin) \in Line
  BY <1>1 DEF TypeInv, TypeOK
<1>7. Rest' = Rest - Len(Chunk)
  BY <1>1, <1>2, <1>3, <1>4, <1>6 DEF Rest, Line
<1>8. Rest' > 0 => at'.pos <= Len(buf')
  <2>1. Len(Chunk) = IF Rest < at.read_len - 1 THEN Rest ELSE at.read_len - 1
    BY <1>1, ReaderType
  <2>2. Len(buf') = at.pos + Len(Chunk)
    BY <1>1, ReaderType
  <2> DEFINE count == Len(Chunk)
  <2> HIDE DEF count
  <2>3. Rest' > 0 => count = at.read_len - 1
    BY <1>2, <1>3, <1>7, <2>1 DEF count
  <2>4. Len(buf') = at.pos + count /\ count \in Nat
    BY <1>3, <2>2 DEF count
  <2>5. SUFFICES ASSUME Rest' > 0 PROVE at.pos + Block - 1 <= at.pos + count
    BY <1>4, <2>4
  <2>6. count = at.read_len - 1
    BY <2>3, <2>5
  <2>7. at.pos \in Nat /\ at.read_len \in Nat /\ at.read_len >= Block /\ Block \in Nat
    BY <1>2, PubAssumption
  <2> HIDE DEF count
  <2> QED BY <2>4, <2>6, <2>7
<1>9. at'.read_len >= Block /\ at'.buf_len >= Block
  BY <1>2, <1>4, PubAssumption
<1>10. buf' \in Seq(Nat)
  BY <1>1, ReaderType
<1>11. ReaderInv'
  BY <1>8, <1>9 DEF ReaderInv
<1> QED BY <1>5, <1>10, <1>11

\* Publishing a line keeps the types.
LEMMA PublishLineType == TypeInv /\ PublishLine => TypeInv'
<1> SUFFICES ASSUME TypeInv, PublishLine PROVE TypeInv'
  OBVIOUS
<1>1. stdin # <<>> /\ Rest > 0
  BY DEF PublishLine
<1>2. Accepted(NextMid(mid_sent)) \/ Failed(NextMid(mid_sent))
  BY DEF PublishLine
<1>3. at.buf_len \in Nat /\ at.buf_len >= Block
  BY DEF TypeInv, TypeOK, ReaderInv
<1>4. /\ at' \in At /\ at'.pos = 0 /\ at'.read_len = at.buf_len /\ at'.buf_len = at.buf_len
  BY <1>3 DEF PublishLine, Start, At
<1>5. stdin' \in Seq(Line) /\ buf' = <<>>
  BY <1>1, ReaderType DEF PublishLine
<1>6. ReaderInv'
  BY <1>3, <1>4, <1>5 DEF ReaderInv
<1>7. /\ mid_sent' \in Ids \cup {0} /\ inflight' \in Seq(Ids) /\ closing' \in BOOLEAN
      /\ faults' \in [losses : Nat, failures : Nat] /\ lapped' \in BOOLEAN
  BY <1>2, PublishType
<1>8. TypeOK'
  BY <1>4, <1>5, <1>7 DEF PublishLine, TypeInv, TypeOK, At
<1> QED BY <1>6, <1>7, <1>8 DEF TypeInv

\* The other steps leave the line being read alone.
LEMMA ReaderKept ==
    TypeInv /\ UNCHANGED reader => ReaderInv'
BY DEF TypeInv, ReaderInv, Rest, reader

\* The end of a connection counts, and may be an error.
LEMMA LostStep ==
    ASSUME TypeInv, Refuse \/ Lose
    PROVE  /\ faults' \in [losses : Nat, failures : Nat] /\ rc' \in 0..1
           /\ net' = "CLOSED" /\ connected' = FALSE
           /\ UNCHANGED <<mode, status, mid_sent, last_mid, last_mid_sent, disconnect_sent,
                          main, reader, closing, inflight, cb, sent, lapped>>
<1>1. faults \in [losses : Nat, failures : Nat]
  BY DEF TypeInv
<1>2. faults' = [faults EXCEPT !.losses = faults.losses + 1]
  BY Zenon DEF Refuse, Lose
<1>3. faults' \in [losses : Nat, failures : Nat]
  BY <1>1, <1>2
<1>4. Ended /\ UNCHANGED <<main, reader, closing, inflight, cb, sent, lapped>>
  BY Zenon DEF Refuse, Lose
<1>5. rc' \in 0..1
  BY <1>4 DEF Ended, EndStatus, TypeInv, TypeOK
<1> QED BY <1>3, <1>4, <1>5 DEF Ended

\* A step that leaves the input, the ids and the messages alone.
LEMMA TypeKept ==
    ASSUME TypeInv, UNCHANGED <<mode, status, mid_sent, last_mid, last_mid_sent, reader,
                                inflight, lapped>>,
           main' \in {"LOAD", "CONNECT", "BODY", "EOF", "CHECK", "JOIN", "DONE"},
           rc' \in 0..1, net' \in {"CLOSED", "CONNECTING", "UP"}, cb' \in Ids \cup {0},
           connected' \in BOOLEAN, disconnect_sent' \in BOOLEAN, closing' \in BOOLEAN,
           faults' \in [losses : Nat, failures : Nat]
    PROVE  TypeInv'
<1>1. ReaderInv'
  BY ReaderKept
<1>2. lapped' \in BOOLEAN
  BY Zenon DEF TypeInv
<1>3. stdin' = stdin /\ buf' = buf /\ at' = at
  BY DEF reader
<1>4. /\ mode' \in Mode /\ status' \in {"CONNECTING", "CONNACK_RECVD", "WAITING"}
      /\ mid_sent' \in Ids \cup {0} /\ last_mid' \in Ids \cup {-1, 0}
      /\ last_mid_sent' \in Ids \cup {-1} /\ inflight' \in Seq(Ids)
  BY Zenon DEF TypeInv, TypeOK
<1>5. /\ stdin' \in Seq(Line) /\ buf' \in Seq(Nat)
      /\ at' \in [pos : Nat, read_len : Nat, buf_len : Nat, read : Nat]
  BY <1>3, Zenon DEF TypeInv, TypeOK
<1>6. TypeOK'
  BY <1>4, <1>5, Zenon DEF TypeOK
<1> QED BY <1>1, <1>2, <1>6 DEF TypeInv

LEMMA TypeNext == TypeInv /\ [Next]_vars => TypeInv'
<1> SUFFICES ASSUME TypeInv, [Next]_vars PROVE TypeInv'  OBVIOUS
<1>0. /\ main \in {"LOAD", "CONNECT", "BODY", "EOF", "CHECK", "JOIN", "DONE"}
      /\ rc \in 0..1 /\ net \in {"CLOSED", "CONNECTING", "UP"} /\ cb \in Ids \cup {0}
      /\ connected \in BOOLEAN /\ disconnect_sent \in BOOLEAN /\ closing \in BOOLEAN
      /\ faults \in [losses : Nat, failures : Nat]
  BY Zenon DEF TypeInv, TypeOK
<1>1. CASE Poll
  <2>1. /\ main' = "CHECK"
        /\ UNCHANGED <<mode, status, mid_sent, last_mid, last_mid_sent, connected,
                       rc, reader, net, inflight, cb, used>>
    BY <1>1, Zenon DEF Poll
  <2>2. closing' \in BOOLEAN /\ disconnect_sent' \in BOOLEAN
    BY <1>0, <1>1, Zenon DEF Poll
  <2> QED BY <1>0, <2>1, <2>2, TypeKept DEF used
<1>2. CASE Disconnected
  <2>1. /\ net' = "CLOSED" /\ connected' = FALSE
        /\ UNCHANGED <<mode, status, mid_sent, last_mid, last_mid_sent, disconnect_sent,
                       main, reader, closing, inflight, cb, used>>
    BY <1>2, Zenon DEF Disconnected, Ended
  <2>2. rc' \in 0..1
    BY <1>0, <1>2 DEF Disconnected, Ended, EndStatus
  <2> QED BY <1>0, <2>1, <2>2, TypeKept DEF used
<1>3. CASE my_publish_callback
  <2>1. /\ cb' = 0
        /\ UNCHANGED <<mode, status, mid_sent, last_mid, last_mid_sent, connected,
                       main, rc, reader, net, inflight, used>>
    BY <1>3, Zenon DEF my_publish_callback
  <2>2. closing' \in BOOLEAN /\ disconnect_sent' \in BOOLEAN
    BY <1>0, <1>3, Zenon DEF my_publish_callback
  <2> QED BY <1>0, <2>1, <2>2, TypeKept DEF used
<1>4. CASE Refuse \/ Lose
  BY <1>0, <1>4, LostStep, TypeKept
<1> USE DEF file, reader, lib, used, TypeInv, TypeOK
<1>5. CASE Load           BY <1>5, ReaderKept DEF Load
<1>6. CASE client_connect BY <1>6, ReaderKept DEF client_connect
<1>7. CASE Fgets          BY <1>7, FgetsType DEF Fgets, At
<1>8. CASE PublishLine    BY <1>8, PublishLineType
<1>9. CASE EndOfInput     BY <1>9 DEF EndOfInput, ReaderInv
<1>10. CASE Waiting       BY <1>10, ReaderKept DEF Waiting
<1>11. CASE Spin          BY <1>11, ReaderKept DEF Spin
<1>12. CASE Again         BY <1>12, ReaderKept DEF Again
<1>13. CASE Leave         BY <1>13, ReaderKept DEF Leave
<1>14. CASE Reconnect     BY <1>14, ReaderKept DEF Reconnect
<1>15. CASE my_connect_callback
  BY <1>15, ReaderKept, PublishType DEF my_connect_callback
<1>16. CASE Acknowledged  BY <1>16, ReaderKept DEF Acknowledged
<1>17. CASE UNCHANGED vars BY <1>17, ReaderKept DEF vars
<1> QED
  BY <1>1, <1>2, <1>3, <1>4, <1>5, <1>6, <1>7, <1>8, <1>9, <1>10, <1>11, <1>12, <1>13, <1>14,
     <1>15, <1>16, <1>17 DEF Next, Main, Broker

\* The variables keep to their types.
THEOREM TypeCorrect == Spec => []TypeOK
<1>1. TypeInv => TypeOK
  BY DEF TypeInv
<1> QED BY <1>1, TypeInit, TypeNext, PTL DEF Spec

-----------------------------------------------------------------------------
\* While no id is taken again, the newest id is in use in one place at most: it
\* was acknowledged, and then nothing else is in flight, or it is the last in flight.
NewestLast ==
    /\ last_mid_sent = mid_sent => inflight = <<>>
    /\ \A k \in 1..Len(inflight) : inflight[k] = mid_sent => k = Len(inflight)

\* Without -l there is one message: none before the connection, and none left in
\* flight when the library is told to disconnect.
OneMessage ==
    /\ main \in {"LOAD", "CONNECT"} \/ net = "CONNECTING"
          => inflight = <<>> /\ cb = 0 /\ ~disconnect_sent /\ ~closing
    /\ Len(inflight) <= 1 /\ last_mid = -1
    /\ cb # 0 \/ closing => inflight = <<>>
    /\ rc = 0 /\ (~connected \/ main = "DONE") => closing

\* With -l, last_mid is set at the end of the input, and the client ends after that.
InputDone ==
    /\ last_mid # -1 => last_mid = mid_sent /\ stdin = <<>>
    /\ status = "WAITING" \/ main = "EOF" => last_mid # -1
    /\ Threaded /\ disconnect_sent => last_mid # -1

SentInv ==
    /\ InputDone
    /\ cb # 0 => cb = last_mid_sent
    /\ ~lapped => NewestLast
    /\ ~Threaded => OneMessage
    /\ disconnect_sent => inflight = <<>> \/ lapped

Inv == TypeInv /\ SentInv

\* An id that is not in use becomes the newest.
LEMMA PublishNewest ==
    ASSUME TypeInv, ~lapped => NewestLast, UNCHANGED last_mid_sent,
           Accepted(NextMid(mid_sent)) \/ Failed(NextMid(mid_sent))
    PROVE  ~lapped' => NewestLast'
<1> SUFFICES ASSUME ~lapped' PROVE NewestLast'
  OBVIOUS
<1> DEFINE mid == NextMid(mid_sent)
<1>1. inflight \in Seq(Ids)
  BY DEF TypeInv, TypeOK
<1> HIDE DEF mid
<1>2. Accepted(mid) \/ Failed(mid)
  BY DEF mid
<1>3. ~lapped /\ ~InUse(mid)
  BY <1>2 DEF Accepted, Failed
<1>4. last_mid_sent # mid /\ \A k \in 1..Len(inflight) : inflight[k] # mid
  BY <1>3 DEF InUse
<1>5. CASE Accepted(mid)
  BY <1>1, <1>4, <1>5 DEF Accepted, NewestLast
<1>6. CASE Failed(mid)
  BY <1>1, <1>3, <1>4, <1>6 DEF Failed, NewestLast
<1> QED BY <1>2, <1>5, <1>6

\* The one message goes in flight, or the library is told to disconnect.
LEMMA PublishOutcome ==
    ASSUME TypeInv, inflight = <<>>, ~closing,
           Accepted(NextMid(mid_sent)) \/ Failed(NextMid(mid_sent))
    PROVE  Len(inflight') <= 1 /\ (inflight' = <<>> \/ ~closing')
<1>1. NextMid(mid_sent) \in Ids
  BY NextMidType DEF TypeInv, TypeOK
<1>2. CASE Accepted(NextMid(mid_sent))
  <2>1. inflight' = <<NextMid(mid_sent)>> /\ closing' = closing
    BY <1>1, <1>2 DEF Accepted
  <2> QED BY <2>1
<1>3. CASE Failed(NextMid(mid_sent))
  <2>1. inflight' = <<>>
    BY <1>3 DEF Failed
  <2> QED BY <2>1
<1> QED BY <1>2, <1>3

\* The account of what was sent holds initially, and in every step.
LEMMA SentInit == Init => SentInv
  BY DEF Init, SentInv, InputDone, NewestLast, OneMessage, Threaded

LEMMA SentNext == Inv /\ [Next]_vars => SentInv'
<1> SUFFICES ASSUME Inv, [Next]_vars PROVE SentInv'
  OBVIOUS
<1> USE DEF file, reader, lib, used, Inv, SentInv, InputDone, NewestLast, OneMessage, Threaded
<1>0. /\ inflight \in Seq(Ids) /\ cb \in Ids \cup {0} /\ rc \in 0..1
      /\ last_mid_sent \in Ids \cup {-1} /\ -1 \notin Ids /\ 0 \notin Ids
      /\ mid_sent \in Ids \cup {0} /\ last_mid \in Ids \cup {-1, 0}
  BY DEF TypeInv, TypeOK, Ids
<1>1. CASE Load           BY <1>1 DEF Load
<1>2. CASE client_connect BY <1>2 DEF client_connect
<1>3. CASE Fgets          BY <1>3 DEF Fgets, Reading
<1>4. CASE PublishLine
  <2>1. Accepted(NextMid(mid_sent)) \/ Failed(NextMid(mid_sent))
    BY <1>4 DEF PublishLine
  <2>2. /\ stdin # <<>> /\ Threaded /\ main' = "CHECK"
        /\ UNCHANGED <<mode, status, last_mid, last_mid_sent, disconnect_sent, cb>>
    BY <1>4 DEF PublishLine, Reading
  <2>3. ~lapped' => NewestLast'
    BY <2>1, <2>2, PublishNewest
  <2> QED BY <2>2, <2>3
<1>5. CASE EndOfInput     BY <1>5, <1>0 DEF EndOfInput, Reading
<1>6. CASE Waiting        BY <1>6 DEF Waiting
<1>7. CASE Poll           BY <1>7 DEF Poll, AllSent
<1>8. CASE Spin           BY <1>8 DEF Spin
<1>9. CASE Again          BY <1>9 DEF Again
<1>10. CASE Leave         BY <1>10 DEF Leave
<1>11. CASE Disconnected  BY <1>11 DEF Disconnected, Ended, EndStatus, Looping
<1>12. CASE Reconnect     BY <1>12 DEF Reconnect
<1>13. CASE my_connect_callback
  <2>1. CASE mode = "STDIN_LINE"
    BY <1>13, <2>1 DEF my_connect_callback
  <2>2. CASE mode # "STDIN_LINE"
    <3>1. /\ Accepted(NextMid(mid_sent)) \/ Failed(NextMid(mid_sent))
          /\ net = "CONNECTING" /\ net' = "UP" /\ main \notin {"LOAD", "CONNECT"}
          /\ UNCHANGED <<mode, status, stdin, last_mid, last_mid_sent, disconnect_sent, cb,
                         rc, connected, main>>
      BY <1>13, <2>2 DEF my_connect_callback, Looping
    <3>2. ~lapped' => NewestLast'
      BY <3>1, PublishNewest
    <3>3. inflight = <<>> /\ cb = 0 /\ ~disconnect_sent /\ ~closing /\ last_mid = -1
      BY <2>2, <3>1
    <3>4. Len(inflight') <= 1 /\ (inflight' = <<>> \/ ~closing')
      BY <3>1, <3>3, PublishOutcome
    <3>5. InputDone'
      BY <3>1, <3>3
    <3>6. OneMessage'
      BY <2>2, <3>1, <3>3, <3>4
    <3> QED BY <3>1, <3>2, <3>3, <3>5, <3>6
  <2> QED BY <2>1, <2>2
<1>14. CASE Acknowledged
  BY <1>14, <1>0 DEF Acknowledged, Looping
<1>15. CASE my_publish_callback BY <1>15, <1>0 DEF my_publish_callback, LastOne
<1>16. CASE Refuse \/ Lose BY <1>16, LostStep DEF Refuse, Lose, Ended, EndStatus, Looping
<1>17. CASE UNCHANGED vars BY <1>17 DEF vars
<1> QED
  BY <1>1, <1>2, <1>3, <1>4, <1>5, <1>6, <1>7, <1>8, <1>9, <1>10, <1>11, <1>12, <1>13, <1>14,
     <1>15, <1>16, <1>17 DEF Next, Main, Broker

\* Both hold on every behaviour.
LEMMA InvHolds == Spec => []Inv
<1>1. Init => Inv
  BY TypeInit, SentInit DEF Inv
<1>2. Inv /\ [Next]_vars => Inv'
  BY TypeNext, SentNext DEF Inv
<1> QED BY <1>1, <1>2, PTL DEF Spec

\* The client ends by itself only when the input is read to its end and every
\* message is acknowledged, unless an id was taken again while in use.
THEOREM EndsWhenSent == Spec => []DisconnectsWhenSent
<1>1. Inv => DisconnectsWhenSent
  BY DEF Inv, SentInv, InputDone, DisconnectsWhenSent
<1> QED BY <1>1, InvHolds, PTL

\* Without -l, exit status 0 leaves no message unacknowledged.
THEOREM ZeroMeansAcknowledged == Spec => []ExitStatus
<1>1. Inv => ExitStatus
  BY DEF Inv, SentInv, OneMessage, ExitStatus
<1> QED BY <1>1, InvHolds, PTL

\* The newest id is the last one in flight or, when nothing is, the one acknowledged
\* last, until the library is told to disconnect.  Without -l my_publish_callback then
\* still runs for it.
Outstanding ==
    /\ disconnect_sent => closing
    /\ mid_sent # 0 /\ ~closing /\ inflight = <<>> =>
          last_mid_sent = mid_sent /\ (Threaded \/ cb # 0)
    /\ mid_sent # 0 /\ ~closing /\ inflight # <<>> => inflight[Len(inflight)] = mid_sent

\* A message that is accepted is in flight, and one that is not ends the client.
LEMMA PublishOutstanding ==
    ASSUME TypeInv, Accepted(NextMid(mid_sent)) \/ Failed(NextMid(mid_sent)),
           disconnect_sent => closing, UNCHANGED disconnect_sent
    PROVE  Outstanding'
<1> DEFINE mid == NextMid(mid_sent)
<1>1. inflight \in Seq(Ids) /\ mid \in Ids
  BY NextMidType DEF TypeInv, TypeOK
<1> HIDE DEF mid
<1>2. CASE Accepted(mid)
  <2>1. /\ mid_sent' = mid /\ inflight' = Append(inflight, mid) /\ closing' = closing
        /\ Len(inflight') = Len(inflight) + 1 /\ inflight'[Len(inflight')] = mid
    BY <1>1, <1>2, AppendProperties DEF Accepted
  <2>2. inflight' # <<>>
    BY <1>1, <2>1
  <2> QED BY <2>1, <2>2 DEF Outstanding
<1>3. CASE Failed(mid)
  BY <1>3 DEF Failed, Outstanding
<1> QED BY <1>2, <1>3 DEF mid

\* The newest id is accounted for at every state.
LEMMA OutstandingNext == Inv /\ Outstanding /\ [Next]_vars => Outstanding'
<1> SUFFICES ASSUME Inv, Outstanding, [Next]_vars PROVE Outstanding'
  OBVIOUS
<1>0. inflight \in Seq(Ids) /\ 0 \notin Ids /\ (cb # 0 => cb = last_mid_sent)
  BY DEF Inv, SentInv, TypeInv, TypeOK, Ids
<1>1. CASE PublishLine
  BY <1>1, PublishOutstanding DEF PublishLine, Inv, Outstanding
<1>2. CASE my_connect_callback
  <2>1. CASE mode = "STDIN_LINE"
    BY <1>2, <2>1 DEF my_connect_callback, Outstanding, Threaded, used
  <2>2. CASE mode # "STDIN_LINE"
    BY <1>2, <2>2, PublishOutstanding DEF my_connect_callback, Inv, Outstanding
  <2> QED BY <2>1, <2>2
<1>3. CASE Acknowledged
  <2>1. /\ cb' = Head(inflight) /\ last_mid_sent' = Head(inflight) /\ inflight' = Tail(inflight)
        /\ inflight # <<>> /\ UNCHANGED <<mode, mid_sent, disconnect_sent, closing>>
    BY <1>3 DEF Acknowledged
  <2>2. Head(inflight) \in Ids /\ Len(inflight') = Len(inflight) - 1
    BY <1>0, <2>1, HeadTailProperties
  <2>3. ASSUME mid_sent # 0, ~closing
        PROVE  /\ inflight' = <<>> => Head(inflight) = mid_sent
               /\ inflight' # <<>> => inflight'[Len(inflight')] = mid_sent
    <3>1. inflight[Len(inflight)] = mid_sent /\ Len(inflight) \in Nat \ {0}
      BY <1>0, <2>1, <2>3, LenProperties DEF Outstanding
    <3>2. \A k \in 1..Len(inflight') : inflight'[k] = inflight[k + 1]
      BY <1>0, <2>1, HeadTailProperties
    <3>3. CASE inflight' = <<>>
      <4>1. Len(inflight) = 1
        BY <2>2, <3>1, <3>3
      <4> QED BY <3>1, <3>3, <4>1
    <3>4. CASE inflight' # <<>>
      <4>1. Len(inflight') \in 1..Len(inflight')
        BY <1>0, <2>1, <2>2, <3>1, <3>4, HeadTailProperties, LenProperties, EmptySeq
      <4> QED BY <2>2, <3>1, <3>2, <3>4, <4>1
    <3> QED BY <3>3, <3>4
  <2> QED BY <1>0, <2>1, <2>2, <2>3 DEF Outstanding, Threaded
<1>4. CASE my_publish_callback
  BY <1>4, <1>0 DEF my_publish_callback, Outstanding, LastOne, Threaded
<1>5. CASE Poll
  BY <1>5 DEF Poll, Outstanding, AllSent, Threaded
<1>6. CASE \/ Load \/ client_connect \/ Fgets \/ EndOfInput \/ Waiting \/ Spin \/ Again \/ Leave
           \/ Disconnected \/ Reconnect \/ Refuse \/ Lose \/ UNCHANGED vars
  <2>1. UNCHANGED <<mode, mid_sent, last_mid_sent, disconnect_sent, closing, inflight, cb>>
    BY <1>6 DEF Load, client_connect, Fgets, EndOfInput, Waiting, Spin, Again, Leave,
                Disconnected, Reconnect, Refuse, Lose, Ended, vars, file, lib
  <2> QED BY <2>1 DEF Outstanding, Threaded
<1> QED BY <1>1, <1>2, <1>3, <1>4, <1>5, <1>6 DEF Next, Main, Broker

\* No thread misses the end: when the newest message is acknowledged and nobody has told
\* the library to disconnect, my_publish_callback is about to or, with -l and at the
\* end of the input, main() finds the last id acknowledged when it looks next, whichever
\* of the two was first.
THEOREM EndIsNotMissed ==
    Spec => [](mid_sent # 0 /\ inflight = <<>> /\ ~closing =>
                  IF Threaded THEN last_mid # -1 => AllSent ELSE cb # 0)
<1>1. Init => Outstanding
  BY DEF Init, Outstanding
<1>2. Inv /\ Outstanding => (mid_sent # 0 /\ inflight = <<>> /\ ~closing =>
                                IF Threaded THEN last_mid # -1 => AllSent ELSE cb # 0)
  BY DEF Inv, SentInv, InputDone, Outstanding, AllSent
<1> QED BY <1>1, <1>2, InvHolds, OutstandingNext, PTL DEF Spec


-----------------------------------------------------------------------------
(* What is sent of a line *)

Text  == Seq(Nat)
Sent  == [message : Text, line : Line, pos : Nat, buf_len : Nat]

\* What a message is when buf_len was b as its line began and has grown j times.
Missing(j, b) == IF j = 0 THEN 0 ELSE b - Block
CharAt(c, j, b) == IF c < Block THEN c ELSE c + Missing(j, b)

\* The strengthening, for the line being read: pos, read_len, buf_len and how much of
\* the line is read go together, and the first pos characters of the buffer are those
\* of the line but for the gap.
Building(j, b) ==
    /\ b >= Block /\ at.pos = j * (Block - 1) /\ at.buf_len = b + Block * j
    /\ j = 0 => at.read = 0 /\ at.read_len = b
    /\ j > 0 => at.read_len = Block
    /\ j > 0 /\ stdin # <<>> /\ Rest > 0 =>
           /\ at.read = at.pos + Missing(j, b)
           /\ \A c \in 1..at.pos : buf[c] = CharAt(c, j, b)
GapInv ==
    /\ \E j, b \in Nat : Building(j, b)
    /\ sent \in Seq(Sent) /\ SentButForGap

\* The buffer has grown as often as pos has moved on.
LEMMA Growths ==
    ASSUME NEW j \in Nat
    PROVE  /\ j * (Block - 1) \in Nat /\ (j * (Block - 1)) \div (Block - 1) = j
           /\ (j + 1) * (Block - 1) = j * (Block - 1) + Block - 1
           /\ j > 0 => j * (Block - 1) >= Block - 1
           /\ j = 0 <=> j * (Block - 1) = 0
           /\ Block * (j + 1) = Block * j + Block /\ Block * j \in Nat
<1> DEFINE k == Block - 1
<1>1. k \in Nat /\ k > 0 /\ Block \in Nat
  BY PubAssumption
<1>2. Block * (j + 1) = Block * j + Block /\ Block * j \in Nat
  BY <1>1
<1> HIDE DEF k
<1>3. j * k \in Nat /\ (j + 1) * k = j * k + k
  BY <1>1
<1>4. (j * k) \div k = j
  BY <1>1
<1>5. j > 0 => j * k >= k
  BY <1>1
<1>6. j = 0 <=> j * k = 0
  BY <1>1, <1>3, <1>5
<1>7. k = Block - 1 /\ (j + 1) * k = j * k + Block - 1
  BY <1>1, <1>3 DEF k
<1> QED BY <1>2, <1>3, <1>4, <1>5, <1>6, <1>7 DEF k

\* The characters gathered are those of the line but for the gap, up to its newline.
LEMMA GatheredText ==
    ASSUME TypeInv, stdin # <<>>, Rest > 0, NEW j \in Nat, NEW b \in Nat, Building(j, b)
    PROVE  /\ at.read = at.pos + Missing(j, b)
           /\ \A c \in 1..Len(Gathered) :
                 Gathered[c] = IF c + Missing(j, b) <= Head(stdin).length \/ c <= at.pos
                               THEN CharAt(c, j, b) ELSE NL
<1>1. /\ buf \in Seq(Nat) /\ at.pos <= Len(buf) /\ at.pos \in Nat /\ at.read \in Nat
      /\ at.read_len \in Nat /\ at.read_len >= Block /\ Head(stdin).length \in Nat
  <2>1. Head(stdin) \in Line
    BY DEF TypeInv, TypeOK
  <2>2. Head(stdin).length \in Nat
    BY <2>1 DEF Line
  <2> QED BY <2>2 DEF TypeInv, TypeOK, ReaderInv
<1>2. /\ Len(Chunk) \in Nat /\ Len(Gathered) = at.pos + Len(Chunk)
      /\ \A k \in 1..Len(Chunk) : Chunk[k] = Char(at.read + k)
      /\ Chunk \in Seq(Nat)
  <2>1. Rest \in Nat /\ Len(Chunk) \in Nat /\ Len(Gathered) = at.pos + Len(Chunk)
    BY <1>1, ReaderType, PubAssumption
  <2> DEFINE count == IF Rest < at.read_len - 1 THEN Rest ELSE at.read_len - 1
  <2>2. count \in Nat
    <3>1. Block \in Nat /\ Block > 1
      BY PubAssumption
    <3> QED BY <1>1, <2>1, <3>1
  <2>3. Chunk = [k \in 1..count |-> Char(at.read + k)]
    BY DEF Chunk
  <2> HIDE DEF count
  <2>4. \A k \in 1..count : Char(at.read + k) \in Nat
    BY <1>1, <2>2 DEF Char, NL
  <2>5. Len(Chunk) = count /\ Chunk \in Seq(Nat)
    BY <2>2, <2>3, <2>4
  <2> QED BY <2>1, <2>3, <2>5
<1>3. /\ Len(SubSeq(buf, 1, at.pos)) = at.pos /\ SubSeq(buf, 1, at.pos) \in Seq(Nat)
      /\ \A c \in 1..at.pos : SubSeq(buf, 1, at.pos)[c] = buf[c]
  <2>1. \A i \in 1..at.pos : buf[i] \in Nat
    BY <1>1
  <2> DEFINE q == at.pos
  <2>2. q \in Nat /\ 1 \in Int /\ q \in Int /\ \A i \in 1..q : buf[i] \in Nat
    BY <1>1, <2>1
  <2> HIDE DEF q
  <2>3. /\ SubSeq(buf, 1, q) \in Seq(Nat)
        /\ Len(SubSeq(buf, 1, q)) = IF 1 <= q THEN q - 1 + 1 ELSE 0
        /\ \A c \in 1..(q - 1 + 1) : SubSeq(buf, 1, q)[c] = buf[1 + c - 1]
    BY <2>2, SubSeqProperties
  <2>4. /\ Len(SubSeq(buf, 1, q)) = q /\ SubSeq(buf, 1, q) \in Seq(Nat)
        /\ \A c \in 1..q : SubSeq(buf, 1, q)[c] = buf[c]
    BY <2>2, <2>3
  <2> QED BY <2>4 DEF q
<1>4. \A c \in 1..Len(Gathered) :
         Gathered[c] = IF c <= at.pos THEN buf[c] ELSE Char(at.read + (c - at.pos))
  <2> DEFINE s == SubSeq(buf, 1, at.pos)  t == Chunk  p == at.pos
  <2>1. s \in Seq(Nat) /\ t \in Seq(Nat) /\ Len(s) = p /\ p \in Nat /\ Len(t) \in Nat
    BY <1>1, <1>2, <1>3
  <2>2. \A c \in 1..(Len(s) + Len(t)) :
           (s \o t)[c] = IF c <= Len(s) THEN s[c] ELSE t[c - Len(s)]
    <3> HIDE DEF s, t, p
    <3> QED BY <2>1, ConcatProperties
  <2>3. Gathered = s \o t /\ \A c \in 1..p : s[c] = buf[c]
    BY <1>3 DEF Gathered
  <2>4. Len(Gathered) = p + Len(t) /\ \A k \in 1..Len(t) : t[k] = Char(at.read + k)
    BY <1>2
  <2> HIDE DEF s, t, p
  <2>5. ASSUME NEW c \in 1..(p + Len(t))
        PROVE  Gathered[c] = IF c <= p THEN buf[c] ELSE Char(at.read + (c - p))
    <3>1. Gathered[c] = IF c <= p THEN s[c] ELSE t[c - p]
      BY <2>1, <2>2, <2>3
    <3>2. CASE c <= p
      BY <2>1, <2>3, <3>1, <3>2
    <3>3. CASE c > p
      <4>1. c - p \in 1..Len(t)
        BY <2>1, <3>3
      <4> QED BY <2>1, <2>4, <3>1, <3>3, <4>1
    <3> QED BY <2>1, <3>2, <3>3
  <2> QED BY <2>4, <2>5 DEF p
<1>5. b >= Block /\ Block \in Nat /\ Block > 1 /\ Missing(j, b) \in Nat
  BY PubAssumption DEF Building, Missing
<1>6. /\ at.read = at.pos + Missing(j, b)
      /\ \A c \in 1..at.pos : buf[c] = CharAt(c, j, b)
      /\ j > 0 => at.pos >= Block - 1
  <2>1. CASE j = 0
    <3>1. at.pos = 0 /\ at.read = 0 /\ 1..0 = {}
      BY <2>1, Growths DEF Building
    <3> QED BY <2>1, <3>1 DEF Missing
  <2>2. CASE j > 0
    BY <2>2, Growths DEF Building
  <2> QED BY <2>1, <2>2
<1>7. ASSUME NEW c \in 1..Len(Gathered), c > at.pos
      PROVE  Char(at.read + (c - at.pos)) =
                 IF c + Missing(j, b) <= Head(stdin).length THEN CharAt(c, j, b) ELSE NL
  <2>1. c \in Nat /\ at.read + (c - at.pos) = c + Missing(j, b)
    BY <1>1, <1>2, <1>5, <1>6, <1>7
  <2>2. CharAt(c, j, b) = c + Missing(j, b)
    <3>1. CASE j = 0
      <4>1. Missing(j, b) = 0 /\ CharAt(c, j, b) = IF c < Block THEN c ELSE c + 0
        BY <3>1 DEF CharAt, Missing
      <4> QED BY <2>1, <4>1
    <3>2. CASE j > 0
      <4>1. c >= Block
        BY <1>1, <1>5, <1>6, <1>7, <2>1, <3>2
      <4> QED BY <1>5, <2>1, <4>1 DEF CharAt
    <3> QED BY <3>1, <3>2
  <2> QED BY <2>1, <2>2 DEF Char
<1>8. ASSUME NEW c \in 1..Len(Gathered)
      PROVE  Gathered[c] = IF c + Missing(j, b) <= Head(stdin).length \/ c <= at.pos
                           THEN CharAt(c, j, b) ELSE NL
  <2>1. CASE c <= at.pos
    <3>1. c \in 1..at.pos
      BY <1>1, <1>2, <2>1
    <3>2. Gathered[c] = CharAt(c, j, b)
      BY <1>4, <1>6, <2>1, <3>1
    <3> QED BY <2>1, <3>2
  <2>2. CASE c > at.pos
    <3>1. Gathered[c] = Char(at.read + (c - at.pos)) /\ ~(c <= at.pos)
      BY <1>1, <1>2, <1>4, <2>2
    <3> QED BY <1>7, <2>2, <3>1
  <2> QED BY <1>1, <1>2, <2>1, <2>2
<1> QED BY <1>6, <1>8

\* A part of a line: the buffer grows once more.
LEMMA FgetsGap ==
    ASSUME TypeInv, TypeInv', Fgets, NEW j \in Nat, NEW b \in Nat, Building(j, b)
    PROVE  Building(j + 1, b)'
<1>1. /\ stdin # <<>> /\ Rest > 0 /\ ~Full /\ buf' = Gathered /\ at' = Grown(at)
      /\ stdin' = stdin
  BY DEF Fgets
<1>2. /\ at.pos \in Nat /\ at.read_len \in Nat /\ at.buf_len \in Nat /\ at.read \in Nat
      /\ at.read_len >= Block /\ Head(stdin).length \in Nat /\ Head(stdin) \in Line
  <2>0. stdin # <<>> /\ stdin \in Seq(Line)
    BY <1>1 DEF TypeInv, TypeOK
  <2>1. Head(stdin) \in Line
    BY <2>0
  <2>2. Head(stdin).length \in Nat
    BY <2>1 DEF Line
  <2> QED BY <2>1, <2>2 DEF TypeInv, TypeOK, ReaderInv
<1>3. /\ at'.pos = at.pos + Block - 1 /\ at'.read_len = Block
      /\ at'.buf_len = at.buf_len + Block /\ at'.read = at.read + Len(Chunk)
  BY <1>1 DEF Grown
<1>4. /\ Rest \in Nat /\ Len(Chunk) \in Nat /\ Len(Gathered) = at.pos + Len(Chunk)
      /\ Len(Chunk) = IF Rest < at.read_len - 1 THEN Rest ELSE at.read_len - 1
  BY <1>1, <1>2, ReaderType, PubAssumption
<1>5. /\ b >= Block /\ Block \in Nat /\ Block > 1
      /\ at'.pos = (j + 1) * (Block - 1) /\ at'.buf_len = b + Block * (j + 1)
      /\ j + 1 # 0 /\ j + 1 > 0
  <2>1. /\ (j + 1) * (Block - 1) = j * (Block - 1) + Block - 1 /\ j * (Block - 1) \in Nat
        /\ Block * (j + 1) = Block * j + Block /\ Block * j \in Nat
    BY Growths
  <2>2. at.pos = j * (Block - 1) /\ at.buf_len = b + Block * j /\ b >= Block
    BY DEF Building
  <2> QED BY <1>3, <2>1, <2>2, PubAssumption
<1>51. b >= Block /\ Block \in Nat /\ Block > 1 /\ j + 1 # 0 /\ j + 1 > 0
  BY <1>5
<1>6. ASSUME Rest' > 0
      PROVE  /\ at'.read = at'.pos + Missing(j + 1, b)
             /\ \A c \in 1..at'.pos : buf'[c] = CharAt(c, j + 1, b)
  <2> DEFINE count == Len(Chunk)
  <2>1. Rest' = Rest - count
    <3>1. stdin' = stdin /\ at'.read = at.read + count
      BY <1>1, <1>3
    <3>2. count \in Nat
      BY <1>4
    <3> HIDE DEF count
    <3> QED BY <1>2, <3>1, <3>2 DEF Rest, Line
  <2>2. count = at.read_len - 1 /\ count \in Nat /\ count < Rest
    <3> HIDE DEF count
    <3>1. Rest - count > 0
      BY <1>6, <2>1
    <3> QED BY <1>2, <1>4, <3>1 DEF count
  <2>3. /\ at.read = at.pos + Missing(j, b)
        /\ \A c \in 1..Len(Gathered) :
              Gathered[c] = IF c + Missing(j, b) <= Head(stdin).length \/ c <= at.pos
                            THEN CharAt(c, j, b) ELSE NL
    BY <1>1, GatheredText
  <2>4. at.read + count <= Head(stdin).length
    <3>1. Rest = Head(stdin).length + (IF Head(stdin).ended THEN 1 ELSE 0) - at.read
      BY DEF Rest
    <3> HIDE DEF count
    <3>2. Rest <= Head(stdin).length + 1 - at.read
      BY <1>2, <3>1
    <3>3. Rest \in Nat /\ count \in Nat /\ count < Rest
      BY <1>4, <2>2
    <3> QED BY <1>2, <3>2, <3>3
  <2>5. Missing(j + 1, b) = b - Block
    BY <1>51 DEF Missing
  <2>6. at.read_len = IF j = 0 THEN b ELSE Block
    BY DEF Building
  <2>7. j = 0 => at.pos = 0
    BY Growths DEF Building
  <2>8. Missing(j, b) = (IF j = 0 THEN 0 ELSE b - Block) /\ Missing(j, b) \in Nat
    BY <1>51 DEF Missing
  <2> HIDE DEF count
  <2>9. at'.read = at'.pos + Missing(j + 1, b)
    <3>1. at'.read = at.read + count
      BY <1>3 DEF count
    <3> QED BY <1>2, <1>3, <1>51, <2>2, <2>3, <2>5, <2>6, <2>7, <2>8, <3>1
  <2>10. ASSUME NEW c \in 1..at'.pos
         PROVE  buf'[c] = CharAt(c, j + 1, b)
    <3>1. at'.pos <= Len(Gathered) /\ c \in 1..Len(Gathered)
      <4>1. Len(Gathered) = at.pos + count
        BY <1>4 DEF count
      <4>2. at'.pos = at.pos + Block - 1 /\ count >= Block - 1 /\ count \in Nat
        BY <1>2, <1>3, <1>51, <2>2
      <4> QED BY <1>2, <1>51, <4>1, <4>2
    <3>2. c \in Nat /\ c <= at.pos + count
      <4>1. Len(Gathered) = at.pos + count
        BY <1>4 DEF count
      <4> QED BY <1>2, <2>2, <3>1, <4>1
    <3>3. c + Missing(j, b) <= Head(stdin).length
      <4>1. /\ at.read = at.pos + Missing(j, b) /\ at.read + count <= Head(stdin).length
            /\ at.pos \in Nat /\ count \in Nat /\ Missing(j, b) \in Nat
            /\ Head(stdin).length \in Nat
        BY <1>2, <2>2, <2>3, <2>4, <2>8
      <4> QED BY <3>2, <4>1
    <3>4. buf'[c] = CharAt(c, j, b)
      BY <1>1, <2>3, <3>1, <3>3
    <3>5. CharAt(c, j, b) = CharAt(c, j + 1, b)
      <4>1. CASE j > 0
        BY <2>5, <2>8, <4>1 DEF CharAt
      <4>2. CASE j = 0
        <5>1. c < Block
          BY <1>3, <1>51, <2>7, <3>2, <4>2
        <5> QED BY <5>1 DEF CharAt
      <4> QED BY <4>1, <4>2
    <3> QED BY <3>4, <3>5
  <2> QED BY <2>9, <2>10
<1> QED BY <1>3, <1>5, <1>6 DEF Building

\* A line that is complete: what is sent of it is what the property says.
LEMMA PublishGap ==
    ASSUME TypeInv, PublishLine, NEW j \in Nat, NEW b \in Nat, Building(j, b)
    PROVE  /\ \E d \in Nat : Building(0, d)'
           /\ LET s == [message |-> SubSeq(Gathered, 1, Len(Gathered) - 1),
                        line |-> Head(stdin), pos |-> at.pos, buf_len |-> at.buf_len]
              IN  /\ s \in Sent
                  /\ s.message = [c \in 1..(s.line.length - Gap(s)) |->
                                     IF c < Block THEN c ELSE c + Gap(s)]
<1>1. /\ stdin # <<>> /\ Rest > 0 /\ Full
      /\ at' = [Start EXCEPT !.read_len = at.buf_len, !.buf_len = at.buf_len]
  BY DEF PublishLine
<1>2. /\ at.pos \in Nat /\ at.read_len \in Nat /\ at.buf_len \in Nat /\ at.read \in Nat
      /\ at.read_len >= Block /\ Head(stdin).length \in Nat /\ Head(stdin) \in Line
      /\ at.buf_len >= Block
  <2>0. stdin # <<>> /\ stdin \in Seq(Line)
    BY <1>1 DEF TypeInv, TypeOK
  <2>1. Head(stdin) \in Line
    BY <2>0
  <2>2. Head(stdin).length \in Nat
    BY <2>1 DEF Line
  <2> QED BY <2>1, <2>2 DEF TypeInv, TypeOK, ReaderInv
<1>3. \E d \in Nat : Building(0, d)'
  <2>0. PICK d \in Nat : d = at.buf_len
    BY <1>2
  <2>1. /\ at'.pos = 0 /\ at'.read = 0 /\ at'.read_len = at.buf_len /\ at'.buf_len = at.buf_len
    BY <1>1 DEF Start
  <2>2. 0 * (Block - 1) = 0 /\ Block * 0 = 0 /\ ~(0 > 0)
    BY PubAssumption
  <2> QED BY <1>2, <2>0, <2>1, <2>2 DEF Building
<1>4. /\ Rest \in Nat /\ Len(Chunk) \in Nat /\ Len(Gathered) = at.pos + Len(Chunk)
      /\ Len(Chunk) = IF Rest < at.read_len - 1 THEN Rest ELSE at.read_len - 1
      /\ Gathered \in Seq(Nat)
  BY <1>1, <1>2, ReaderType, PubAssumption
<1> DEFINE count == Len(Chunk)  n == Len(Gathered)  length == Head(stdin).length
           m == Missing(j, b)
<1>5. count \in Nat /\ count > 0 /\ count <= Rest /\ n = at.pos + count /\ n \in Nat /\ n > 0
  <2> HIDE DEF count, n
  <2>1. count = IF Rest < at.read_len - 1 THEN Rest ELSE at.read_len - 1
    BY <1>4 DEF count
  <2>2. n = at.pos + count /\ count \in Nat
    BY <1>4 DEF n, count
  <2>3. Rest \in Nat /\ Rest > 0 /\ at.read_len \in Nat /\ at.read_len >= 2
    BY <1>1, <1>2, <1>4, PubAssumption
  <2>4. count > 0 /\ count <= Rest
    BY <2>1, <2>3
  <2> QED BY <1>2, <2>2, <2>4
<1>6. /\ at.read = at.pos + m
      /\ \A c \in 1..n : Gathered[c] = IF c + m <= length \/ c <= at.pos
                                       THEN CharAt(c, j, b) ELSE NL
  BY <1>1, GatheredText
<1>7. Block \in Nat /\ Block > 1 /\ b >= Block /\ m \in Nat /\ m = IF j = 0 THEN 0 ELSE b - Block
  BY PubAssumption DEF Building, Missing
<1>8. \A c \in Nat : c > 0 => CharAt(c, j, b) \in Nat /\ CharAt(c, j, b) > 0
  <2> HIDE DEF m
  <2>1. \A c \in Nat : CharAt(c, j, b) = IF c < Block THEN c ELSE c + m
    BY DEF CharAt, m
  <2> QED BY <1>7, <2>1
<1>9. n + m = length + 1
  <2>1. Gathered[n] = 0
    BY <1>1 DEF Full, NL
  <2> HIDE DEF count, n, length, m
  <2>2. n \in 1..n /\ ~(n <= at.pos)
    BY <1>2, <1>5
  <2>3. ~(n + m <= length)
    BY <1>5, <1>6, <1>8, <2>1, <2>2
  <2>4. Rest <= length + 1 - at.read
    <3>1. Rest = length + (IF Head(stdin).ended THEN 1 ELSE 0) - at.read
      BY DEF Rest, length
    <3>2. length \in Nat
      BY <1>2 DEF length
    <3> QED BY <1>2, <3>1, <3>2
  <2>5. n + m = at.read + count
    BY <1>2, <1>5, <1>6, <1>7
  <2>6. length \in Nat
    BY <1>2 DEF length
  <2>7. /\ Rest \in Nat /\ count \in Nat /\ count <= Rest /\ at.read \in Nat
        /\ n \in Nat /\ m \in Nat
    BY <1>2, <1>4, <1>5, <1>7
  <2> QED BY <2>3, <2>4, <2>5, <2>6, <2>7
<1> DEFINE message == SubSeq(Gathered, 1, n - 1)
           s == [message |-> message, line |-> Head(stdin), pos |-> at.pos,
                 buf_len |-> at.buf_len]
<1>10. /\ message \in Seq(Nat) /\ Len(message) = n - 1
       /\ \A c \in 1..(n - 1) : message[c] = Gathered[c]
  <2> DEFINE g == Gathered  k == n - 1
  <2>1. g \in Seq(Nat) /\ k \in Nat /\ k <= Len(g) /\ 1 \in Nat
    BY <1>4, <1>5
  <2>2. \A i \in 1..k : g[i] \in Nat
    BY <2>1
  <2>3. message = SubSeq(g, 1, k)
    OBVIOUS
  <2> HIDE DEF g, k, message
  <2>4. SubSeq(g, 1, k) \in Seq(Nat) /\ Len(SubSeq(g, 1, k)) = k
        /\ \A i \in 1..k : SubSeq(g, 1, k)[i] = g[i]
    BY <2>1, <2>2, SubSeqProperties
  <2>5. message \in Seq(Nat) /\ Len(message) = k /\ \A i \in 1..k : message[i] = g[i]
    BY <2>3, <2>4
  <2> QED BY <2>5 DEF g, k
<1>11. Gap(s) = m
  <2>1. s.pos = at.pos /\ s.buf_len = at.buf_len
    OBVIOUS
  <2>2. at.pos = j * (Block - 1) /\ at.buf_len = b + Block * j
    BY DEF Building
  <2> HIDE DEF s, m
  <2>3. (j * (Block - 1)) \div (Block - 1) = j /\ Block * j \in Nat /\ (j = 0 <=> at.pos = 0)
    BY <2>2, Growths
  <2>4. Before(s) = at.buf_len - Block * j
    BY <2>1, <2>2, <2>3 DEF Before
  <2>5. Before(s) = b
    BY <2>2, <2>3, <2>4
  <2>6. j = 0 <=> s.pos = 0
    BY <2>1, <2>3
  <2> QED BY <1>7, <2>5, <2>6 DEF Gap
<1>12. message = [c \in 1..(length - m) |-> IF c < Block THEN c ELSE c + m]
  <2>1. length - m = n - 1 /\ length \in Nat
    <3>1. n + m = length + 1 /\ n \in Nat /\ m \in Nat /\ length \in Nat
      BY <1>2, <1>5, <1>7, <1>9
    <3> HIDE DEF n, m, length
    <3> QED BY <3>1
  <2>2. ASSUME NEW c \in 1..(n - 1) PROVE message[c] = IF c < Block THEN c ELSE c + m
    <3> HIDE DEF message, n, length, m
    <3>1. c \in 1..n /\ c + m <= length
      BY <1>5, <1>7, <2>1
    <3>2. message[c] = CharAt(c, j, b)
      BY <1>6, <1>10, <3>1
    <3> QED BY <3>2 DEF CharAt, m
  <2>3. message = [c \in 1..(n - 1) |-> message[c]]
    <3> HIDE DEF message, n
    <3>1. message = [c \in 1..Len(message) |-> message[c]]
      BY <1>10
    <3> QED BY <1>10, <3>1
  <2> HIDE DEF message, n, length, m
  <2> QED BY <2>1, <2>2, <2>3
<1>13. s \in Sent
  <2> HIDE DEF message
  <2> QED BY <1>2, <1>10 DEF Sent, Text
<1>14. s.message = message /\ s.line.length = length
  OBVIOUS
<1>15. s.message = [c \in 1..(s.line.length - Gap(s)) |-> IF c < Block THEN c ELSE c + Gap(s)]
  <2> HIDE DEF s, message, m, length
  <2> QED BY <1>11, <1>12, <1>14
<1> QED BY <1>2, <1>3, <1>13, <1>15

\* What is published is put behind what was.
LEMMA SentAppend ==
    ASSUME sent \in Seq(Sent), SentButForGap, NEW s \in Sent, sent' = Append(sent, s),
           s.message = [c \in 1..(s.line.length - Gap(s)) |-> IF c < Block THEN c ELSE c + Gap(s)]
    PROVE  sent' \in Seq(Sent) /\ SentButForGap'
<1> DEFINE n == Len(sent)  t == Append(sent, s)
           Good(r) == r.message = [c \in 1..(r.line.length - Gap(r)) |->
                                      IF c < Block THEN c ELSE c + Gap(r)]
<1>1. /\ n \in Nat /\ t \in Seq(Sent) /\ Len(t) = n + 1 /\ t[n + 1] = s
      /\ \A i \in 1..n : t[i] = sent[i]
  BY LenProperties, AppendProperties
<1>2. Good(s) /\ \A k \in 1..n : Good(sent[k])
  BY DEF SentButForGap
<1>3. SentButForGap' <=> \A k \in 1..Len(t) : Good(t[k])
  BY DEF SentButForGap, Gap, Before
<1> HIDE DEF n, t, Good
<1>4. ASSUME NEW k \in 1..Len(t) PROVE Good(t[k])
  <2>1. CASE k = n + 1
    BY <1>1, <1>2, <2>1
  <2>2. CASE k # n + 1
    <3>1. k \in 1..n
      BY <1>1, <2>2
    <3> QED BY <1>1, <1>2, <3>1
  <2> QED BY <2>1, <2>2
<1> QED BY <1>1, <1>3, <1>4 DEF t

\* The buffer has no gap initially, and at most one after every step.
LEMMA GapInit == Init => GapInv
<1> SUFFICES ASSUME Init PROVE GapInv
  OBVIOUS
<1>1. Building(0, Block)
  <2>1. at.pos = 0 /\ at.read = 0 /\ at.read_len = Block /\ at.buf_len = Block
    BY DEF Init, Start
  <2>2. 0 * (Block - 1) = 0 /\ Block * 0 = 0 /\ ~(0 > 0)
    BY PubAssumption
  <2> QED BY <2>1, <2>2, PubAssumption DEF Building
<1>2. 0 \in Nat /\ Block \in Nat
  BY PubAssumption
<1>3. sent = <<>> /\ sent \in Seq(Sent) /\ Len(sent) = 0
  BY DEF Init
<1>4. SentButForGap
  BY <1>3 DEF SentButForGap
<1> QED BY <1>1, <1>2, <1>3, <1>4 DEF GapInv

LEMMA GapStep == TypeInv /\ TypeInv' /\ GapInv /\ [Next]_vars => GapInv'
<1> SUFFICES ASSUME TypeInv, TypeInv', GapInv, [Next]_vars PROVE GapInv'
  OBVIOUS
<1>0. PICK j \in Nat, b \in Nat : Building(j, b)
  BY DEF GapInv
<1>1. CASE UNCHANGED <<reader, sent>>
  <2>1. UNCHANGED <<stdin, buf, at, sent>>
    BY <1>1 DEF reader
  <2>2. Building(j, b)'
    BY <1>0, <2>1 DEF Building, Rest
  <2>3. sent' \in Seq(Sent) /\ SentButForGap'
    BY <2>1 DEF GapInv, SentButForGap
  <2> QED BY <2>2, <2>3 DEF GapInv
<1>2. CASE Fgets
  <2>1. Building(j + 1, b)' /\ j + 1 \in Nat
    BY <1>0, <1>2, FgetsGap
  <2>2. sent' = sent
    BY <1>2 DEF Fgets
  <2>3. sent' \in Seq(Sent) /\ SentButForGap'
    BY <2>2 DEF GapInv, SentButForGap
  <2> QED BY <2>1, <2>3 DEF GapInv
<1>3. CASE PublishLine
  <2> DEFINE s == [message |-> SubSeq(Gathered, 1, Len(Gathered) - 1),
                   line |-> Head(stdin), pos |-> at.pos, buf_len |-> at.buf_len]
  <2>1. /\ \E d \in Nat : Building(0, d)'
        /\ s \in Sent
        /\ s.message = [c \in 1..(s.line.length - Gap(s)) |->
                           IF c < Block THEN c ELSE c + Gap(s)]
    BY <1>0, <1>3, PublishGap
  <2>2. sent' = Append(sent, s) \/ sent' = sent
    BY <1>3 DEF PublishLine
  <2>3. \E i, d \in Nat : Building(i, d)'
    BY <2>1
  <2>4. sent \in Seq(Sent) /\ SentButForGap
    BY DEF GapInv
  <2> HIDE DEF s
  <2>5. sent' \in Seq(Sent) /\ SentButForGap'
    <3>1. CASE sent' = sent
      BY <2>4, <3>1 DEF SentButForGap
    <3>2. CASE sent' = Append(sent, s)
      BY <2>1, <2>4, <3>2, SentAppend
    <3> QED BY <2>2, <3>1, <3>2
  <2> QED BY <2>3, <2>5 DEF GapInv
<1>4. CASE EndOfInput
  <2>1. stdin' = <<>> /\ UNCHANGED <<at, sent>>
    BY <1>4 DEF EndOfInput
  <2>2. Building(j, b)'
    BY <1>0, <2>1 DEF Building
  <2>3. sent' \in Seq(Sent) /\ SentButForGap'
    BY <2>1 DEF GapInv, SentButForGap
  <2> QED BY <2>2, <2>3 DEF GapInv
<1>5. CASE \/ Load \/ client_connect \/ Waiting \/ Poll \/ Spin \/ Again \/ Leave
           \/ Broker \/ Refuse \/ Lose \/ UNCHANGED vars
  <2>1. UNCHANGED <<reader, sent>>
    BY <1>5 DEF Load, client_connect, Waiting, Poll, Spin, Again, Leave, Broker, Refuse,
                Lose, Disconnected, Reconnect, my_connect_callback, Acknowledged,
                my_publish_callback, vars
  <2> QED BY <1>1, <2>1
<1> QED BY <1>2, <1>3, <1>4, <1>5 DEF Next, Main

\* Of every line, however long and however it falls into the calls of fgets(), main()
\* sends all characters, or all but those from Block to the end of the buffer it began
\* with: whether, and how many, is told by buf_len and pos alone.
THEOREM SentLinesHaveOneGap == Spec => []SentButForGap
<1>1. Spec => []TypeInv
  BY TypeInit, TypeNext, PTL DEF Spec
<1>2. Spec => []GapInv
  BY <1>1, GapInit, GapStep, PTL DEF Spec
<1>3. GapInv => SentButForGap
  BY DEF GapInv
<1> QED BY <1>2, <1>3, PTL
=============================================================================
