--------------------------- MODULE SubClientProofs ----------------------------
(***************************************************************************)
(* Theorems about mosquitto_sub, for any topics and calls of the program,  *)
(* any capacity of the queue and of the connection and every bound: the    *)
(* variables keep to their types, the messages handled are the first ones  *)
(* wanted, and an exit status of 0 means that all of them were.            *)
(***************************************************************************)
EXTENDS SubClient, FiniteSetTheorems, SequenceTheorems, TLAPS

\* The messages of s that are wanted, and those that are to be handled: the
\* first msg_count of them.
WantedOf(s) == {k \in 1..Len(s) : Wanted(s[k])}
First(s) == {k \in 1..Len(s) :
                /\ Wanted(s[k])
                /\ Counting => Cardinality({i \in 1..(k - 1) : Wanted(s[i])}) < cfg.msg_count}

\* The flag, the count and the request to disconnect tell the same of what was
\* handled: while messages are processed, that is every message wanted.
Counts ==
    /\ msg_count = IF Counting THEN Cardinality(handled) ELSE 0
    /\ process_messages <=> (Counting => msg_count < cfg.msg_count)
    /\ closing <=> ~process_messages
    /\ process_messages => handled = WantedOf(received)

IInv == TypeOK /\ Counts /\ FirstWanted /\ StatusTells

-----------------------------------------------------------------------------
(* The messages wanted *)

\* Receiving one message more.
LEMMA AppendReceived ==
    ASSUME NEW S, NEW s \in Seq(S), NEW m \in S
    PROVE  /\ Append(s, m) \in Seq(S) /\ Len(s) \in Nat /\ Len(Append(s, m)) = Len(s) + 1
           /\ Append(s, m)[Len(s) + 1] = m
           /\ \A i \in 1..Len(s) : Append(s, m)[i] = s[i]
BY LenProperties, AppendProperties

\* The wanted messages can be counted.
LEMMA WantedFinite ==
    ASSUME NEW S, NEW s \in Seq(S), NEW A \in SUBSET (1..Len(s))
    PROVE  IsFiniteSet(A) /\ Cardinality(A) \in Nat
<1>1. IsFiniteSet(1..Len(s))
  BY LenProperties, FS_Interval
<1> QED BY <1>1, FS_Subset, FS_CardinalityType

\* Which messages are wanted when one more is received.
LEMMA WantedAppend ==
    ASSUME NEW S, NEW s \in Seq(S), NEW m \in S
    PROVE  WantedOf(Append(s, m)) = WantedOf(s) \cup (IF Wanted(m) THEN {Len(s) + 1} ELSE {})
<1> DEFINE t == Append(s, m)  n == Len(s)
<1>1. n \in Nat /\ Len(t) = n + 1 /\ t[n + 1] = m /\ \A i \in 1..n : t[i] = s[i]
  BY AppendReceived
<1> HIDE DEF t, n
<1>2. 1..(n + 1) = (1..n) \cup {n + 1}
  BY <1>1
<1>3. WantedOf(t) = {k \in 1..n : Wanted(t[k])} \cup {k \in {n + 1} : Wanted(t[k])}
  BY <1>1, <1>2 DEF WantedOf
<1>4. {k \in 1..n : Wanted(t[k])} = WantedOf(s)
  BY <1>1 DEF WantedOf, n
<1>5. {k \in {n + 1} : Wanted(t[k])} = IF Wanted(m) THEN {n + 1} ELSE {}
  BY <1>1
<1> QED BY <1>3, <1>4, <1>5 DEF t, n

\* One more message is one of the first if it is wanted and not all were there.
LEMMA FirstAppend ==
    ASSUME NEW S, NEW s \in Seq(S), NEW m \in S
    PROVE  First(Append(s, m)) = First(s) \cup
               (IF Wanted(m) /\ (Counting => Cardinality(WantedOf(s)) < cfg.msg_count)
                THEN {Len(s) + 1} ELSE {})
<1> DEFINE t == Append(s, m)  n == Len(s)
           Before(r, k) == {i \in 1..(k - 1) : Wanted(r[i])}
           In(r, k) == Wanted(r[k]) /\ (Counting => Cardinality(Before(r, k)) < cfg.msg_count)
<1>1. n \in Nat /\ Len(t) = n + 1 /\ t[n + 1] = m /\ \A i \in 1..n : t[i] = s[i]
  BY AppendReceived
<1>2. First(t) = {k \in 1..Len(t) : In(t, k)} /\ First(s) = {k \in 1..n : In(s, k)}
  BY DEF First
<1> HIDE DEF t, n
<1>3. 1..(n + 1) = (1..n) \cup {n + 1}
  BY <1>1
<1>4. ASSUME NEW k \in 1..n PROVE In(t, k) <=> In(s, k)
  <2>1. Before(t, k) = Before(s, k)
    BY <1>1
  <2>2. t[k] = s[k]
    BY <1>1
  <2> HIDE DEF Before
  <2> QED BY <2>1, <2>2
<1>5. Before(t, n + 1) = WantedOf(s)
  <2>1. 1..((n + 1) - 1) = 1..n
    BY <1>1
  <2> QED BY <1>1, <2>1 DEF WantedOf, n
<1>6. In(t, n + 1) <=> (Wanted(m) /\ (Counting => Cardinality(WantedOf(s)) < cfg.msg_count))
  <2> HIDE DEF Before
  <2> QED BY <1>1, <1>5
<1> HIDE DEF In, Before
<1>7. First(t) = {k \in 1..n : In(t, k)} \cup {k \in {n + 1} : In(t, k)}
  BY <1>1, <1>2, <1>3
<1>8. {k \in 1..n : In(t, k)} = First(s)
  BY <1>2, <1>4
<1>9. {k \in {n + 1} : In(t, k)} =
        IF Wanted(m) /\ (Counting => Cardinality(WantedOf(s)) < cfg.msg_count)
        THEN {n + 1} ELSE {}
  BY <1>6
<1> QED BY <1>7, <1>8, <1>9 DEF t, n

-----------------------------------------------------------------------------
(* The invariant *)

\* The parts of a configuration.
LEMMA CfgType ==
    ASSUME NEW c \in mosq_config
    PROVE  c.msg_count \in Nat /\ c.topics \in SUBSET Topics
BY DEF mosq_config

\* The invariant holds initially, in every step, and on every behaviour.
LEMMA InitInv == Init => IInv
<1> SUFFICES ASSUME Init PROVE IInv
  OBVIOUS
<1>1. cfg \in mosq_config /\ cfg.msg_count \in Nat /\ InCap \in Nat /\ QCap \in Nat
  BY SubAssumption, CfgType DEF Init
<1>2. /\ received = <<>> /\ handled = {} /\ inbox = <<>> /\ Len(<<>>) = 0
      /\ <<>> \in Seq(mosquitto_message)
  BY DEF Init
<1>3. Cardinality({}) = 0 /\ 1..0 = {}
  BY FS_EmptySet
<1>4. TypeOK
  <2>1. process_messages \in BOOLEAN /\ closing \in BOOLEAN
    BY DEF Init
  <2>2. {inbox, received} \subseteq Seq(mosquitto_message)
    BY <1>2
  <2>3. /\ msg_count \in 0..cfg.msg_count /\ rc \in 0..1 /\ Len(inbox) <= InCap
        /\ posted \in 0..QCap
    BY <1>1, <1>2 DEF Init
  <2>4. /\ main \in {"CONNECT", "LOOP", "BLOCKED", "DONE"} /\ net \in {"CLOSED", "CONNECTING", "UP"}
        /\ subscribed \subseteq cfg.topics /\ failed \subseteq cfg.topics
        /\ handled \subseteq 1..Len(received)
    BY <1>2 DEF Init
  <2> QED BY <1>1, <2>1, <2>2, <2>3, <2>4 DEF TypeOK
<1>5. Counts
  BY <1>1, <1>2, <1>3 DEF Init, Counts, Counting, WantedOf
<1>6. FirstWanted
  BY <1>2, <1>3 DEF FirstWanted
<1>7. StatusTells
  BY DEF Init, StatusTells
<1> QED BY <1>4, <1>5, <1>6, <1>7 DEF IInv

\* A process that is started again has the state of the first.
LEMMA RunInv == IInv /\ Run => IInv'
<1> SUFFICES ASSUME IInv, Run PROVE IInv'
  OBVIOUS
<1>1. /\ cfg' \in mosq_config /\ cfg'.msg_count \in Nat /\ InCap \in Nat
      /\ posted' = posted /\ posted \in 0..QCap
  BY SubAssumption, CfgType DEF Run, Started, IInv, TypeOK
<1>2. /\ received' = <<>> /\ handled' = {} /\ inbox' = <<>> /\ Len(<<>>) = 0
      /\ <<>> \in Seq(mosquitto_message)
  BY DEF Run, Started
<1>3. Cardinality({}) = 0 /\ 1..0 = {}
  BY FS_EmptySet
<1>4. TypeOK'
  <2>1. process_messages' \in BOOLEAN /\ closing' \in BOOLEAN
    BY DEF Run, Started
  <2>2. {inbox', received'} \subseteq Seq(mosquitto_message)
    BY <1>2
  <2>3. /\ msg_count' \in 0..cfg'.msg_count /\ rc' \in 0..1 /\ Len(inbox') <= InCap
        /\ posted' \in 0..QCap
    BY <1>1, <1>2 DEF Run, Started
  <2>4. /\ main' \in {"CONNECT", "LOOP", "BLOCKED", "DONE"} /\ net' \in {"CLOSED", "CONNECTING", "UP"}
        /\ subscribed' \subseteq cfg'.topics /\ failed' \subseteq cfg'.topics
        /\ handled' \subseteq 1..Len(received')
    BY <1>2 DEF Run, Started
  <2> QED BY <1>1, <2>1, <2>2, <2>3, <2>4 DEF TypeOK
<1>5. Counts'
  BY <1>1, <1>2, <1>3 DEF Run, Started, Counts, Counting, WantedOf
<1>6. FirstWanted'
  BY <1>2, <1>3 DEF FirstWanted
<1>7. StatusTells'
  BY DEF Run, Started, StatusTells
<1> QED BY <1>4, <1>5, <1>6, <1>7 DEF IInv

\* What the broker and the network do leaves the program alone.
LEMMA OutsideInv ==
    ASSUME IInv, PublishWanted \/ PublishUnwanted \/ Lose \/ Reconnect \/ my_connect_callback
    PROVE  IInv'
<1>1. UNCHANGED program
  BY DEF PublishWanted, PublishUnwanted, Publish, Lose, Reconnect, my_connect_callback
<1>2. Counts' /\ FirstWanted' /\ StatusTells'
  BY <1>1 DEF IInv, program, Counts, Counting, FirstWanted, WantedBefore, WantedOf, Wanted,
              StatusTells
<1>3. posted' = posted
  BY DEF PublishWanted, PublishUnwanted, Publish, Lose, Reconnect, my_connect_callback
<1>4. /\ net' \in {"CLOSED", "CONNECTING", "UP"} /\ subscribed' \subseteq cfg.topics
      /\ failed' \subseteq cfg.topics
  BY DEF PublishWanted, PublishUnwanted, Publish, Lose, Dropped, Reconnect,
         my_connect_callback, Subscriptions, IInv, TypeOK
<1>5. inbox' \in Seq(mosquitto_message) /\ Len(inbox') <= InCap
  <2>1. ASSUME NEW m \in mosquitto_message, Publish(m)
        PROVE  inbox' \in Seq(mosquitto_message) /\ Len(inbox') <= InCap
    <3>1. inbox \in Seq(mosquitto_message)
      BY DEF IInv, TypeOK
    <3>2. InCap \in Nat /\ Len(inbox) < InCap /\ inbox' = Append(inbox, m)
      BY <2>1, SubAssumption DEF Publish
    <3> QED BY <3>1, <3>2, AppendReceived
  <2>2. CASE inbox' = <<>>
    BY <2>2, SubAssumption
  <2>3. CASE inbox' = inbox
    BY <2>3 DEF IInv, TypeOK
  <2> QED BY <2>1, <2>2, <2>3 DEF PublishWanted, PublishUnwanted, Lose, Dropped, Reconnect,
                                  my_connect_callback
<1>6. TypeOK'
  BY <1>1, <1>3, <1>4, <1>5 DEF IInv, TypeOK, program
<1> QED BY <1>2, <1>6 DEF IInv

\* main() before and after the loop: the status is 0 only if the loop ends because
\* the count was reached.
LEMMA MainInv ==
    ASSUME IInv, client_connect \/ LoopEnds \/ LoopFails
    PROVE  IInv'
<1>1. UNCHANGED <<cfg, process_messages, msg_count, closing, received, handled, posted>>
  BY DEF client_connect, LoopEnds, LoopFails, Return
<1>2. Counts' /\ FirstWanted'
  BY <1>1 DEF IInv, Counts, Counting, FirstWanted, WantedBefore, WantedOf, Wanted
<1>3. /\ inbox' \in {inbox, <<>>} /\ subscribed' \in {subscribed, {}}
      /\ failed' \in {failed, {}}
  BY DEF client_connect, LoopEnds, LoopFails, Return, Dropped
<1>4. main' \in {"LOOP", "DONE"} /\ net' \in {"CLOSED", "CONNECTING", net}
  BY DEF client_connect, LoopEnds, LoopFails, Return, Dropped
<1>5. rc' \in {0, 1, rc}
  BY DEF client_connect, LoopEnds, LoopFails, Return, Status
<1>6. TypeOK'
  <2>1. inbox' \in Seq(mosquitto_message) /\ Len(inbox') <= InCap
    <3>1. <<>> \in Seq(mosquitto_message) /\ Len(<<>>) = 0 /\ 0 <= InCap
      BY SubAssumption
    <3>2. inbox \in Seq(mosquitto_message) /\ Len(inbox) <= InCap
      BY DEF IInv, TypeOK
    <3> QED BY <1>3, <3>1, <3>2
  <2>2. /\ {inbox', received'} \subseteq Seq(mosquitto_message)
        /\ handled' \subseteq 1..Len(received')
    BY <1>1, <2>1 DEF IInv, TypeOK
  <2>3. rc' \in 0..1 /\ msg_count' \in 0..cfg'.msg_count /\ posted' \in 0..QCap
    BY <1>1, <1>5 DEF IInv, TypeOK
  <2>4. process_messages' \in BOOLEAN /\ closing' \in BOOLEAN
    BY <1>1 DEF IInv, TypeOK
  <2>5. /\ cfg' \in mosq_config /\ main' \in {"CONNECT", "LOOP", "BLOCKED", "DONE"}
        /\ net' \in {"CLOSED", "CONNECTING", "UP"} /\ subscribed' \subseteq cfg'.topics
        /\ failed' \subseteq cfg'.topics
    BY <1>1, <1>3, <1>4 DEF IInv, TypeOK
  <2> QED BY <2>1, <2>2, <2>3, <2>4, <2>5 DEF TypeOK
<1>7. StatusTells'
  <2>1. CASE client_connect
    BY <2>1, SMT DEF client_connect, StatusTells, IInv, TypeOK
  <2>2. CASE LoopFails
    BY <2>2 DEF LoopFails, Return, Status, StatusTells
  <2>3. CASE LoopEnds
    <3>1. ~process_messages
      BY <2>3 DEF LoopEnds, IInv, Counts
    <3>2. cfg.msg_count \in Nat /\ msg_count \in 0..cfg.msg_count
      BY CfgType DEF IInv, TypeOK
    <3>3. Counting /\ Cardinality(handled) = cfg.msg_count
      BY <3>1, <3>2 DEF IInv, Counts
    <3> QED BY <1>1, <3>3 DEF StatusTells, Counting
  <2> QED BY <2>1, <2>2, <2>3
<1> QED BY <1>2, <1>6, <1>7 DEF IInv

\* A message that the callback looks at is handled, if it is wanted, while messages
\* are processed and only then.
LEMMA CallbackInv == IInv /\ my_message_callback => IInv'
<1> SUFFICES ASSUME IInv, my_message_callback PROVE IInv'
  OBVIOUS
<1> DEFINE m == Head(inbox)  n == Len(received)
           count == IF Counting THEN msg_count + 1 ELSE msg_count
           Done == Counting /\ count = cfg.msg_count
<1>1. /\ m \in mosquitto_message /\ Tail(inbox) \in Seq(mosquitto_message)
      /\ Len(Tail(inbox)) <= InCap
  <2>1. inbox \in Seq(mosquitto_message) /\ inbox # <<>> /\ Len(inbox) <= InCap
    BY DEF my_message_callback, IInv, TypeOK
  <2> QED BY <2>1, HeadTailProperties, LenProperties, SubAssumption
<1>2. received \in Seq(mosquitto_message) /\ handled \in SUBSET (1..n) /\ n \in Nat
  BY LenProperties DEF IInv, TypeOK
<1>3. /\ received' = Append(received, m) /\ received' \in Seq(mosquitto_message)
      /\ Len(received') = n + 1 /\ inbox' = Tail(inbox)
  BY <1>1, <1>2, AppendReceived DEF my_message_callback
<1>4. UNCHANGED <<cfg, main, rc, net, subscribed, failed>> /\ main = "LOOP" /\ main' = "LOOP"
  BY DEF my_message_callback
<1>5. /\ WantedOf(received') = WantedOf(received) \cup (IF Wanted(m) THEN {n + 1} ELSE {})
      /\ First(received') = First(received) \cup
             (IF Wanted(m) /\ (Counting => Cardinality(WantedOf(received)) < cfg.msg_count)
              THEN {n + 1} ELSE {})
  BY <1>1, <1>2, <1>3, WantedAppend, FirstAppend
<1>6. /\ WantedOf(received)' = WantedOf(received') /\ First(received)' = First(received')
      /\ Counting' = Counting
  BY <1>4 DEF WantedOf, First, Wanted, Counting
<1>7. handled = First(received) /\ (FirstWanted' <=> handled' = First(received)')
  BY DEF IInv, FirstWanted, First, WantedBefore
<1>8. /\ IsFiniteSet(handled) /\ Cardinality(handled) \in Nat
      /\ IsFiniteSet(WantedOf(received)) /\ Cardinality(WantedOf(received)) \in Nat
      /\ n + 1 \notin handled /\ handled \subseteq WantedOf(received)
  <2>1. WantedOf(received) \in SUBSET (1..n) /\ handled \subseteq WantedOf(received)
    BY <1>7 DEF WantedOf, First
  <2>2. n + 1 \notin handled
    BY <1>2
  <2> QED BY <1>2, <2>1, <2>2, WantedFinite
<1>9. cfg.msg_count \in Nat /\ msg_count \in 0..cfg.msg_count
  BY CfgType DEF IInv, TypeOK
<1>10. StatusTells'
  BY <1>4 DEF StatusTells
<1>11. \/ ~process_messages \/ ~Wanted(m)
       \/ process_messages /\ Wanted(m)
  OBVIOUS
<1> HIDE DEF m, n
<1>12. CASE ~process_messages \/ ~Wanted(m)
  <2>1. UNCHANGED <<posted, handled, msg_count, process_messages, closing>>
    BY <1>12 DEF my_message_callback, Ignored, m
  <2>2. First(received') = First(received)
    <3>1. CASE ~Wanted(m)
      BY <1>5, <3>1
    <3>2. CASE ~process_messages
      <4>1. Counting /\ Cardinality(handled) >= cfg.msg_count
        BY <3>2, <1>8, <1>9 DEF IInv, Counts
      <4>2. Cardinality(WantedOf(received)) >= Cardinality(handled)
        BY <1>8, FS_Subset
      <4> QED BY <1>5, <1>8, <1>9, <4>1, <4>2
    <3> QED BY <1>12, <3>1, <3>2
  <2>3. FirstWanted'
    BY <1>6, <1>7, <2>1, <2>2
  <2>4. process_messages => WantedOf(received') = WantedOf(received)
    BY <1>5, <1>12
  <2>5. Counts'
    BY <1>4, <1>6, <2>1, <2>4 DEF IInv, Counts
  <2>6. TypeOK'
    BY <1>1, <1>2, <1>3, <1>4, <2>1 DEF IInv, TypeOK, n
  <2> QED BY <1>10, <2>3, <2>5, <2>6 DEF IInv
<1>13. CASE process_messages /\ Wanted(m)
  <2>1. /\ Posts(m) => posted < QCap
        /\ posted' = IF Posts(m) THEN posted + 1 ELSE posted
        /\ handled' = handled \cup {n + 1} /\ msg_count' = count
        /\ process_messages' = (process_messages /\ ~Done)
        /\ closing' = (closing \/ Done)
    BY <1>13 DEF my_message_callback, Ignored, Counted, m, n
  <2>2. handled = WantedOf(received)
    BY <1>13 DEF IInv, Counts
  <2>3. Counting => msg_count = Cardinality(handled) /\ msg_count < cfg.msg_count
    BY <1>13 DEF IInv, Counts
  <2>4. ~Counting => msg_count = 0
    BY DEF IInv, Counts
  <2>5. Cardinality(handled') = Cardinality(handled) + 1
    BY <1>8, <2>1, FS_AddElement
  <2>6. FirstWanted'
    BY <1>5, <1>6, <1>7, <1>13, <2>1, <2>2, <2>3
  <2>7. Counts'
    <3>1. msg_count' = IF Counting' THEN Cardinality(handled') ELSE 0
      BY <1>6, <1>9, <2>1, <2>3, <2>4, <2>5
    <3>2. Done <=> ~(Counting => msg_count' < cfg.msg_count)
      BY <1>8, <1>9, <2>1, <2>3
    <3>3. process_messages' <=> (Counting' => msg_count' < cfg'.msg_count)
      <4> HIDE DEF Done, count
      <4> QED BY <1>4, <1>6, <1>13, <2>1, <3>2
    <3>4. closing' <=> ~process_messages'
      <4> HIDE DEF Done, count
      <4> QED BY <1>13, <2>1 DEF IInv, Counts
    <3>5. handled' = WantedOf(received)'
      BY <1>5, <1>6, <1>13, <2>1, <2>2
    <3> QED BY <3>1, <3>3, <3>4, <3>5 DEF Counts
  <2>8. TypeOK'
    <3>1. posted' \in 0..QCap
      BY <2>1, SubAssumption DEF IInv, TypeOK
    <3>2. msg_count' \in 0..cfg'.msg_count
      BY <1>4, <1>9, <2>1, <2>3
    <3>3. handled' \subseteq 1..Len(received')
      BY <1>2, <1>3, <2>1
    <3>4. process_messages' \in BOOLEAN /\ closing' \in BOOLEAN
      BY <2>1 DEF IInv, TypeOK
    <3>5. {inbox', received'} \subseteq Seq(mosquitto_message) /\ Len(inbox') <= InCap
      BY <1>1, <1>3
    <3>6. /\ cfg' \in mosq_config /\ main' \in {"CONNECT", "LOOP", "BLOCKED", "DONE"} /\ rc' \in 0..1
          /\ net' \in {"CLOSED", "CONNECTING", "UP"} /\ subscribed' \subseteq cfg'.topics
          /\ failed' \subseteq cfg'.topics
      BY <1>4 DEF IInv, TypeOK
    <3> QED BY <3>1, <3>2, <3>3, <3>4, <3>5, <3>6 DEF TypeOK
  <2> QED BY <1>10, <2>6, <2>7, <2>8 DEF IInv
<1> QED BY <1>11, <1>12, <1>13

\* A callback that waits has changed nothing yet.
LEMMA WaitsInv == IInv /\ msgsnd_waits => IInv'
<1> SUFFICES ASSUME IInv, msgsnd_waits PROVE IInv'
  OBVIOUS
<1>1. /\ UNCHANGED <<cfg, process_messages, msg_count, rc, closing, received, handled,
                     net, subscribed, failed, inbox, posted>>
      /\ main' = "BLOCKED"
  BY DEF msgsnd_waits
<1>2. TypeOK'
  BY <1>1 DEF IInv, TypeOK
<1>3. Counts' /\ FirstWanted' /\ StatusTells'
  BY <1>1 DEF IInv, Counts, Counting, FirstWanted, WantedBefore, WantedOf, Wanted, StatusTells
<1> QED BY <1>2, <1>3 DEF IInv

\* Every step keeps the invariant.
LEMMA StepInv == IInv /\ [Next]_vars => IInv'
<1>1. ASSUME IInv, UNCHANGED vars PROVE IInv'
  <2>1. UNCHANGED <<program, net, subscribed, failed, inbox, posted>>
    BY <1>1 DEF vars
  <2>2. TypeOK'
    BY <1>1, <2>1 DEF IInv, TypeOK, program
  <2>3. Counts' /\ FirstWanted' /\ StatusTells'
    BY <1>1, <2>1 DEF IInv, program, Counts, Counting, FirstWanted, WantedBefore, WantedOf,
                      Wanted, StatusTells
  <2> QED BY <2>2, <2>3 DEF IInv
<1> QED BY <1>1, RunInv, OutsideInv, MainInv, CallbackInv, WaitsInv DEF Next, Library

\* So it holds at every state.
LEMMA Invariant == Spec => []IInv
BY InitInv, StepInv, PTL DEF Spec

-----------------------------------------------------------------------------
(* The theorems *)

\* The variables of mosquitto_sub keep to their types: msg_count never passes the
\* count asked for, and the queue never holds more than it can.
THEOREM TypeCorrect == Spec => []TypeOK
<1>1. IInv => TypeOK
  BY DEF IInv
<1> QED BY <1>1, Invariant, PTL

\* my_message_callback handles the first msg_count messages that are wanted of those
\* it is given, and no others, although it is still given messages after it has asked
\* to disconnect and on every connection that is made again.
THEOREM HandlesFirstWanted == Spec => []FirstWanted
<1>1. IInv => FirstWanted
  BY DEF IInv
<1> QED BY <1>1, Invariant, PTL

\* main() returns 0 only when -C was given and as many messages were handled.
THEOREM StatusIsOfCount == Spec => []StatusTells
<1>1. IInv => StatusTells
  BY DEF IInv
<1> QED BY <1>1, Invariant, PTL

\* Every connection that is up has all the topics, also when it was made again, but
\* those mosquitto_subscribe() has failed for on it.
Subscribed == net = "UP" => subscribed = cfg.topics \ failed

\* No step unsubscribes a topic without ending the connection.
LEMMA SubscribedInvariant == Spec => []Subscribed
<1>1. Init => Subscribed
  BY DEF Init, Subscribed
<1>2. Subscribed /\ [Next]_vars => Subscribed'
  <2> SUFFICES ASSUME Subscribed, [Next]_vars PROVE Subscribed'
    OBVIOUS
  <2>1. CASE Run
    BY <2>1 DEF Run, Started, Subscribed
  <2>2. CASE my_connect_callback
    BY <2>2 DEF my_connect_callback, Subscriptions, Subscribed, program
  <2>3. CASE client_connect \/ Reconnect \/ Lose \/ LoopEnds \/ LoopFails
    BY <2>3 DEF client_connect, Reconnect, Lose, LoopEnds, LoopFails, Return, Dropped, Subscribed,
                program
  <2>4. CASE PublishWanted \/ PublishUnwanted \/ my_message_callback \/ msgsnd_waits
            \/ UNCHANGED vars
    BY <2>4 DEF PublishWanted, PublishUnwanted, Publish, my_message_callback, msgsnd_waits,
                vars, program,
                Subscribed
  <2> QED BY <2>1, <2>2, <2>3, <2>4 DEF Next, Library
<1> QED BY <1>1, <1>2, PTL DEF Spec

\* With -C the library is told to disconnect as soon as msg_count messages were handled
\* and never before, whatever was lost; until then the client is subscribed to
\* all it was asked for, but for calls that failed on this connection, and ignores
\* nothing it wants.  Without -C it is never told to.
THEOREM AsksToEndAtCount ==
    Spec => [](/\ closing <=> Counting /\ Cardinality(handled) = cfg.msg_count
               /\ ~closing => /\ \A m \in mosquitto_message : Ignored(m) <=> ~Wanted(m)
                              /\ net = "UP" => subscribed = cfg.topics \ failed)
<1>1. IInv => (closing <=> Counting /\ Cardinality(handled) = cfg.msg_count)
  <2> SUFFICES ASSUME IInv PROVE closing <=> Counting /\ Cardinality(handled) = cfg.msg_count
    OBVIOUS
  <2>1. cfg.msg_count \in Nat /\ msg_count \in 0..cfg.msg_count
    BY CfgType DEF IInv, TypeOK
  <2>2. /\ msg_count = IF Counting THEN Cardinality(handled) ELSE 0
        /\ process_messages <=> (Counting => msg_count < cfg.msg_count)
        /\ closing <=> ~process_messages
    BY DEF IInv, Counts
  <2> QED BY <2>1, <2>2
<1>2. IInv => (~closing => \A m \in mosquitto_message : Ignored(m) <=> ~Wanted(m))
  BY DEF IInv, Counts, Ignored
<1>3. Subscribed => (net = "UP" => subscribed = cfg.topics \ failed)
  BY DEF Subscribed
<1> QED BY <1>1, <1>2, <1>3, Invariant, SubscribedInvariant, PTL
=============================================================================
