--------------------------- MODULE ForwarderProofs -----------------------------
(***************************************************************************)
(* Theorems about the forwarding threads, for any number of peripherals    *)
(* and retries, any capacity of the queues and every bound, restarts       *)
(* included: the variables keep to their types, every status that is or    *)
(* will be in WRITE_RSP is accounted for, and when every thread waits it   *)
(* is for one of the reasons named.                                        *)
(***************************************************************************)
EXTENDS Forwarder, FiniteSetTheorems, SequenceTheorems, TLAPS

Events == Seq([kind : Kind, of : Nat])

\* The states of the forwarding thread.
Fwd == [at : {"RECV", "NOTIFY", "WRITE", "LOOP", "SEND", "WAIT"},
        from : {CLOUD, PING, PEER}, idz : Nat, retry : 0..RETRY_COUNT]

\* What the assumptions say of the constants.
LEMMA Constants ==
    /\ MAX_NUM_PERIPHERALS \in Nat /\ MAX_NUM_PERIPHERALS >= 1
    /\ RETRY_COUNT \in Nat /\ RETRY_COUNT >= 1 /\ QCap \in Nat /\ QCap >= 1
    /\ Handle \subseteq Nat /\ 0 \in Handle
BY ForwarderAssumption DEF Handle

\* What is counted down stays a bound.
LEMMA UseType ==
    ASSUME left \in Bound, NEW what \in {"links", "messages", "faults", "restarts"}, Use(what)
    PROVE  left' \in Bound
BY DEF Use, Bound

\* A queue with room takes one more.
LEMMA AppendType ==
    ASSUME NEW S, NEW s \in Seq(S), NEW e \in S
    PROVE  /\ Append(s, e) \in Seq(S) /\ Len(Append(s, e)) = Len(s) + 1
           /\ Room(s) => Len(Append(s, e)) <= QCap
<1>1. Append(s, e) \in Seq(S) /\ Len(Append(s, e)) = Len(s) + 1 /\ Len(s) \in Nat
  BY LenProperties
<1> QED BY <1>1, Constants DEF Room

\* Taking the first message of a queue.
LEMMA TailType ==
    ASSUME NEW S, NEW s \in Seq(S), s # <<>>
    PROVE  /\ Head(s) \in S /\ Tail(s) \in Seq(S) /\ Len(Tail(s)) = Len(s) - 1
           /\ Len(s) \in Nat /\ Len(s) >= 1
           /\ \A i \in 1..Len(Tail(s)) : Tail(s)[i] = s[i + 1]
BY HeadTailProperties, LenProperties

-----------------------------------------------------------------------------
(* Where the statuses are among the events of the line *)

\* The places of a queue can be counted.
LEMMA PlacesFinite ==
    ASSUME NEW S, NEW s \in Seq(S)
    PROVE  IsFiniteSet(Places(s)) /\ Cardinality(Places(s)) \in Nat
<1>1. Len(s) \in Nat
  BY LenProperties
<1>2. IsFiniteSet(1..Len(s))
  BY <1>1, FS_Interval
<1>3. Places(s) \in SUBSET (1..Len(s))
  BY DEF Places
<1> QED BY <1>2, <1>3, FS_Subset, FS_CardinalityType

\* An event put at the end counts if it is a status.
LEMMA PlacesAppend ==
    ASSUME NEW S, NEW s \in Seq(S), NEW e \in S
    PROVE  Cardinality(Places(Append(s, e))) =
               Cardinality(Places(s)) + (IF IsStatus(e) THEN 1 ELSE 0)
<1> DEFINE t == Append(s, e)  n == Len(s)
<1>1. /\ n \in Nat /\ Len(t) = n + 1 /\ t[n + 1] = e /\ \A i \in 1..n : t[i] = s[i]
  BY LenProperties, AppendProperties
<1> HIDE DEF t
<1>2. Places(t) = Places(s) \cup (IF IsStatus(e) THEN {n + 1} ELSE {})
  <2>1. 1..Len(t) = (1..n) \cup {n + 1}
    BY <1>1
  <2> HIDE DEF n
  <2>2. Places(t) = {i \in 1..n : IsStatus(t[i])} \cup {i \in {n + 1} : IsStatus(t[i])}
    BY <2>1 DEF Places
  <2>3. {i \in 1..n : IsStatus(t[i])} = Places(s)
    BY <1>1 DEF Places, n
  <2>4. {i \in {n + 1} : IsStatus(t[i])} = IF IsStatus(e) THEN {n + 1} ELSE {}
    BY <1>1
  <2> QED BY <2>2, <2>3, <2>4
<1>3. n + 1 \notin Places(s) /\ IsFiniteSet(Places(s))
  BY <1>1, PlacesFinite DEF Places
<1> HIDE DEF n
<1>4. CASE IsStatus(e)
  <2>1. Cardinality(Places(s) \cup {n + 1}) = Cardinality(Places(s)) + 1
    BY <1>3, FS_AddElement
  <2> QED BY <1>2, <1>4, <2>1 DEF t
<1>5. CASE ~IsStatus(e)
  <2>1. Places(t) = Places(s) /\ Cardinality(Places(s)) \in Nat
    BY <1>2, <1>5, PlacesFinite
  <2> QED BY <1>5, <2>1 DEF t
<1> QED BY <1>4, <1>5

\* The first event taken off the line counts no longer.
LEMMA PlacesTail ==
    ASSUME NEW S, NEW s \in Seq(S), s # <<>>
    PROVE  Cardinality(Places(s)) =
               Cardinality(Places(Tail(s))) + (IF IsStatus(Head(s)) THEN 1 ELSE 0)
<1> DEFINE t == Tail(s)  f == [i \in Places(t) |-> i + 1]
<1>1. /\ t \in Seq(S) /\ Len(t) = Len(s) - 1 /\ Len(s) \in Nat /\ Len(s) >= 1
      /\ \A i \in 1..Len(t) : t[i] = s[i + 1]
  BY TailType
<1>2. Head(s) = s[1]
  BY <1>1
<1> HIDE DEF t
<1>3. f \in Bijection(Places(t), Places(s) \ {1})
  <2>1. \A i \in Places(t) : i + 1 \in Places(s) \ {1}
    BY <1>1 DEF Places
  <2>2. f \in [Places(t) -> Places(s) \ {1}]
    BY <2>1
  <2>3. \A i, j \in Places(t) : f[i] = f[j] => i = j
    BY DEF Places
  <2>4. ASSUME NEW k \in Places(s) \ {1} PROVE \E i \in Places(t) : f[i] = k
    <3>1. k \in 2..Len(s) /\ IsStatus(s[k])
      BY <1>1 DEF Places
    <3>2. k - 1 \in 1..Len(t) /\ t[k - 1] = s[(k - 1) + 1] /\ (k - 1) + 1 = k
      BY <1>1, <3>1
    <3>3. k - 1 \in Places(t)
      BY <3>1, <3>2 DEF Places
    <3> QED BY <3>2, <3>3
  <2> HIDE DEF f
  <2> QED BY <2>2, <2>3, <2>4 DEF Bijection, Injection, Surjection, IsInjective
<1>4. IsFiniteSet(Places(t)) /\ IsFiniteSet(Places(s)) /\ Cardinality(Places(t)) \in Nat
  BY <1>1, PlacesFinite
<1>5. Cardinality(Places(s) \ {1}) = Cardinality(Places(t))
  BY <1>3, <1>4, FS_Bijection DEF ExistsBijection
<1>6. 1 \in Places(s) <=> IsStatus(Head(s))
  BY <1>1, <1>2 DEF Places
<1>7. /\ Cardinality(Places(s)) \in Nat
      /\ Cardinality(Places(s) \ {1}) =
             IF 1 \in Places(s) THEN Cardinality(Places(s)) - 1 ELSE Cardinality(Places(s))
  BY <1>4, FS_RemoveElement, FS_CardinalityType
<1> QED BY <1>4, <1>5, <1>6, <1>7 DEF t

-----------------------------------------------------------------------------
(* Types *)

\* A report puts an event on the line.
LEMMA ReportType ==
    ASSUME TypeOK, NEW e \in [kind : Kind, of : Nat], Report(e)
    PROVE  line' \in Events /\ UNCHANGED <<pipe0, fwdq, rsp, comq, pingq>>
BY AppendType DEF Report, TypeOK, Events

\* A queue that is read keeps its type, and holds no more than before.
LEMMA RestType ==
    ASSUME NEW S, NEW s \in Seq(S), s # <<>>, Len(s) <= QCap
    PROVE  Rest(s) \in Seq(S) /\ Len(Rest(s)) <= QCap /\ Len(Rest(s)) = Len(s) - 1
<1>1. Tail(s) \in Seq(S) /\ Len(Tail(s)) = Len(s) - 1 /\ Len(s) \in Nat
  BY TailType
<1> QED BY <1>1, Constants DEF Rest

\* At most as many entries are counted as the table has.
LEMMA CountedType == ASSUME NEW table PROVE Counted(table) \in 0..MAX_NUM_PERIPHERALS
<1> DEFINE up == {h \in Handle : table[h]}
<1>1. /\ IsFiniteSet(Handle) /\ Cardinality(Handle) = MAX_NUM_PERIPHERALS
  BY Constants, FS_Interval DEF Handle
<1>2. up \in SUBSET Handle
  OBVIOUS
<1>3. IsFiniteSet(up) /\ Cardinality(up) <= Cardinality(Handle) /\ Cardinality(up) \in Nat
  BY <1>1, <1>2, FS_Subset, FS_CardinalityType
<1> QED BY <1>1, <1>3, Constants DEF Counted

\* The thread that waits for its next message.
LEMMA IdleType == Idle \in Fwd
BY Constants DEF Idle, Fwd

\* The types hold initially, and every thread keeps them.
LEMMA TypeInit == Init => TypeOK
<1> SUFFICES ASSUME Init PROVE TypeOK
  OBVIOUS
<1>1. conn \in [Handle -> BOOLEAN] /\ Slave_Count \in 0..MAX_NUM_PERIPHERALS
  BY Constants DEF Init
<1>2. /\ line \in Events /\ pipe0 \in Seq({"WRITE_REQUEST", "NOTIFICATION"})
      /\ fwdq \in Seq(Message) /\ rsp \in Seq(Nat) /\ cmds \in Seq(Handle)
      /\ comq \in Seq({"ANSWER", "RECOUNT"}) /\ pingq \in Seq({"PING"})
      /\ Len(pipe0) = 0 /\ Len(fwdq) = 0 /\ Len(rsp) = 0 /\ Len(comq) = 0 /\ Len(pingq) = 0
  BY DEF Init, Events
<1>3. fwd \in Fwd
  BY IdleType DEF Init
<1>4. aside \in Nat /\ lost \in Nat /\ left \in Bound
  BY ForwarderAssumption DEF Init
<1>5. central \in {"READS", "NOTIFY", "DATA_LED", "LOOP"}
  BY DEF Init
<1> QED BY <1>1, <1>2, <1>3, <1>4, <1>5, Constants DEF TypeOK, Events, Fwd

\* Posting a message keeps the types.
LEMMA PostType ==
    ASSUME TypeOK, NEW m \in Message, Post(m)
    PROVE  TypeOK'
<1>1. fwdq' \in Seq(Message) /\ Len(fwdq') <= QCap
  BY AppendType DEF Post, TypeOK
<1>2. left' \in Bound
  BY UseType DEF Post, TypeOK
<1> QED BY <1>1, <1>2 DEF Post, TypeOK

LEMMA EnvironmentType == TypeOK /\ Environment => TypeOK'
<1> SUFFICES ASSUME TypeOK, Environment PROVE TypeOK'
  OBVIOUS
<1>1. ASSUME NEW h \in Handle, Update_Conn_Status(h) PROVE TypeOK'
  <2>1. left' \in Bound
    BY <1>1, UseType DEF Update_Conn_Status, TypeOK
  <2>2. conn' \in [Handle -> BOOLEAN]
    BY <1>1 DEF Update_Conn_Status, TypeOK
  <2> QED BY <1>1, <2>1, <2>2 DEF Update_Conn_Status, queues, TypeOK
<1>2. ASSUME NEW h \in Handle, LinkEnds(h) PROVE TypeOK'
  <2>1. PICK kind \in EndKinds : Report([kind |-> kind, of |-> h])
    BY <1>2 DEF LinkEnds
  <2>2. [kind |-> kind, of |-> h] \in [kind : Kind, of : Nat]
    BY Constants DEF Kind, EndKinds
  <2>3. line' \in Events /\ UNCHANGED <<pipe0, fwdq, rsp, comq, pingq>>
    BY <2>1, <2>2, ReportType
  <2> QED BY <1>2, <2>3 DEF LinkEnds, TypeOK, Events
<1>3. ASSUME NEW h \in Handle, Post([from |-> PING, arg |-> h]) PROVE TypeOK'
  BY <1>3, PostType, Constants DEF Message
<1>4. CASE Post([from |-> CLOUD, arg |-> 0])
  BY <1>4, PostType DEF Message
<1>5. CASE PeerSends
  <2>1. PICK kind \in PeerKinds : Report([kind |-> kind, of |-> 0])
    BY <1>5 DEF PeerSends
  <2>2. line' \in Events /\ UNCHANGED <<pipe0, fwdq, rsp, comq, pingq>>
    BY <2>1, ReportType DEF Kind, PeerKinds
  <2>3. left' \in Bound
    BY <1>5, UseType DEF PeerSends, TypeOK
  <2> QED BY <1>5, <2>2, <2>3 DEF PeerSends, TypeOK, Events
<1>6. CASE PingRead
  <2>1. pingq' \in Seq({"PING"}) /\ Len(pingq') <= QCap
    BY <1>6, RestType DEF PingRead, TypeOK
  <2> QED BY <1>6, <2>1 DEF PingRead, TypeOK
<1> QED BY <1>1, <1>2, <1>3, <1>4, <1>5, <1>6 DEF Environment

LEMMA AnswerType == TypeOK /\ Answer => TypeOK'
<1> SUFFICES ASSUME TypeOK, Answer PROVE TypeOK'
  OBVIOUS
<1>1. PICK s \in Nat : Report([kind |-> "STATUS", of |-> s])
  <2>1. left.statuses \subseteq Nat
    BY DEF TypeOK, Bound
  <2> QED BY <2>1 DEF Answer
<1>2. line' \in Events /\ UNCHANGED <<pipe0, fwdq, rsp, comq, pingq>>
  BY <1>1, ReportType DEF Kind
<1>3. cmds' \in Seq(Handle)
  BY TailType DEF Answer, TypeOK
<1> QED BY <1>2, <1>3 DEF Answer, TypeOK, Events

\* A command nobody waits for is counted if it is written.
LEMMA WriteType ==
    ASSUME TypeOK, WriteAside
    PROVE  /\ cmds' \in Seq(Handle) /\ aside' \in Nat /\ lost' = lost /\ left' \in Bound
           /\ Len(cmds) \in Nat /\ Len(cmds') \in Nat /\ Len(cmds') - aside' = Len(cmds) - aside
<1>1. cmds \in Seq(Handle) /\ Len(cmds) \in Nat /\ aside \in Nat /\ left \in Bound
  BY LenProperties DEF TypeOK
<1>2. CASE cmds' = Append(cmds, 0) /\ aside' = aside + 1 /\ UNCHANGED left
  <2>1. Append(cmds, 0) \in Seq(Handle) /\ Len(Append(cmds, 0)) = Len(cmds) + 1
    BY <1>1, AppendType, Constants
  <2> QED BY <1>1, <1>2, <2>1 DEF WriteAside
<1>3. CASE Use("faults") /\ UNCHANGED <<cmds, aside>>
  <2>1. left' \in Bound
    BY <1>1, <1>3, UseType
  <2> QED BY <1>1, <1>3, <2>1 DEF WriteAside
<1> QED BY <1>2, <1>3 DEF WriteAside

\* Central reads, and writes in bond().
LEMMA CentralType == TypeOK /\ CentralModeThread => TypeOK'
<1> SUFFICES ASSUME TypeOK, CentralModeThread PROVE TypeOK'
  OBVIOUS
<1>1. CASE CentralReads
  <2>1. comq' \in Seq({"ANSWER", "RECOUNT"}) /\ Len(comq') <= QCap
    BY <1>1, RestType DEF CentralReads, TypeOK
  <2> QED BY <1>1, <2>1 DEF CentralReads, TypeOK
<1>2. CASE bond
  <2>1. /\ cmds' \in Seq(Handle) /\ aside' \in Nat /\ lost' = lost /\ left' \in Bound
    BY <1>2, WriteType DEF bond, TypeOK
  <2> QED BY <1>2, <2>1 DEF bond, queues, TypeOK
<1> QED BY <1>1, <1>2 DEF CentralModeThread

\* The first event on the line, taken or marked.
LEMMA HeadType ==
    ASSUME TypeOK, line # <<>>
    PROVE  /\ Head(line) \in [kind : Kind, of : Nat] /\ Tail(line) \in Events
           /\ Head(line) = line[1] /\ 1 \in 1..Len(line)
<1>1. line \in Seq([kind : Kind, of : Nat])
  BY DEF TypeOK
<1>2. Head(line) \in [kind : Kind, of : Nat] /\ Tail(line) \in Events /\ Len(line) \in Nat /\ Len(line) >= 1
  BY <1>1, TailType DEF Events
<1> QED BY <1>1, <1>2, HeadTailProperties

LEMMA RouteType == TypeOK /\ RouteNext => TypeOK'
<1> SUFFICES ASSUME TypeOK, RouteNext PROVE TypeOK'
  OBVIOUS
<1> DEFINE e == Head(line)
<1>1. e \in [kind : Kind, of : Nat] /\ Tail(line) \in Events /\ e = line[1] /\ 1 \in 1..Len(line)
  BY HeadType DEF RouteNext
<1>2. UNCHANGED <<fwdq, cmds, central, fwd, aside, lost, left>>
  BY DEF RouteNext
<1>3. CASE line' = Tail(line) /\ Routed(e)
  <2>0. line' \in Events
    BY <1>1, <1>3
  <2>1. CASE /\ e.kind = "STATUS" /\ Room(rsp) /\ rsp' = Append(rsp, e.of)
             /\ UNCHANGED <<conn, Slave_Count, pipe0, comq, pingq>>
    <3>1. e.of \in Nat
      BY <1>1
    <3>2. rsp' \in Seq(Nat) /\ Len(rsp') <= QCap
      BY <2>1, <3>1, AppendType DEF TypeOK
    <3> QED BY <1>2, <2>0, <2>1, <3>2 DEF TypeOK, Events
  <2>2. CASE /\ e.kind \in {"WRITE_REQUEST", "NOTIFICATION"}
             /\ Room(pipe0) /\ pipe0' = Append(pipe0, e.kind)
             /\ UNCHANGED <<conn, Slave_Count, rsp, comq, pingq>>
    <3>1. pipe0' \in Seq({"WRITE_REQUEST", "NOTIFICATION"}) /\ Len(pipe0') <= QCap
      BY <2>2, AppendType DEF TypeOK
    <3> QED BY <1>2, <2>0, <2>2, <3>1 DEF TypeOK, Events
  <2>3. CASE /\ e.kind = "PING" /\ Room(pingq) /\ pingq' = Append(pingq, e.kind)
             /\ UNCHANGED <<conn, Slave_Count, pipe0, rsp, comq>>
    <3>1. pingq' \in Seq({"PING"}) /\ Len(pingq') <= QCap
      BY <2>3, AppendType DEF TypeOK
    <3> QED BY <1>2, <2>0, <2>3, <3>1 DEF TypeOK, Events
  <2>4. CASE /\ e.kind \in {"ANSWER", "RECOUNT"}
             /\ Room(comq) /\ comq' = Append(comq, e.kind)
             /\ Slave_Count' = (IF e.kind = "RECOUNT" THEN Counted(conn) ELSE Slave_Count)
             /\ UNCHANGED <<conn, pipe0, rsp, pingq>>
    <3>1. comq' \in Seq({"ANSWER", "RECOUNT"}) /\ Len(comq') <= QCap
      BY <2>4, AppendType DEF TypeOK
    <3>2. Slave_Count' \in 0..MAX_NUM_PERIPHERALS
      BY <2>4, CountedType DEF TypeOK
    <3> QED BY <1>2, <2>0, <2>4, <3>1, <3>2 DEF TypeOK, Events
  <2>5. CASE /\ conn' = [conn EXCEPT ![e.of] = FALSE] /\ Slave_Count' = Counted(conn')
             /\ UNCHANGED <<pipe0, rsp, comq, pingq>>
    <3>1. conn' \in [Handle -> BOOLEAN]
      BY <2>5 DEF TypeOK
    <3>2. Slave_Count' \in 0..MAX_NUM_PERIPHERALS
      BY <2>5, CountedType
    <3> QED BY <1>2, <2>0, <2>5, <3>1, <3>2 DEF TypeOK, Events
  <2> HIDE DEF e
  <2> QED BY <1>3, <2>1, <2>2, <2>3, <2>4, <2>5 DEF Routed
<1>4. CASE /\ conn' = [conn EXCEPT ![e.of] = FALSE]
           /\ line' = [line EXCEPT ![1].kind = "RECOUNT"]
           /\ UNCHANGED <<Slave_Count, pipe0, rsp, comq, pingq>>
  <2>1. conn' \in [Handle -> BOOLEAN]
    BY <1>4 DEF TypeOK
  <2>2. line' \in Events
    <3>1. [e EXCEPT !.kind = "RECOUNT"] \in [kind : Kind, of : Nat]
      BY <1>1 DEF Kind
    <3>2. line' = [line EXCEPT ![1] = [e EXCEPT !.kind = "RECOUNT"]]
      BY <1>1, <1>4
    <3>3. line \in Seq([kind : Kind, of : Nat])
      BY DEF TypeOK
    <3> HIDE DEF e
    <3>4. line' \in Seq([kind : Kind, of : Nat])
      BY <1>1, <3>1, <3>2, <3>3, ExceptSeq
    <3> QED BY <3>4 DEF Events
  <2> QED BY <1>2, <1>4, <2>1, <2>2 DEF TypeOK, Events
<1> QED BY <1>3, <1>4 DEF RouteNext

LEMMA PipeType == TypeOK /\ pipe_0000_Thread => TypeOK'
<1> SUFFICES ASSUME TypeOK, pipe_0000_Thread PROVE TypeOK'
  OBVIOUS
<1>1. pipe0' \in Seq({"WRITE_REQUEST", "NOTIFICATION"}) /\ Len(pipe0') <= QCap
  BY RestType DEF pipe_0000_Thread, TypeOK
<1>2. fwdq' \in Seq(Message) /\ Len(fwdq') <= QCap
  <2> DEFINE m == [from |-> PEER, arg |-> IF Head(pipe0) = "WRITE_REQUEST" THEN 1 ELSE 0]
  <2>1. m \in Message /\ fwdq' = Append(fwdq, m) /\ Room(fwdq)
    BY DEF pipe_0000_Thread, Message
  <2> HIDE DEF m
  <2> QED BY <2>1, AppendType DEF TypeOK
<1> QED BY <1>1, <1>2 DEF pipe_0000_Thread, TypeOK

\* A notification puts a command before the dongle, or is lost.
LEMMA NotifyType ==
    ASSUME TypeOK, Notify_data
    PROVE  /\ cmds' \in Seq(Handle) /\ lost' \in Nat /\ left' \in Bound
           /\ Len(cmds) \in Nat /\ Len(cmds') \in Nat /\ Len(cmds') + lost' = Len(cmds) + lost + 1
<1>1. cmds \in Seq(Handle) /\ Len(cmds) \in Nat /\ lost \in Nat /\ left \in Bound
  BY LenProperties DEF TypeOK
<1>2. CASE cmds' = cmds \o <<0>> /\ UNCHANGED <<lost, left>>
  <2>1. /\ cmds \o <<0>> \in Seq(Handle) /\ Len(cmds \o <<0>>) = Len(cmds) + Len(<<0>>)
        /\ Len(<<0>>) = 1
    BY <1>1, ConcatProperties, Constants
  <2> QED BY <1>1, <1>2, <2>1
<1>3. CASE Use("faults") /\ lost' = lost + 1 /\ UNCHANGED cmds
  <2>1. left' \in Bound
    BY <1>1, <1>3, UseType
  <2> QED BY <1>1, <1>3, <2>1
<1> QED BY <1>2, <1>3 DEF Notify_data, Notified

\* The thread goes on with the next connection.
LEMMA OnwardType == ASSUME fwd \in Fwd PROVE Onward(fwd.idz) \in Fwd
<1>1. ASSUME NEW idz \in Nat PROVE [fwd EXCEPT !.at = "LOOP", !.idz = idz] \in Fwd
  BY DEF Fwd
<1>2. fwd.idz + 1 \in Nat
  BY DEF Fwd
<1> QED BY <1>1, <1>2 DEF Onward

LEMMA ForwarderType == TypeOK /\ Forward_MSG_Queue_Thread => TypeOK'
<1> SUFFICES ASSUME TypeOK, Forward_MSG_Queue_Thread PROVE TypeOK'
  OBVIOUS
<1>0. /\ fwd \in Fwd /\ UNCHANGED <<conn, Slave_Count, line, pipe0, comq, pingq, central>>
  BY DEF TypeOK, Fwd, Forward_MSG_Queue_Thread, Take, Notify_back, GATT_WRITE_VALUE, Loop,
         Notify_data, Await, Forwarding
<1>1. CASE Take
  <2>1. fwdq' \in Seq(Message) /\ Len(fwdq') <= QCap /\ Head(fwdq) \in Message
    <3>1. Head(fwdq) \in Message
      BY <1>1, TailType DEF Take, TypeOK
    <3> QED BY <1>1, <3>1, RestType DEF Take, TypeOK
  <2>2. fwd' \in Fwd
    BY <1>0, <1>1, <2>1, Constants DEF Take, Fwd, Message
  <2> QED BY <1>0, <1>1, <2>1, <2>2 DEF Take, TypeOK, Fwd
<1>2. CASE Notify_back
  <2>1. cmds' \in Seq(Handle) /\ aside' \in Nat /\ lost' = lost /\ left' \in Bound
    BY <1>2, WriteType DEF Notify_back
  <2>2. fwd' \in Fwd
    BY <1>0, <1>2 DEF Notify_back, Fwd
  <2> QED BY <1>0, <1>2, <2>1, <2>2 DEF Notify_back, TypeOK, Fwd
<1>3. CASE GATT_WRITE_VALUE
  <2>1. cmds' \in Seq(Handle) /\ aside' \in Nat /\ lost' = lost /\ left' \in Bound
    BY <1>3, WriteType DEF GATT_WRITE_VALUE
  <2>2. fwd' \in Fwd
    BY <1>0, <1>3 DEF GATT_WRITE_VALUE, Fwd
  <2> QED BY <1>0, <1>3, <2>1, <2>2 DEF GATT_WRITE_VALUE, TypeOK, Fwd
<1>4. CASE Loop
  <2>1. fwd' \in Fwd
    <3>1. [fwd EXCEPT !.at = "RECV"] \in Fwd
      BY <1>0 DEF Fwd
    <3>2. [fwd EXCEPT !.at = "SEND", !.retry = 0] \in Fwd
      <4>1. 0 \in 0..RETRY_COUNT
        BY Constants
      <4>2. ASSUME NEW retry \in 0..RETRY_COUNT
            PROVE  [fwd EXCEPT !.at = "SEND", !.retry = retry] \in Fwd
        BY <1>0 DEF Fwd
      <4> QED BY <4>1, <4>2
    <3>3. Onward(fwd.idz) \in Fwd
      BY <1>0, OnwardType
    <3>4. \/ fwd' = [fwd EXCEPT !.at = "RECV"] \/ fwd' = [fwd EXCEPT !.at = "SEND", !.retry = 0]
          \/ fwd' = Onward(fwd.idz)
      BY <1>4 DEF Loop
    <3> QED BY <3>1, <3>2, <3>3, <3>4
  <2> QED BY <1>0, <1>4, <2>1 DEF Loop, TypeOK, Fwd
<1>5. CASE Notify_data
  <2>1. cmds' \in Seq(Handle) /\ lost' \in Nat /\ left' \in Bound
    BY <1>5, NotifyType
  <2>2. fwd' \in Fwd
    BY <1>0, <1>5 DEF Notify_data, Fwd
  <2> QED BY <1>0, <1>5, <2>1, <2>2 DEF Notify_data, TypeOK, Fwd
<1>6. CASE Await
  <2>1. rsp' \in Seq(Nat) /\ Len(rsp') <= QCap
    BY <1>6, RestType DEF Await, TypeOK
  <2>2. fwd' \in Fwd
    <3> DEFINE retry == Retried(Head(rsp), fwd.retry, fwd.from)
    <3>1. retry \in Nat
      BY <1>0, Constants DEF Retried, Fwd
    <3>2. fwd' = IF retry < RETRY_COUNT THEN [fwd EXCEPT !.at = "SEND", !.retry = retry]
                 ELSE IF fwd.from = PING THEN [fwd EXCEPT !.at = "RECV"]
                 ELSE Onward(fwd.idz)
      BY <1>6 DEF Await
    <3> HIDE DEF retry
    <3>3. retry < RETRY_COUNT => retry \in 0..RETRY_COUNT
      BY <3>1, Constants
    <3>4. retry < RETRY_COUNT => [fwd EXCEPT !.at = "SEND", !.retry = retry] \in Fwd
      BY <1>0, <3>3 DEF Fwd
    <3>5. [fwd EXCEPT !.at = "RECV"] \in Fwd /\ Onward(fwd.idz) \in Fwd
      BY <1>0, OnwardType DEF Fwd
    <3> QED BY <3>2, <3>4, <3>5
  <2> QED BY <1>0, <1>6, <2>1, <2>2 DEF Await, TypeOK, Fwd
<1> QED BY <1>1, <1>2, <1>3, <1>4, <1>5, <1>6 DEF Forward_MSG_Queue_Thread

\* A restart leaves the queues as they are.
LEMMA RestartType == TypeOK /\ Restart => TypeOK'
<1> SUFFICES ASSUME TypeOK, Restart PROVE TypeOK'
  OBVIOUS
<1>1. left' \in Bound
  BY UseType DEF Restart, TypeOK
<1>2. /\ conn' \in [Handle -> BOOLEAN] /\ Slave_Count' \in 0..MAX_NUM_PERIPHERALS
      /\ line' \in Events /\ cmds' \in Seq(Handle)
  <2>1. conn' = [h \in Handle |-> FALSE] /\ Slave_Count' = 0 /\ line' = <<>>
    BY DEF Restart
  <2>2. cmds' = <<>> \/ cmds' = cmds
    BY DEF Restart
  <2>3. cmds \in Seq(Handle) /\ <<>> \in Seq(Handle)
    BY DEF TypeOK
  <2>4. cmds' \in Seq(Handle)
    BY <2>2, <2>3
  <2> QED BY <2>1, <2>4, Constants DEF Events
<1>3. aside' \in Nat /\ lost' \in Nat
  <2>1. Len(rsp) \in Nat /\ Len(cmds') \in Nat
    BY <1>2, LenProperties DEF TypeOK
  <2> QED BY <2>1 DEF Restart
<1> QED BY <1>1, <1>2, <1>3, IdleType DEF Restart, TypeOK, Events, Fwd

LEMMA TypeNext == TypeOK /\ [Next]_vars => TypeOK'
<1>1. TypeOK /\ UNCHANGED vars => TypeOK'
  BY DEF vars, queues, TypeOK
<1> QED BY <1>1, EnvironmentType, AnswerType, CentralType, RouteType, PipeType, ForwarderType,
           RestartType DEF Next

\* Every step of the threads, the dongle and the links keeps to the types, and
\* no queue holds more than it can.
THEOREM TypeCorrect == Spec => []TypeOK
BY TypeInit, TypeNext, PTL DEF Spec

-----------------------------------------------------------------------------
(* The statuses accounted for *)

\* Where the statuses are counted.
OnLine == Cardinality(Places(line))

\* What is counted are numbers.
LEMMA CountType ==
    TypeOK => /\ Len(cmds) \in Nat /\ OnLine \in Nat /\ Len(rsp) \in Nat /\ aside \in Nat
              /\ lost \in Nat /\ Awaited \in {0, 1}
<1>1. TypeOK => OnLine \in Nat
  BY PlacesFinite DEF TypeOK, OnLine
<1>2. TypeOK => Len(cmds) \in Nat /\ Len(rsp) \in Nat
  BY LenProperties DEF TypeOK
<1>3. TypeOK => aside \in Nat /\ lost \in Nat
  BY DEF TypeOK
<1> QED BY <1>1, <1>2, <1>3 DEF Awaited

\* Nothing is on an empty line.
LEMMA EmptyLine == line = <<>> => OnLine = 0
<1>1. line = <<>> => Places(line) = {}
  BY DEF Places
<1> QED BY <1>1, FS_EmptySet DEF OnLine

\* A report is counted if it is a status.
LEMMA ReportCount ==
    ASSUME TypeOK, NEW e \in [kind : Kind, of : Nat], Report(e)
    PROVE  OnLine' = OnLine + (IF IsStatus(e) THEN 1 ELSE 0) /\ Len(rsp)' = Len(rsp)
BY PlacesAppend DEF Report, TypeOK, OnLine

\* The account of statuses holds initially, and every thread keeps it.
LEMMA AccountInit == Init => StatusesAccountedFor
<1> SUFFICES ASSUME Init PROVE StatusesAccountedFor
  OBVIOUS
<1>1. line = <<>> /\ Len(cmds) = 0 /\ Len(rsp) = 0 /\ aside = 0 /\ lost = 0 /\ fwd.at = "RECV"
  BY DEF Init, Idle
<1>2. OnLine = 0
  BY <1>1, EmptyLine
<1> QED BY <1>1, <1>2 DEF StatusesAccountedFor, StatusesToCome, Awaited, OnLine

\* A step that leaves the sum, and what is due, as they are.
LEMMA AccountKept ==
    ASSUME StatusesAccountedFor, StatusesToCome' = StatusesToCome, UNCHANGED <<fwd, aside, lost>>
    PROVE  StatusesAccountedFor'
BY DEF StatusesAccountedFor, Awaited

LEMMA EnvironmentAccount ==
    TypeOK /\ StatusesAccountedFor /\ Environment => StatusesAccountedFor'
<1> SUFFICES ASSUME TypeOK, StatusesAccountedFor, Environment PROVE StatusesAccountedFor'
  OBVIOUS
<1>1. UNCHANGED <<fwd, aside, lost, cmds, rsp>>
  BY DEF Environment, Update_Conn_Status, LinkEnds, Post, PeerSends, PingRead, Report, queues
<1>2. OnLine' = OnLine
  <2>1. CASE line' = line
    BY <2>1 DEF OnLine
  <2>2. ASSUME NEW h \in Nat, NEW kind \in PeerKinds \cup EndKinds,
               Report([kind |-> kind, of |-> h])
        PROVE  OnLine' = OnLine
    <3> DEFINE e == [kind |-> kind, of |-> h]
    <3>1. e \in [kind : Kind, of : Nat] /\ ~IsStatus(e) /\ Report(e)
      BY <2>2 DEF Kind, IsStatus, PeerKinds, EndKinds
    <3> HIDE DEF e
    <3> QED BY <3>1, ReportCount, CountType
  <2>3. ASSUME NEW h \in Handle, LinkEnds(h) PROVE OnLine' = OnLine
    BY <2>2, <2>3, Constants DEF LinkEnds
  <2>4. CASE PeerSends
    BY <2>2, <2>4 DEF PeerSends
  <2> QED BY <2>1, <2>3, <2>4 DEF Environment, Update_Conn_Status, Post, PingRead, queues
<1> QED BY <1>1, <1>2, AccountKept DEF StatusesToCome, OnLine

\* The dongle's answer turns a command into a status.
LEMMA AnswerAccount == TypeOK /\ StatusesAccountedFor /\ Answer => StatusesAccountedFor'
<1> SUFFICES ASSUME TypeOK, StatusesAccountedFor, Answer PROVE StatusesAccountedFor'
  OBVIOUS
<1>1. PICK s \in Nat : Report([kind |-> "STATUS", of |-> s])
  <2>1. left.statuses \subseteq Nat
    BY DEF TypeOK, Bound
  <2> QED BY <2>1 DEF Answer
<1> DEFINE e == [kind |-> "STATUS", of |-> s]
<1>2. e \in [kind : Kind, of : Nat] /\ IsStatus(e) /\ Report(e)
  BY <1>1 DEF Kind, IsStatus
<1> HIDE DEF e
<1>3. OnLine' = OnLine + 1 /\ Len(rsp)' = Len(rsp)
  BY <1>2, ReportCount
<1>4. cmds # <<>> /\ cmds' = Tail(cmds) /\ UNCHANGED <<fwd, aside, lost>>
  BY DEF Answer
<1>5. Len(cmds)' = Len(cmds) - 1 /\ Len(cmds) \in Nat
  BY <1>4, TailType DEF TypeOK
<1>6. Len(cmds)' + OnLine' + Len(rsp)' = Len(cmds) + OnLine + Len(rsp)
  BY <1>3, <1>5, CountType
<1> QED BY <1>4, <1>6, AccountKept DEF StatusesToCome, OnLine

\* Central's reading concerns no status; what it writes in bond() nobody waits for.
LEMMA CentralAccount ==
    TypeOK /\ StatusesAccountedFor /\ CentralModeThread => StatusesAccountedFor'
<1> SUFFICES ASSUME TypeOK, StatusesAccountedFor, CentralModeThread PROVE StatusesAccountedFor'
  OBVIOUS
<1>1. CASE CentralReads
  BY <1>1, AccountKept DEF CentralReads, StatusesToCome
<1>2. CASE bond
  <2>0. /\ UNCHANGED <<line, rsp, fwd>>
        /\ WriteAside \/ UNCHANGED <<cmds, aside, lost, left>>
    BY <1>2 DEF bond, queues
  <2>1. /\ UNCHANGED <<line, rsp, fwd>> /\ lost' = lost
        /\ Len(cmds) \in Nat /\ Len(cmds') \in Nat /\ aside' \in Nat
        /\ Len(cmds') - aside' = Len(cmds) - aside
    <3>1. CASE WriteAside
      BY <2>0, <3>1, WriteType
    <3>2. CASE UNCHANGED <<cmds, aside, lost, left>>
      BY <2>0, <3>2, CountType
    <3> QED BY <2>0, <3>1, <3>2
  <2>2. OnLine' = OnLine /\ Awaited' = Awaited
    BY <2>1 DEF OnLine, Awaited
  <2>3. Len(cmds) + OnLine + Len(rsp) + lost = aside + Awaited
    BY DEF StatusesAccountedFor, StatusesToCome, OnLine
  <2>4. /\ Len(rsp) \in Nat /\ OnLine \in Nat /\ lost \in Nat /\ aside \in Nat
        /\ Awaited \in Nat /\ Len(rsp') = Len(rsp) /\ lost' = lost
    BY <2>1, CountType
  <2> HIDE DEF OnLine, Awaited
  <2>5. Len(cmds') + OnLine + Len(rsp) + lost = aside' + Awaited
    BY <2>1, <2>3, <2>4
  <2>6. Len(cmds') + OnLine' + Len(rsp') + lost' = aside' + Awaited'
    BY <2>2, <2>4, <2>5
  <2> QED BY <2>6 DEF StatusesAccountedFor, StatusesToCome, OnLine
<1> QED BY <1>1, <1>2 DEF CentralModeThread

\* The router passes a status on to WRITE_RSP, and other events elsewhere.
LEMMA RouteAccount == TypeOK /\ StatusesAccountedFor /\ RouteNext => StatusesAccountedFor'
<1> SUFFICES ASSUME TypeOK, StatusesAccountedFor, RouteNext PROVE StatusesAccountedFor'
  OBVIOUS
<1>1. line # <<>> /\ UNCHANGED <<cmds, fwd, aside, lost>>
  BY DEF RouteNext
<1>2. CASE line' = Tail(line) /\ Routed(Head(line))
  <2>1. OnLine = OnLine' + (IF IsStatus(Head(line)) THEN 1 ELSE 0)
    BY <1>1, <1>2, PlacesTail DEF TypeOK, OnLine
  <2>2. /\ IsStatus(Head(line)) => rsp' = Append(rsp, Head(line).of)
        /\ ~IsStatus(Head(line)) => rsp' = rsp
    BY <1>2 DEF Routed, IsStatus
  <2>3. IsStatus(Head(line)) => Len(rsp)' = Len(rsp) + 1
    <3>1. Head(line) \in [kind : Kind, of : Nat]
      BY <1>1, HeadType
    <3> QED BY <2>2, <3>1, AppendType DEF TypeOK
  <2>4. OnLine' \in Nat
    <3>1. Tail(line) \in Events
      BY <1>1, HeadType
    <3> QED BY <1>2, <3>1, PlacesFinite DEF OnLine, Events
  <2>5. Len(cmds)' + OnLine' + Len(rsp)' = Len(cmds) + OnLine + Len(rsp)
    <3>1. Len(cmds)' = Len(cmds) /\ Len(cmds) \in Nat /\ Len(rsp) \in Nat /\ OnLine \in Nat
      BY <1>1, CountType
    <3>2. CASE IsStatus(Head(line))
      <4>1. OnLine = OnLine' + 1 /\ Len(rsp)' = Len(rsp) + 1
        BY <2>1, <2>3, <3>2
      <4> QED BY <2>4, <3>1, <4>1
    <3>3. CASE ~IsStatus(Head(line))
      <4>1. rsp' = rsp
        BY <2>2, <3>3
      <4>2. OnLine = OnLine' + 0
        BY <2>1, <3>3
      <4>3. Len(rsp)' = Len(rsp)
        BY <4>1
      <4> QED BY <2>4, <3>1, <4>2, <4>3
    <3> QED BY <3>2, <3>3
  <2> QED BY <1>1, <2>5, AccountKept DEF StatusesToCome, OnLine
<1>3. CASE /\ Head(line).kind = "FAILED" /\ line' = [line EXCEPT ![1].kind = "RECOUNT"]
           /\ UNCHANGED rsp
  <2> DEFINE e == [Head(line) EXCEPT !.kind = "RECOUNT"]
  <2>1. /\ Head(line) \in [kind : Kind, of : Nat] /\ Head(line) = line[1] /\ 1 \in 1..Len(line)
        /\ line \in Events
    BY <1>1, HeadType DEF TypeOK, Events
  <2>2. e \in [kind : Kind, of : Nat] /\ ~IsStatus(e) /\ ~IsStatus(line[1])
    BY <1>3, <2>1 DEF Kind, IsStatus
  <2>3. line' = [line EXCEPT ![1] = e]
    BY <1>3, <2>1
  <2> HIDE DEF e
  <2>4. /\ Len(line') = Len(line)
        /\ \A j \in 1..Len(line) : line'[j] = IF j = 1 THEN e ELSE line[j]
    BY <2>1, <2>2, <2>3, ExceptSeq DEF Events
  <2>5. Places(line') = Places(line)
    BY <2>2, <2>4 DEF Places
  <2> QED BY <1>1, <1>3, <2>5, AccountKept DEF StatusesToCome
<1> QED BY <1>2, <1>3 DEF RouteNext

\* The forwarding thread writes, and waits for, one notification at a time; what it
\* sends back it does not wait for.
LEMMA ForwarderAccount ==
    TypeOK /\ StatusesAccountedFor /\ Forward_MSG_Queue_Thread => StatusesAccountedFor'
<1> SUFFICES ASSUME TypeOK, StatusesAccountedFor, Forward_MSG_Queue_Thread
             PROVE  StatusesAccountedFor'
  OBVIOUS
<1>0. fwd \in Fwd /\ OnLine' = OnLine
  BY DEF TypeOK, Fwd, OnLine, Forward_MSG_Queue_Thread, Take, Notify_back, GATT_WRITE_VALUE, Loop,
         Notify_data, Await, Forwarding
<1>1. /\ Len(cmds) \in Nat /\ OnLine \in Nat /\ Len(rsp) \in Nat /\ aside \in Nat /\ lost \in Nat
      /\ Len(cmds) + OnLine + Len(rsp) + lost = aside + Awaited
  BY CountType DEF StatusesAccountedFor, StatusesToCome, OnLine
<1>2. ASSUME Len(cmds') + OnLine + Len(rsp') + lost' = aside' + Awaited' PROVE StatusesAccountedFor'
  BY <1>0, <1>2 DEF StatusesAccountedFor, StatusesToCome, OnLine
<1> HIDE DEF OnLine
<1>3. CASE Take \/ Loop
  <2>1. UNCHANGED <<cmds, rsp, aside, lost>>
    BY <1>3 DEF Take, Loop
  <2>2. fwd.at \in {"RECV", "LOOP"}
    BY <1>3 DEF Take, Loop
  <2>3. fwd'.at \in {"RECV", "LOOP", "SEND", "NOTIFY"}
    <3>1. CASE Take
      BY <1>0, <3>1 DEF Take
    <3>2. CASE Loop
      <4>1. /\ [fwd EXCEPT !.at = "RECV"].at = "RECV"
            /\ [fwd EXCEPT !.at = "SEND", !.retry = 0].at = "SEND"
            /\ Onward(fwd.idz).at = "LOOP"
        BY <1>0 DEF Onward, Fwd
      <4> QED BY <3>2, <4>1 DEF Loop
    <3> QED BY <1>3, <3>1, <3>2
  <2>4. Awaited = 0 /\ Awaited' = 0
    BY <2>2, <2>3 DEF Awaited
  <2> QED BY <1>1, <1>2, <2>1, <2>4
<1>4. CASE Notify_back \/ GATT_WRITE_VALUE
  <2>1. /\ lost' = lost /\ Len(cmds') \in Nat /\ aside' \in Nat
        /\ Len(cmds') - aside' = Len(cmds) - aside
    BY <1>4, WriteType DEF Notify_back, GATT_WRITE_VALUE
  <2>2. fwd.at \in {"NOTIFY", "WRITE"} /\ fwd'.at \in {"WRITE", "LOOP", "RECV"} /\ rsp' = rsp
    BY <1>0, <1>4 DEF Notify_back, GATT_WRITE_VALUE, Fwd
  <2>3. Awaited = 0 /\ Awaited' = 0
    BY <2>2 DEF Awaited
  <2> QED BY <1>1, <1>2, <2>1, <2>2, <2>3
<1>5. CASE Notify_data
  <2>1. Len(cmds') \in Nat /\ lost' \in Nat /\ Len(cmds') + lost' = Len(cmds) + lost + 1
    BY <1>5, NotifyType
  <2>2. fwd.at = "SEND" /\ fwd'.at = "WAIT" /\ UNCHANGED <<rsp, aside>>
    BY <1>0, <1>5 DEF Notify_data, Fwd
  <2>3. Awaited = 0 /\ Awaited' = 1
    BY <2>2 DEF Awaited
  <2> QED BY <1>1, <1>2, <2>1, <2>2, <2>3
<1>6. CASE Await
  <2>1. Len(rsp') = Len(rsp) - 1
    BY <1>6, RestType DEF Await, TypeOK
  <2>2. fwd.at = "WAIT" /\ UNCHANGED <<cmds, aside, lost>>
    BY <1>6 DEF Await
  <2>3. fwd'.at \in {"SEND", "RECV", "LOOP"}
    BY <1>0, <1>6 DEF Await, Onward, Fwd
  <2>4. Awaited = 1 /\ Awaited' = 0
    BY <2>2, <2>3 DEF Awaited
  <2> QED BY <1>1, <1>2, <2>1, <2>2, <2>4
<1> QED BY <1>3, <1>4, <1>5, <1>6 DEF Forward_MSG_Queue_Thread

\* After a restart nobody waits for what is in WRITE_RSP and before the dongle.
LEMMA RestartAccount == TypeOK /\ TypeOK' /\ Restart => StatusesAccountedFor'
<1> SUFFICES ASSUME TypeOK, TypeOK', Restart PROVE StatusesAccountedFor'
  OBVIOUS
<1>1. line' = <<>> /\ lost' = 0 /\ rsp' = rsp /\ aside' = Len(rsp) + Len(cmds')
  BY DEF Restart
<1>2. Awaited' = 0
  <2>1. fwd'.at = "RECV"
    BY DEF Restart, Idle
  <2> QED BY <2>1 DEF Awaited
<1>3. OnLine' = 0
  <2>1. (line = <<>> => OnLine = 0)'
    BY EmptyLine, PTL
  <2> QED BY <1>1, <2>1
<1>4. Len(rsp) \in Nat /\ Len(cmds') \in Nat
  BY LenProperties DEF TypeOK
<1>5. Len(cmds') + OnLine' + Len(rsp') + lost' = aside' + Awaited'
  BY <1>1, <1>2, <1>3, <1>4
<1> QED BY <1>5 DEF StatusesAccountedFor, StatusesToCome, OnLine

LEMMA AccountNext ==
    TypeOK /\ TypeOK' /\ StatusesAccountedFor /\ [Next]_vars => StatusesAccountedFor'
<1>1. StatusesAccountedFor /\ (pipe_0000_Thread \/ UNCHANGED vars) => StatusesAccountedFor'
  <2>1. ASSUME UNCHANGED <<line, cmds, rsp, fwd, aside, lost>>, StatusesAccountedFor
        PROVE  StatusesAccountedFor'
    BY <2>1 DEF StatusesAccountedFor, StatusesToCome, Awaited
  <2> QED BY <2>1 DEF pipe_0000_Thread, vars
<1> QED BY <1>1, EnvironmentAccount, AnswerAccount, CentralAccount, RouteAccount,
           ForwarderAccount, RestartAccount DEF Next

\* So types and account hold at every state.
LEMMA AccountInvariant == Spec => [](TypeOK /\ StatusesAccountedFor)
BY TypeInit, TypeNext, AccountInit, AccountNext, PTL DEF Spec

\* WRITE_RSP holds, and will be sent, exactly the status of the notification that
\* Forward_MSG_Queue_Thread waits for and those of the writes nobody waits for (bond()'s,
\* a peer's write sent back, an earlier run's), less one for each notification lost.
THEOREM StatusesExact == Spec => []StatusesAccountedFor
BY AccountInvariant, PTL

\* So the status Await reads is that of the notification just sent, as long as nothing
\* was written that nobody waits for and no notification was lost: it is the only one.
THEOREM StatusIsItsOwn ==
    Spec => [](aside = 0 /\ lost = 0 /\ rsp # <<>>
               => fwd.at = "WAIT" /\ Len(rsp) = 1 /\ cmds = <<>>)
<1>1. ASSUME TypeOK, StatusesAccountedFor, aside = 0, lost = 0, rsp # <<>>
      PROVE  fwd.at = "WAIT" /\ Len(rsp) = 1 /\ cmds = <<>>
  <2>1. /\ Len(cmds) \in Nat /\ OnLine \in Nat /\ Len(rsp) \in Nat
        /\ Len(cmds) + OnLine + Len(rsp) = Awaited
    BY <1>1, CountType DEF StatusesAccountedFor, StatusesToCome, OnLine
  <2>2. Len(rsp) >= 1
    BY <1>1, TailType DEF TypeOK
  <2> Awaited \in {0, 1}
    BY DEF Awaited
  <2>3. Awaited = 1 /\ Len(rsp) = 1 /\ Len(cmds) = 0
    BY <2>1, <2>2
  <2>4. cmds = <<>>
    BY <1>1, <2>3, EmptySeq DEF TypeOK
  <2> QED BY <2>3, <2>4 DEF Awaited
<1>2. TypeOK /\ StatusesAccountedFor =>
          (aside = 0 /\ lost = 0 /\ rsp # <<>> => fwd.at = "WAIT" /\ Len(rsp) = 1 /\ cmds = <<>>)
  BY <1>1
<1> QED BY <1>2, AccountInvariant, PTL

-----------------------------------------------------------------------------
(* Everyone waits *)

\* No command is before the dongle, and no thread can go on: Central has nothing to
\* read or is in bond(), the router has nothing to read or no room for it,
\* pipe_0000_Thread nothing to pass on or no room, and the forwarding thread no
\* message or no status.
AllWait ==
    /\ cmds = <<>> /\ (comq = <<>> \/ central # "READS")
    /\ (line = <<>> \/ Held) /\ (pipe0 = <<>> \/ ~Room(fwdq))
    /\ (fwd.at = "RECV" /\ fwdq = <<>>) \/ (fwd.at = "WAIT" /\ rsp = <<>>)
AllDone == line = <<>> /\ pipe0 = <<>> /\ fwdq = <<>> /\ fwd.at = "RECV"

\* Whatever was sent, answered, lost, or left behind by an earlier run: when everyone
\* waits, everything is done; or the router waits for a queue nobody reads, or in the
\* circle of RouterHeldOnlyBy; or it waits with a status, after more than QCap writes
\* nobody waits for; or the forwarding thread waits though more notifications were lost
\* than there were such writes.  There is no other deadlock.
THEOREM NoOtherDeadlock ==
    Spec => [](AllWait => \/ AllDone
                          \/ NotRead
                          \/ Circle
                          \/ Starved /\ aside > QCap
                          \/ fwd.at = "WAIT" /\ lost > aside)
<1> DEFINE Only == \/ AllDone
                   \/ NotRead
                   \/ Circle
                   \/ Starved /\ aside > QCap
                   \/ fwd.at = "WAIT" /\ lost > aside
<1>1. ASSUME TypeOK, StatusesAccountedFor, AllWait PROVE Only
  <2>0. /\ Len(cmds) = 0 /\ OnLine \in Nat /\ Len(rsp) \in Nat /\ aside \in Nat /\ lost \in Nat
        /\ QCap \in Nat /\ QCap >= 1 /\ Awaited \in {0, 1}
        /\ OnLine + Len(rsp) + lost = aside + Awaited
    BY <1>1, CountType, Constants DEF AllWait, StatusesAccountedFor, StatusesToCome, OnLine
  <2>1. ASSUME NEW s \in {rsp, comq, fwdq}, s = <<>> PROVE Room(s)
    BY <2>0, <2>1 DEF Room
  <2>2. HeldByCentral => NotRead
    <3>1. HeldByCentral => comq # <<>>
      BY <2>1 DEF HeldByCentral, Waits
    <3> QED BY <1>1, <3>1 DEF AllWait, NotRead
  <2>3. HeldByPing => NotRead
    BY DEF NotRead
  <2>4. CASE fwd.at = "RECV" /\ fwdq = <<>>
    <3>1. pipe0 = <<>> /\ (line = <<>> \/ Held)
      BY <1>1, <2>1, <2>4 DEF AllWait
    <3>2. ~HeldByPeer
      BY <2>0, <3>1 DEF HeldByPeer, Waits, Room
    <3>3. ASSUME HeldByStatus PROVE Starved /\ aside > QCap
      <4>1. line # <<>> /\ IsStatus(Head(line)) /\ ~Room(rsp)
        BY <3>3 DEF HeldByStatus, Waits, IsStatus
      <4>2. OnLine >= 1
        <5>1. Cardinality(Places(line)) = Cardinality(Places(Tail(line))) + 1
          BY <1>1, <4>1, PlacesTail DEF TypeOK
        <5>2. Tail(line) \in Events
          BY <1>1, <4>1, HeadType
        <5>3. Cardinality(Places(Tail(line))) \in Nat
          BY <5>2, PlacesFinite DEF Events
        <5> QED BY <5>1, <5>3 DEF OnLine
      <4>3. Len(rsp) >= QCap /\ Awaited = 0
        BY <2>0, <2>4, <4>1 DEF Room, Awaited
      <4>4. aside > QCap
        BY <2>0, <4>2, <4>3
      <4> QED BY <2>4, <3>1, <3>3, <4>4 DEF Starved
    <3>4. CASE line = <<>>
      BY <2>4, <3>1, <3>4 DEF AllDone
    <3>5. CASE Held
      BY <2>2, <2>3, <3>2, <3>3, <3>5 DEF Held
    <3> QED BY <3>1, <3>4, <3>5
  <2>5. CASE fwd.at = "WAIT" /\ rsp = <<>>
    <3>1. Awaited = 1 /\ Len(rsp) = 0
      BY <2>5 DEF Awaited
    <3>2. CASE line = <<>>
      <4>1. OnLine = 0
        BY <3>2, EmptyLine
      <4>2. lost > aside
        BY <2>0, <3>1, <4>1
      <4> QED BY <2>5, <4>2
    <3>3. CASE Held
      <4>1. ~HeldByStatus
        BY <2>1, <2>5 DEF HeldByStatus, Waits
      <4>2. ASSUME HeldByPeer PROVE Circle
        <5>1. pipe0 # <<>>
          BY <2>0, <4>2 DEF HeldByPeer, Waits, Room
        <5> QED BY <1>1, <2>5, <4>2, <5>1 DEF AllWait, Circle
      <4> QED BY <2>2, <2>3, <3>3, <4>1, <4>2 DEF Held
    <3> QED BY <1>1, <3>2, <3>3 DEF AllWait
  <2> QED BY <1>1, <2>4, <2>5 DEF AllWait
<1>2. TypeOK /\ StatusesAccountedFor => (AllWait => Only)
  BY <1>1
<1> QED BY <1>2, AccountInvariant, PTL
=============================================================================
