-------------------------- MODULE ClientStartProofs ---------------------------
(***************************************************************************)
(* Theorems about mosquitto_pub and mosquitto_sub around their loops, for  *)
(* every way of calling them, any file or input, any length of the blocks  *)
(* read and every bound: the configuration is what was declared, in        *)
(* whatever order; the library is told all of it and used as it asks to    *)
(* be, whatever fails; and no message is sent that was not loaded whole.   *)
(***************************************************************************)
EXTENDS ClientStart, TLAPS, FiniteSetTheorems, SequenceTheorems, WellFoundedInduction

\* The places of the program, by what the library and the client then are.
Configuring == {"FILE", "ARGV"}
Loading     == {"LOAD_STDIN", "FOPEN", "FREAD"}
Before      == Configuring \cup Loading \cup {"ACCEPTED", "REFUSED", "NEEDS", "LIB_INIT"}
Order ==
    /\ pc \in Before => lib = "down" /\ mosq = "none"
    /\ pc \in {"ID", "NEW"} => lib = "up" /\ mosq = "none"
    /\ pc \in {"OPTS", "CONNECT"} => lib = "up" /\ mosq = "made"
    /\ pc = "LOOP" => lib = "up" /\ mosq = "connected"
    /\ pc = "CLEANUP" => lib = "up" /\ mosq = "destroyed"

\* Reading the configuration goes on, ends, or is refused.
LEMMA OptionMoves ==
    client_config_line_proc =>
        /\ UNCHANGED <<job, lines>> /\ pc \in Configuring
        /\ \/ pc' = pc /\ rc' = rc
           \/ pc' = "REFUSED" /\ rc' \in {1, 2} /\ cfg' = cfg
BY DEF client_config_line_proc, TextOption, NumberOption, FlagOption, SourceOption,
       SourceTextOption, IdOption, TopicOption, FilterOption, WillTopicOption, VersionOption,
       ProxyOption, HelpOption, BadOption, Take, Refuse, Configuring

\* A step that reads the configuration leaves everything else alone.
LEMMA ConfigureMoves ==
    Configure =>
        /\ UNCHANGED <<job, startVars>> /\ pc \in Configuring
        /\ pc' \in Configuring \cup {"ACCEPTED", "REFUSED"}
        /\ rc' \in {rc, 1, 2}
<1>1. NextLine \/ CommandLine \/ NextArgument \/ Checks =>
        /\ job' = job /\ pc \in Configuring
        /\ pc' \in Configuring \cup {"ACCEPTED", "REFUSED"} /\ rc' \in {rc, 1, 2}
  BY DEF NextLine, CommandLine, NextArgument, Checks, Refuse, Configuring
<1> QED BY <1>1, OptionMoves DEF Configure, client_config_load, Configuring

-----------------------------------------------------------------------------
(* The library *)

\* Each step keeps the order and is a step of LibraryUse, or none.
LEMMA LibraryStep ==
    ASSUME pc \in Places, Order, Next
    PROVE  /\ pc' \in Places /\ Order'
           /\ [Library!Next]_(Library!vars)
<1> USE DEF GoTo, Exit, GiveUp, Order, Before, Places, Configuring, Loading
<1>1. CASE Configure
  <2>1. /\ lib' = lib /\ mosq' = mosq /\ pc \in Configuring
        /\ pc' \in Configuring \cup {"ACCEPTED", "REFUSED"}
    BY <1>1, ConfigureMoves DEF startVars, libVars
  <2> QED BY <2>1 DEF Library!vars
<1>2. CASE client_config_cleanup
  BY <1>2 DEF client_config_cleanup, NoMemory, startVars, libVars, Library!Next, Library!End
<1>3. CASE Accepted
  BY <1>3 DEF Accepted, startVars, libVars, Library!vars
<1>4. CASE load_stdin
  <2>1. /\ pc = "LOAD_STDIN" /\ pc' \in {"LOAD_STDIN", "NEEDS", "DONE", "CRASHED"}
        /\ UNCHANGED libVars
    BY <1>4 DEF load_stdin, configVars
  <2> QED BY <2>1 DEF libVars, Library!vars, Library!Next, Library!End
<1>5. CASE load_file
  BY <1>5 DEF load_file, libVars, Library!vars, Library!Next, Library!End
<1>6. CASE ReadFile
  BY <1>6 DEF ReadFile, configVars, libVars, Library!vars
<1>7. CASE Needs
  BY <1>7 DEF Needs, startVars, libVars, Library!vars, Library!Next, Library!End
<1>8. CASE lib_init
  BY <1>8 DEF lib_init, Library!vars, Library!Next, Library!LibInit
<1>9. CASE client_id_generate
  BY <1>9 DEF client_id_generate, startVars, libVars, Library!vars, Library!Next,
              Library!Cleanup
<1>10. CASE mosquitto_new
  BY <1>10 DEF mosquitto_new, Library!Next, Library!Make, Library!Cleanup
<1>11. CASE client_opts_set
  <2>1. /\ pc = "OPTS" /\ mosq' = mosq
        /\ \/ pc' \in {"OPTS", "CONNECT"} /\ lib' = lib
           \/ pc' = "DONE" /\ lib' = "released"
    BY <1>11 DEF client_opts_set, configVars
  <2> QED BY <2>1 DEF Library!vars, Library!Next, Library!Cleanup
<1>12. CASE client_connect
  <2>1. /\ pc = "CONNECT"
        /\ \/ pc' = "LOOP" /\ mosq' = "connected" /\ lib' = lib
           \/ pc' = "DONE" /\ mosq' = mosq /\ lib' = "released"
    BY <1>12 DEF client_connect, ConnectFails
  <2> QED BY <2>1 DEF Library!Next, Library!Connect, Library!Cleanup
<1>13. CASE LoopEnds
  BY <1>13 DEF LoopEnds, startVars, libVars, Library!Next, Library!Destroy, Library!Abandon
<1>14. CASE lib_cleanup
  BY <1>14 DEF lib_cleanup, Library!Next, Library!Cleanup
<1>15. CASE FileChanges
  BY <1>15 DEF FileChanges, configVars, libVars, Library!vars
<1> QED BY <1>1, <1>2, <1>3, <1>4, <1>5, <1>6, <1>7, <1>8, <1>9, <1>10, <1>11, <1>12, <1>13,
           <1>14, <1>15 DEF Next, Main

InOrder == pc \in Places /\ Order

\* The library and the client are where the program is.
LEMMA OrderInvariant == Spec => []InOrder
<1>1. Init => InOrder
  BY DEF Init, ConfigInit, InOrder, Places, Order, Before, Configuring, Loading
<1>2. InOrder /\ UNCHANGED vars => InOrder'
  BY DEF vars, configVars, startVars, libVars, InOrder, Order
<1>3. InOrder /\ [Next]_vars => InOrder'
  BY <1>2, LibraryStep DEF InOrder
<1> QED BY <1>1, <1>3, PTL DEF Spec

\* Whatever fails in main(), the library is initialised once and first, cleaned up
\* once and last, and the client made, connected and destroyed in between; only a
\* process that leaves its loop in the middle ends without that.
THEOREM LibraryUsed == Spec => UsesLibrary
<1>1. Init => Library!Init
  BY DEF Init, ConfigInit, Library!Init
<1>2. UNCHANGED vars => UNCHANGED (Library!vars)
  BY DEF vars, configVars, startVars, libVars, Library!vars
<1>3. InOrder /\ [Next]_vars => [Library!Next]_(Library!vars)
  BY <1>2, LibraryStep DEF InOrder
<1> QED BY <1>1, <1>3, OrderInvariant, PTL DEF Spec, UsesLibrary, Library!Spec

-----------------------------------------------------------------------------
(* The message *)

\* What mosquitto_pub sends from a file or from stdin has been loaded whole.
Whole ==
    Pub /\ cfg.pub_mode \in {"FILE", "STDIN_FILE"} =>
    /\ pos = msglen /\ msglen > 0
    /\ cfg.pub_mode = "FILE" => msglen <= MaxLength
    /\ cfg.pub_mode = "STDIN_FILE" => msglen = job.input.length /\ ~job.input.fails

\* The input is that of the job until load_file() has opened it; stdin is read up to
\* pos; and from the checks on the whole to the end, the message is there.
Loads ==
    /\ job \in Jobs /\ "pub_mode" \in DOMAIN cfg
    /\ pc \in Configuring \cup {"ACCEPTED", "LOAD_STDIN", "FOPEN"} =>
           input = job.input /\ lib = "down"
    /\ pc \in Configuring \cup {"ACCEPTED"} => pos = 0
    /\ pc = "LOAD_STDIN" => Pub /\ cfg.pub_mode = "STDIN_FILE" /\ pos \in 0..input.length
    /\ pc = "FOPEN" => Pub /\ cfg.pub_mode = "FILE"
    /\ pc = "FREAD" => Pub /\ cfg.pub_mode = "FILE" /\ LengthOk(msglen) /\ lib = "down"
    /\ pc \in {"REFUSED"} => lib = "down"
    /\ pc \in {"NEEDS", "LIB_INIT"} \/ lib # "down" => Whole

\* No option adds or removes a field.
LEMMA ConfigureKeeps == Configure => DOMAIN cfg' = DOMAIN cfg
BY DEF Configure, client_config_load, NextLine, CommandLine, NextArgument, Checks, Refuse,
       client_config_line_proc, TextOption, NumberOption, FlagOption, SourceOption,
       SourceTextOption, IdOption, TopicOption, FilterOption, WillTopicOption, VersionOption,
       ProxyOption, HelpOption, BadOption, Take

\* One turn of load_stdin() reads no further than there is, and the last one to
\* the end.
LEMMA StdinTurn ==
    ASSUME NEW length \in Nat, NEW p \in 0..length
    PROVE  LET rlen == Least(Block, length - p)
           IN  /\ p + rlen \in 0..length
               /\ rlen < Block => p + rlen = length
BY StartAssumption DEF Least

\* Every action keeps what is known of the message.
LEMMA LoadsStep ==
    ASSUME InOrder, Loads, Next
    PROVE  Loads'
<1> USE DEF GoTo, Exit, Pub
<1>0. /\ job \in Jobs /\ "pub_mode" \in DOMAIN cfg /\ job.input.length \in Nat
      /\ job' = job
  <2>1. job \in Jobs /\ "pub_mode" \in DOMAIN cfg
    BY DEF Loads
  <2>2. job.input.length \in Nat
    BY <2>1, StartAssumption
  <2>3. job' = job
    <3>1. Configure => job' = job
      BY ConfigureMoves
    <3> QED BY <3>1 DEF Next, Main, client_config_cleanup, Accepted, load_stdin, load_file,
               ReadFile, Needs, lib_init, client_id_generate, mosquitto_new, client_opts_set,
               client_connect, ConnectFails, LoopEnds, lib_cleanup, FileChanges, GiveUp,
               configVars
  <2> QED BY <2>1, <2>2, <2>3
<1>1. CASE Configure
  <2>1. /\ UNCHANGED startVars /\ pc \in Configuring
        /\ pc' \in Configuring \cup {"ACCEPTED", "REFUSED"}
        /\ DOMAIN cfg' = DOMAIN cfg
    BY <1>1, ConfigureMoves, ConfigureKeeps
  <2>2. UNCHANGED <<input, pos, lib>>
    BY <2>1 DEF startVars, loadVars, libVars
  <2> QED BY <1>0, <2>1, <2>2 DEF Loads, Configuring
<1>2. CASE client_config_cleanup \/ Needs \/ Accepted
  <2>1. UNCHANGED <<cfg, input, pos, msglen, lib>>
    BY <1>2 DEF client_config_cleanup, Needs, Accepted, startVars, loadVars, libVars
  <2>2. Whole => Whole'
    BY <1>0, <2>1 DEF Whole
  <2>3. CASE client_config_cleanup \/ Needs
    BY <1>0, <2>1, <2>2, <2>3 DEF client_config_cleanup, Needs, Loads, Configuring
  <2>4. CASE Accepted
    <3>1. /\ pc = "ACCEPTED" /\ input = job.input /\ lib = "down" /\ pos = 0
          /\ 0 \in 0..input.length
      BY <1>0, <2>4 DEF Accepted, Loads
    <3>2. \/ ~Pub /\ pc' = "LIB_INIT"
          \/ Pub /\ cfg.pub_mode = "STDIN_FILE" /\ pc' = "LOAD_STDIN"
          \/ Pub /\ cfg.pub_mode = "FILE" /\ pc' = "FOPEN"
          \/ cfg.pub_mode \notin {"FILE", "STDIN_FILE"} /\ pc' = "NEEDS"
      <4>1. \/ ~Pub \/ cfg.pub_mode = "STDIN_FILE" \/ cfg.pub_mode = "FILE"
            \/ cfg.pub_mode \notin {"FILE", "STDIN_FILE"}
        OBVIOUS
      <4>2. CASE ~Pub
        BY <2>4, <4>2 DEF Accepted
      <4>3. CASE Pub /\ cfg.pub_mode = "STDIN_FILE"
        BY <2>4, <4>3 DEF Accepted
      <4>4. CASE Pub /\ cfg.pub_mode = "FILE"
        BY <2>4, <4>4 DEF Accepted
      <4>5. CASE Pub /\ cfg.pub_mode \notin {"FILE", "STDIN_FILE"}
        BY <2>4, <4>5 DEF Accepted
      <4> QED BY <4>1, <4>2, <4>3, <4>4, <4>5
    <3>3. pc' \in {"LIB_INIT", "NEEDS"} => Whole'
      BY <1>0, <2>1, <3>2 DEF Whole
    <3> QED BY <1>0, <2>1, <3>1, <3>2, <3>3 DEF Loads, Configuring
  <2> QED BY <1>2, <2>3, <2>4
<1>3. CASE load_stdin
  <2> DEFINE rlen == Least(Block, input.length - pos)
  <2>1. /\ pc = "LOAD_STDIN" /\ input = job.input /\ lib = "down" /\ Pub
        /\ cfg.pub_mode = "STDIN_FILE" /\ pos \in 0..input.length
    BY <1>3 DEF load_stdin, Loads
  <2>2. UNCHANGED <<cfg, input, lib>>
    BY <1>3 DEF load_stdin, configVars, libVars
  <2>3. pos + rlen \in 0..input.length /\ (rlen < Block => pos + rlen = input.length)
    BY <1>0, <2>1, StdinTurn
  <2>4. \/ pc' \in {"CRASHED", "DONE"}
        \/ pos' = pos + rlen /\ pc' = "LOAD_STDIN"
        \/ /\ rlen < Block /\ ~input.fails /\ pos' = pos + rlen /\ msglen' = pos'
           /\ pos' # 0 /\ pc' = "NEEDS"
    BY <1>3, <2>1 DEF load_stdin, configVars
  <2> HIDE DEF rlen
  <2>5. pc' = "NEEDS" => Whole'
    BY <1>0, <2>1, <2>2, <2>3, <2>4 DEF Whole
  <2>6. pc' = "LOAD_STDIN" => pos' \in 0..input'.length
    BY <2>2, <2>3, <2>4
  <2>7. pc' \in {"CRASHED", "DONE", "LOAD_STDIN", "NEEDS"}
    BY <2>4
  <2> QED BY <1>0, <2>1, <2>2, <2>5, <2>6, <2>7 DEF Loads, Configuring
<1>4. CASE load_file
  <2>1. /\ pc = "FOPEN" /\ lib = "down" /\ Pub /\ cfg.pub_mode = "FILE"
        /\ UNCHANGED <<cfg, lib>>
    BY <1>4 DEF load_file, Loads, libVars
  <2>2. (pc' = "FREAD" /\ LengthOk(msglen')) \/ pc' = "DONE"
    BY <1>4 DEF load_file
  <2> QED BY <1>0, <2>1, <2>2 DEF Loads, Configuring
<1>5. CASE ReadFile
  <2>1. /\ pc = "FREAD" /\ lib = "down" /\ Pub /\ cfg.pub_mode = "FILE" /\ LengthOk(msglen)
        /\ UNCHANGED <<cfg, lib, msglen>>
    BY <1>5 DEF ReadFile, Loads, libVars, configVars
  <2>2. (pc' = "NEEDS" /\ pos' = msglen) \/ pc' = "FREAD"
    BY <1>5 DEF ReadFile, FileLoaded, configVars
  <2>3. pc' = "NEEDS" => Whole'
    BY <1>0, <2>1, <2>2 DEF Whole, LengthOk
  <2> QED BY <1>0, <2>1, <2>2, <2>3 DEF Loads, Configuring
<1>6. CASE FileChanges
  <2>1. pc = "FREAD" /\ pc' = "FREAD" /\ UNCHANGED <<cfg, lib, msglen>>
    BY <1>6 DEF FileChanges, configVars, libVars
  <2> QED BY <1>0, <2>1 DEF Loads, Configuring
<1>7. CASE \/ lib_init \/ client_id_generate \/ mosquitto_new \/ client_opts_set
           \/ client_connect \/ LoopEnds \/ lib_cleanup
  <2>1. Whole
    <3>1. pc = "LIB_INIT" \/ lib # "down"
      BY <1>7 DEF lib_init, client_id_generate, mosquitto_new, client_opts_set,
                  client_connect, LoopEnds, lib_cleanup, InOrder, Order
    <3> QED BY <3>1 DEF Loads
  <2>2. /\ pc' \in {"ID", "NEW", "OPTS", "CONNECT", "LOOP", "CLEANUP", "DONE"}
        /\ UNCHANGED <<pos, msglen>>
    BY <1>7 DEF lib_init, client_id_generate, mosquitto_new, client_opts_set, client_connect,
                ConnectFails, LoopEnds, lib_cleanup, GiveUp, startVars, loadVars, configVars
  <2>3. cfg'.pub_mode = cfg.pub_mode /\ DOMAIN cfg' = DOMAIN cfg
    BY <1>0, <1>7 DEF lib_init, client_id_generate, mosquitto_new, client_opts_set,
                client_connect, ConnectFails, LoopEnds, lib_cleanup, GiveUp, configVars
  <2>4. Whole'
    BY <1>0, <2>1, <2>2, <2>3 DEF Whole
  <2> QED BY <1>0, <2>2, <2>3, <2>4 DEF Loads, Configuring
<1> QED BY <1>1, <1>2, <1>3, <1>4, <1>5, <1>6, <1>7 DEF Next, Main

\* A message from a file is sent only when as many bytes as the file had when it was
\* opened have been read, however it changes meanwhile, and one from stdin only when
\* all of it has been; neither is empty, and that of a file is not too long.
THEOREM MessageLoadedWhole == Spec => []LoadedWhole
<1>1. Init => Loads
  BY DEF Init, ConfigInit, init_config, Defaults, Loads, Configuring
<1>2. Loads /\ UNCHANGED vars => Loads'
  BY DEF vars, configVars, startVars, loadVars, libVars, Loads, Whole, Pub
<1>3. InOrder /\ Loads /\ [Next]_vars => Loads'
  BY <1>2, LoadsStep
<1>4. Loads => LoadedWhole
  BY DEF Loads, Whole, LoadedWhole
<1> QED BY <1>1, <1>3, <1>4, OrderInvariant, PTL DEF Spec

-----------------------------------------------------------------------------
(* Options and the fields they set *)

\* What a table holds for an option is in one of its pairs.
LEMMA PairOf ==
    ASSUME NEW pairs, NEW x \in DOMAIN FunctionOf(pairs)
    PROVE  \E p \in pairs : p[1] = x /\ FunctionOf(pairs)[x] = p[2]
<1>1. \E p \in pairs : p[1] = x
  BY DEF FunctionOf
<1>2. FunctionOf(pairs)[x] = (CHOOSE p \in pairs : p[1] = x)[2]
  BY DEF FunctionOf
<1> QED BY <1>1, <1>2

\* A table has the options of its pairs.
LEMMA DomainOf ==
    ASSUME NEW pairs, NEW p \in pairs
    PROVE  p[1] \in DOMAIN FunctionOf(pairs)
BY DEF FunctionOf

\* The tables of options, as pairs and by their domains.
LEMMA TextPairs == \A o \in DOMAIN Text : <<o, Text[o]>> \in TextOptions
<1> SUFFICES ASSUME NEW o \in DOMAIN Text PROVE <<o, Text[o]>> \in TextOptions
  OBVIOUS
<1>1. PICK p \in TextOptions : p[1] = o /\ Text[o] = p[2]
  BY PairOf DEF Text
<1> QED BY <1>1 DEF TextOptions

\* The same for numbers, and for flags.
LEMMA NumericPairs == \A o \in DOMAIN Numeric : <<o, Numeric[o]>> \in NumericOptions
<1> SUFFICES ASSUME NEW o \in DOMAIN Numeric PROVE <<o, Numeric[o]>> \in NumericOptions
  OBVIOUS
<1>1. PICK p \in NumericOptions : p[1] = o /\ Numeric[o] = p[2]
  BY PairOf DEF Numeric
<1> QED BY <1>1 DEF NumericOptions

\* Every flag and its field are one of the pairs.
LEMMA FlagPairs == \A o \in DOMAIN Flag : <<o, Flag[o]>> \in FlagOptions
<1> SUFFICES ASSUME NEW o \in DOMAIN Flag PROVE <<o, Flag[o]>> \in FlagOptions
  OBVIOUS
<1>1. PICK p \in FlagOptions : p[1] = o /\ Flag[o] = p[2]
  BY PairOf DEF Flag
<1> QED BY <1>1 DEF FlagOptions

\* The options of each table.
LEMMA TextDomain ==
  DOMAIN Text = {"-A", "--cafile", "--capath", "--cert", "--ciphers", "-h", "--key", "--psk",
                 "--psk-identity", "--tls-version", "-u", "-P", "--will-payload"}
BY DEF Text, FunctionOf, TextOptions

\* The options that take a number.
LEMMA NumericDomain == DOMAIN Numeric = {"-p", "-k", "-q", "--will-qos", "-C", "-M"}
BY DEF Numeric, FunctionOf, NumericOptions

\* The options that are flags.
LEMMA FlagDomain ==
  DOMAIN Flag = {"-d", "--insecure", "--quiet", "-r", "-S", "--will-retain", "-c", "-N", "-R", "-v"}
BY DEF Flag, FunctionOf, FlagOptions

\* Where the message comes from.
LEMMA SourceFacts ==
    /\ DOMAIN Source = {"-l", "-n", "-s"} /\ DOMAIN SourceText = {"-m", "-f"}
    /\ \A o \in DOMAIN Source : Source[o] \in {"STDIN_LINE", "NULL", "STDIN_FILE"}
    /\ \A o \in DOMAIN SourceText :
          SourceText[o] \in { <<"CMD", "message">>, <<"FILE", "file_input">> }
<1> DEFINE A == {<<"-l", "STDIN_LINE">>, <<"-n", "NULL">>, <<"-s", "STDIN_FILE">>}
           B == {<<"-m", <<"CMD", "message">> >>, <<"-f", <<"FILE", "file_input">> >>}
<1>1. Source = FunctionOf(A) /\ SourceText = FunctionOf(B)
  BY DEF Source, SourceText
<1>2. DOMAIN Source = {"-l", "-n", "-s"} /\ DOMAIN SourceText = {"-m", "-f"}
  BY <1>1 DEF FunctionOf
<1>3. ASSUME NEW o \in DOMAIN Source PROVE Source[o] \in {"STDIN_LINE", "NULL", "STDIN_FILE"}
  <2>1. PICK p \in A : Source[o] = p[2]
    BY <1>1, PairOf
  <2> QED BY <2>1
<1>4. ASSUME NEW o \in DOMAIN SourceText
      PROVE  SourceText[o] \in { <<"CMD", "message">>, <<"FILE", "file_input">> }
  <2>1. PICK p \in B : SourceText[o] = p[2]
    BY <1>1, PairOf
  <2> QED BY <2>1
<1> QED BY <1>2, <1>3, <1>4

\* The options whose value is kept as it is, with their fields.
KeptOptions == TextOptions \cup
    {<<"-i", "id">>, <<"-I", "id_prefix">>, <<"--will-topic", "will_topic">>}

\* The fields followed here, and the one option that sets each.
Followed == {p[2] : p \in KeptOptions} \cup {Numeric[o][1] : o \in DOMAIN Numeric}
            \cup {"will_retain", "clean_session", "use_srv", "topics", "protocol_version", "socks5"}
Owner(f) ==
    CASE f = "bind_address" -> "-A" [] f = "cafile" -> "--cafile" [] f = "capath" -> "--capath"
      [] f = "certfile" -> "--cert" [] f = "ciphers" -> "--ciphers" [] f = "host" -> "-h"
      [] f = "keyfile" -> "--key" [] f = "psk" -> "--psk" [] f = "psk_identity" -> "--psk-identity"
      [] f = "tls_version" -> "--tls-version" [] f = "username" -> "-u" [] f = "password" -> "-P"
      [] f = "will_payload" -> "--will-payload" [] f = "id" -> "-i" [] f = "id_prefix" -> "-I"
      [] f = "will_topic" -> "--will-topic" [] f = "port" -> "-p" [] f = "keepalive" -> "-k"
      [] f = "qos" -> "-q" [] f = "will_qos" -> "--will-qos" [] f = "msg_count" -> "-C"
      [] f = "max_inflight" -> "-M" [] f = "will_retain" -> "--will-retain"
      [] f = "clean_session" -> "-c" [] f = "use_srv" -> "-S" [] f = "topics" -> "-t"
      [] f = "protocol_version" -> "-V" [] f = "socks5" -> "--proxy"

\* Each of these fields belongs to the one option that sets it.
LEMMA OwnerFacts ==
    /\ \A p \in KeptOptions :
          p = <<p[1], p[2]>> /\ Owner(p[2]) = p[1] /\ p[2] \in Followed
    /\ \A o \in DOMAIN Text : <<o, Text[o]>> \in KeptOptions
    /\ \A o \in DOMAIN Numeric : Owner(Numeric[o][1]) = o
    /\ \A o \in DOMAIN Flag : Flag[o] \in Followed => Owner(Flag[o]) = o
    /\ Owner("topics") = "-t" /\ Owner("protocol_version") = "-V" /\ Owner("socks5") = "--proxy"
    /\ "pub_mode" \notin Followed /\ "message" \notin Followed /\ "file_input" \notin Followed
    /\ "filter_outs" \notin Followed /\ "topic" \notin Followed
<1>1. \A p \in KeptOptions : p = <<p[1], p[2]>> /\ Owner(p[2]) = p[1]
  BY DEF KeptOptions, TextOptions, Owner
<1>2. \A o \in DOMAIN Numeric : Owner(Numeric[o][1]) = o
  BY NumericPairs DEF NumericOptions, Owner
<1>3. \A o \in DOMAIN Numeric : Numeric[o][1]
         \in {"port", "keepalive", "qos", "will_qos", "msg_count", "max_inflight"}
  BY NumericPairs DEF NumericOptions
<1>4. \A p \in KeptOptions : p[2] \in
         {"bind_address", "cafile", "capath", "certfile", "ciphers", "host", "keyfile", "psk",
          "psk_identity", "tls_version", "username", "password", "will_payload", "id",
          "id_prefix", "will_topic"}
  BY DEF KeptOptions, TextOptions
<1>5. \A f \in {"debug", "insecure", "quiet", "retain", "eol", "no_retain", "verbose", "pub_mode",
                "message", "file_input", "filter_outs", "topic"} : f \notin Followed
  BY <1>3, <1>4 DEF Followed
<1>6. \A o \in DOMAIN Flag : Flag[o] \in Followed => Owner(Flag[o]) = o
  BY <1>5, FlagPairs DEF FlagOptions, Owner
<1>7. Owner("topics") = "-t" /\ Owner("protocol_version") = "-V" /\ Owner("socks5") = "--proxy"
  BY DEF Owner
<1>8. \A p \in KeptOptions : p[2] \in Followed
  BY DEF Followed
<1>9. \A o \in DOMAIN Text : <<o, Text[o]>> \in KeptOptions
  BY TextPairs DEF KeptOptions
<1> QED BY <1>1, <1>2, <1>5, <1>6, <1>7, <1>8, <1>9

-----------------------------------------------------------------------------
(* What an option does *)

\* The configuration has the fields that are followed.
HasFields == Followed \cup {"pub_mode"} \subseteq DOMAIN cfg
Sources == DOMAIN Source \cup DOMAIN SourceText
\* What an option that is taken does to the fields followed.
Effect ==
    /\ Applies(opt)
    /\ words' = SubSeq(words, IF opt \in WithValue THEN 3 ELSE 2, Len(words))
    /\ UNCHANGED <<job, lines, pc, rc>>
    /\ DOMAIN cfg' = DOMAIN cfg
    /\ \A f \in Followed : Owner(f) # opt => cfg'[f] = cfg[f]
    /\ opt \notin Sources => cfg'.pub_mode = cfg.pub_mode

\* The value it leaves in its field, and the conditions it was taken under.
ValueEffect ==
    /\ \A f : <<opt, f>> \in KeptOptions => cfg'[f] = value
    /\ opt \in DOMAIN Numeric => InRange(opt) /\ cfg'[Numeric[opt][1]] = number
    /\ opt = "--will-retain" => cfg'.will_retain = TRUE
    /\ opt = "-c" => cfg'.clean_session = FALSE
    /\ opt = "-S" => cfg'.use_srv = TRUE
    /\ opt = "-V" => value \in DOMAIN Version /\ cfg'.protocol_version = Version[value]
    /\ opt = "--proxy" => ProxyOk /\ cfg'.socks5 = Proxy[job.url]
    /\ opt = "-t" /\ ~Pub => cfg'.topics = Append(cfg.topics, value)
    /\ opt \in Sources =>
          OnlySource /\ cfg'.pub_mode \in {"STDIN_LINE", "NULL", "STDIN_FILE", "CMD", "FILE"}
Permitted ==
    /\ opt = "-i" => cfg.id_prefix = None
    /\ opt = "-I" => cfg.id = None
    /\ opt = "-t" => value \notin IF Pub THEN BadPubTopics ELSE BadSubTopics
    /\ opt = "-T" => value \notin BadSubTopics
    /\ opt = "--will-topic" => value \notin BadPubTopics

OtherOptions == {"-i", "-I", "-t", "-T", "-V", "--proxy", "--will-topic"}

\* Which options keep their value, and in which field.
LEMMA KeptFacts ==
  /\ \A o, f : <<o, f>> \in KeptOptions => o \in DOMAIN Text \cup {"-i", "-I", "--will-topic"}
  /\ \A o \in DOMAIN Text : \A f : <<o, f>> \in KeptOptions => f = Text[o]
  /\ \A f : (<<"-i", f>> \in KeptOptions => f = "id") /\ (<<"-I", f>> \in KeptOptions => f = "id_prefix")
     /\ (<<"--will-topic", f>> \in KeptOptions => f = "will_topic")
BY TextPairs, TextDomain DEF KeptOptions, TextOptions

\* The effect of taking an option that changes one field.
LEMMA OneField ==
    ASSUME NEW o, Applies(o), NEW g, NEW v, Take([cfg EXCEPT ![g] = v]),
           g \in Followed => Owner(g) = o, g = "pub_mode" => o \in Sources,
           HasFields
    PROVE  /\ opt = o /\ Effect
           /\ g \in Followed => cfg'[g] = v
           /\ g = "pub_mode" => cfg'[g] = v
BY DEF Applies, Take, Effect, HasFields

\* Every option that is taken changes its own field and no other that is followed.
LEMMA OptionEffect ==
    ASSUME client_config_line_proc, pc' # "REFUSED", HasFields
    PROVE  Effect /\ ValueEffect /\ Permitted
<1>0. ~HelpOption /\ ~BadOption
  BY DEF HelpOption, BadOption, Refuse
<1>a. /\ \A o \in DOMAIN Text : o \notin DOMAIN Numeric \cup DOMAIN Flag \cup Sources \cup OtherOptions
      /\ \A o \in DOMAIN Numeric : o \notin DOMAIN Text \cup DOMAIN Flag \cup Sources \cup OtherOptions
      /\ \A o \in DOMAIN Flag : o \notin DOMAIN Text \cup DOMAIN Numeric \cup Sources \cup OtherOptions
      /\ \A o \in Sources : o \notin DOMAIN Text \cup DOMAIN Numeric \cup DOMAIN Flag \cup OtherOptions
      /\ \A o \in OtherOptions : o \notin DOMAIN Text \cup DOMAIN Numeric \cup DOMAIN Flag \cup Sources
      /\ {"--will-retain", "-c", "-S"} \subseteq DOMAIN Flag
  BY TextDomain, NumericDomain, FlagDomain, SourceFacts DEF Sources, OtherOptions
<1>b. /\ \A o, f : <<o, f>> \in KeptOptions => o \in DOMAIN Text \cup {"-i", "-I", "--will-topic"}
      /\ {"-i", "-I", "-t", "-T", "--will-topic", "-V", "--proxy"} = OtherOptions
  BY KeptFacts DEF OtherOptions
<1>c. /\ {"id", "id_prefix", "will_topic", "topics", "socks5", "protocol_version"} \subseteq Followed
      /\ Owner("id") = "-i" /\ Owner("id_prefix") = "-I" /\ Owner("will_topic") = "--will-topic"
      /\ Owner("topics") = "-t" /\ Owner("protocol_version") = "-V" /\ Owner("socks5") = "--proxy"
      /\ {"will_retain", "clean_session", "use_srv"} \subseteq Followed
  <2>1. {<<"-i", "id">>, <<"-I", "id_prefix">>, <<"--will-topic", "will_topic">>} \subseteq KeptOptions
    BY DEF KeptOptions
  <2>2. {"id", "id_prefix", "will_topic"} \subseteq Followed
    BY <2>1, OwnerFacts
  <2>3. Owner("id") = "-i" /\ Owner("id_prefix") = "-I" /\ Owner("will_topic") = "--will-topic"
    BY DEF Owner
  <2>4. Owner("topics") = "-t" /\ Owner("protocol_version") = "-V" /\ Owner("socks5") = "--proxy"
    BY OwnerFacts
  <2> QED BY <2>2, <2>3, <2>4 DEF Followed
<1>1. CASE TextOption
  <2>1. PICK o \in DOMAIN Text : Applies(o) /\ Take([cfg EXCEPT ![Text[o]] = value])
    BY <1>1 DEF TextOption
  <2>2. Owner(Text[o]) = o /\ Text[o] # "pub_mode" /\ Text[o] \in Followed
    <3>1. <<o, Text[o]>> \in KeptOptions /\ "pub_mode" \notin Followed
      BY OwnerFacts
    <3> QED BY <3>1, OwnerFacts
  <2>3. opt = o /\ Effect /\ cfg'[Text[o]] = value
    BY <2>1, <2>2, OneField
  <2>4. \A f : <<opt, f>> \in KeptOptions => cfg'[f] = value
    BY <2>3, KeptFacts
  <2> QED BY <1>a, <1>b, <2>3, <2>4 DEF ValueEffect, Permitted
<1>2. CASE NumberOption
  <2>1. PICK o \in DOMAIN Numeric :
            Applies(o) /\ InRange(o) /\ Take([cfg EXCEPT ![Numeric[o][1]] = number])
    BY <1>2 DEF NumberOption
  <2>2. Owner(Numeric[o][1]) = o /\ Numeric[o][1] \in Followed /\ Numeric[o][1] # "pub_mode"
    BY OwnerFacts DEF Followed
  <2>3. opt = o /\ Effect /\ cfg'[Numeric[o][1]] = number
    BY <2>1, <2>2, OneField
  <2> QED BY <1>a, <1>b, <2>1, <2>3 DEF ValueEffect, Permitted
<1>3. CASE FlagOption
  <2>1. PICK o \in DOMAIN Flag :
            Applies(o) /\ Take([cfg EXCEPT ![Flag[o]] = (o \notin Clears)])
    BY <1>3 DEF FlagOption
  <2>2. /\ Flag[o] \in Followed => Owner(Flag[o]) = o
        /\ Flag[o] # "pub_mode"
        /\ o = "--will-retain" => Flag[o] = "will_retain"
        /\ o = "-c" => Flag[o] = "clean_session"
        /\ o = "-S" => Flag[o] = "use_srv"
    BY OwnerFacts, FlagPairs DEF FlagOptions
  <2>3. opt = o /\ Effect /\ (Flag[o] \in Followed => cfg'[Flag[o]] = (o \notin Clears))
    BY <2>1, <2>2, OneField, Zenon
  <2>4. /\ o = "--will-retain" => o \notin Clears
        /\ o = "-S" => o \notin Clears
        /\ o = "-c" => o \in Clears
    BY DEF Clears
  <2>5. /\ o = "--will-retain" => cfg'.will_retain = TRUE
        /\ o = "-c" => cfg'.clean_session = FALSE
        /\ o = "-S" => cfg'.use_srv = TRUE
    BY <1>c, <2>2, <2>3, <2>4, Zenon
  <2>6. \A f : <<opt, f>> \notin KeptOptions
    BY <1>a, <1>b, <2>3
  <2>7. opt \notin DOMAIN Numeric \cup Sources \cup OtherOptions
    BY <1>a, <2>3
  <2> QED BY <1>b, <2>3, <2>5, <2>6, <2>7, Zenon DEF ValueEffect, Permitted
<1>4. CASE SourceOption
  <2>1. PICK o \in DOMAIN Source :
            Applies(o) /\ OnlySource /\ Take([cfg EXCEPT !.pub_mode = Source[o]])
    BY <1>4 DEF SourceOption
  <2>2. opt = o /\ Effect /\ cfg'.pub_mode = Source[o]
    BY <2>1, OneField, OwnerFacts DEF Sources
  <2>3. opt \in Sources /\ Source[o] \in {"STDIN_LINE", "NULL", "STDIN_FILE"}
    BY <2>2, SourceFacts DEF Sources
  <2> QED BY <1>a, <1>b, <2>1, <2>2, <2>3 DEF ValueEffect, Permitted
<1>5. CASE SourceTextOption
  <2>1. PICK o \in DOMAIN SourceText :
            /\ Applies(o) /\ OnlySource
            /\ Take([cfg EXCEPT !.pub_mode = SourceText[o][1], ![SourceText[o][2]] = value])
    BY <1>5 DEF SourceTextOption
  <2>2. /\ SourceText[o][1] \in {"CMD", "FILE"}
        /\ SourceText[o][2] \notin Followed \cup {"pub_mode"}
    BY SourceFacts, OwnerFacts
  <2>3. opt = o /\ opt \in Sources
    BY <2>1 DEF Applies, Sources
  <2>4. /\ cfg'.pub_mode = SourceText[o][1] /\ DOMAIN cfg' = DOMAIN cfg
        /\ \A f \in Followed : cfg'[f] = cfg[f]
    <3>1. cfg' = [cfg EXCEPT !.pub_mode = SourceText[o][1], ![SourceText[o][2]] = value]
      BY <2>1 DEF Take
    <3>2. "pub_mode" \notin Followed
      BY OwnerFacts
    <3> QED BY <2>2, <3>1, <3>2 DEF HasFields
  <2>5. Effect
    BY <2>1, <2>3, <2>4 DEF Effect, Take
  <2> QED BY <1>a, <1>b, <2>1, <2>2, <2>3, <2>4, <2>5 DEF ValueEffect, Permitted
<1>6. CASE IdOption
  <2>1. CASE Applies("-i") /\ cfg.id_prefix = None /\ Take([cfg EXCEPT !.id = value])
    <3>1. opt = "-i" /\ Effect /\ cfg'.id = value
      BY <1>c, <2>1, OneField
    <3>2. \A f : <<opt, f>> \in KeptOptions => cfg'[f] = value
      BY <3>1, KeptFacts
    <3> QED BY <1>a, <1>b, <2>1, <3>1, <3>2 DEF ValueEffect, Permitted
  <2>2. CASE Applies("-I") /\ cfg.id = None /\ Take([cfg EXCEPT !.id_prefix = value])
    <3>1. opt = "-I" /\ Effect /\ cfg'.id_prefix = value
      BY <1>c, <2>2, OneField
    <3>2. \A f : <<opt, f>> \in KeptOptions => cfg'[f] = value
      BY <3>1, KeptFacts
    <3> QED BY <1>a, <1>b, <2>2, <3>1, <3>2 DEF ValueEffect, Permitted
  <2> QED BY <1>6, <2>1, <2>2 DEF IdOption
<1>7. CASE TopicOption
  <2>1. Applies("-t") /\ \A f : <<"-t", f>> \notin KeptOptions
    BY <1>7, <1>a, <1>b DEF TopicOption
  <2>2. CASE Pub /\ value \notin BadPubTopics /\ Take([cfg EXCEPT !.topic = value])
    <3>1. opt = "-t" /\ Effect
      BY <2>1, <2>2, OneField, OwnerFacts
    <3> QED BY <1>a, <1>b, <2>1, <2>2, <3>1 DEF ValueEffect, Permitted
  <2>3. CASE ~Pub /\ value \notin BadSubTopics /\ Take([cfg EXCEPT !.topics = Append(@, value)])
    <3> DEFINE longer == Append(cfg.topics, value)
    <3>1. Take([cfg EXCEPT !.topics = longer])
      BY <2>3
    <3> HIDE DEF longer
    <3>2. opt = "-t" /\ Effect /\ cfg'.topics = longer
      BY <1>c, <2>1, <3>1, OneField
    <3> QED BY <1>a, <1>b, <2>1, <2>3, <3>2 DEF longer, ValueEffect, Permitted
  <2> QED BY <1>7, <2>2, <2>3 DEF TopicOption
<1>8. CASE FilterOption
  <2>1. /\ Applies("-T") /\ value \notin BadSubTopics
        /\ \E longer : Take([cfg EXCEPT !.filter_outs = longer])
    BY <1>8 DEF FilterOption
  <2>2. opt = "-T" /\ Effect
    BY <2>1, OneField, OwnerFacts
  <2>3. \A f : <<"-T", f>> \notin KeptOptions
    BY <1>a, <1>b
  <2> QED BY <1>a, <1>b, <2>1, <2>2, <2>3 DEF ValueEffect, Permitted
<1>9. CASE WillTopicOption
  <2>1. /\ Applies("--will-topic") /\ value \notin BadPubTopics
        /\ Take([cfg EXCEPT !.will_topic = value])
    BY <1>9 DEF WillTopicOption
  <2>2. opt = "--will-topic" /\ Effect /\ cfg'.will_topic = value
    BY <1>c, <2>1, OneField
  <2>3. \A f : <<opt, f>> \in KeptOptions => cfg'[f] = value
    BY <2>2, KeptFacts
  <2> QED BY <1>a, <1>b, <2>1, <2>2, <2>3 DEF ValueEffect, Permitted
<1>10. CASE VersionOption
  <2>1. /\ Applies("-V") /\ value \in DOMAIN Version
        /\ Take([cfg EXCEPT !.protocol_version = Version[value]])
    BY <1>10 DEF VersionOption
  <2>2. opt = "-V" /\ Effect /\ cfg'.protocol_version = Version[value]
    BY <1>c, <2>1, OneField
  <2>3. \A f : <<"-V", f>> \notin KeptOptions
    BY <1>a, <1>b
  <2> QED BY <1>a, <1>b, <2>1, <2>2, <2>3 DEF ValueEffect, Permitted
<1>11. CASE ProxyOption
  <2>1. /\ Applies("--proxy") /\ ProxyOk
        /\ Take([cfg EXCEPT !.socks5 = Proxy[job.url]])
    BY <1>11 DEF ProxyOption
  <2>2. opt = "--proxy" /\ Effect /\ cfg'.socks5 = Proxy[job.url]
    BY <1>c, <2>1, OneField
  <2>3. \A f : <<"--proxy", f>> \notin KeptOptions
    BY <1>a, <1>b
  <2> QED BY <1>a, <1>b, <2>1, <2>2, <2>3 DEF ValueEffect, Permitted
<1> QED BY <1>0, <1>1, <1>2, <1>3, <1>4, <1>5, <1>6, <1>7, <1>8, <1>9, <1>10, <1>11
        DEF client_config_line_proc

-----------------------------------------------------------------------------
(* The types *)

\* The settings are of the types and within the limits that are used.
CfgType ==
    /\ HasFields
    /\ cfg.qos \in 0..2 /\ cfg.will_qos \in 0..2 /\ cfg.port >= 1 /\ cfg.port <= 65535
    /\ cfg.keepalive <= 65535
    /\ cfg.pub_mode \in {"NONE", "CMD", "FILE", "STDIN_LINE", "NULL", "STDIN_FILE"}

\* The fields that have limits.
LEMMA NumberFields ==
    /\ {"qos", "will_qos", "port", "keepalive"} \subseteq Followed
    /\ Owner("qos") = "-q" /\ Owner("will_qos") = "--will-qos"
    /\ Owner("port") = "-p" /\ Owner("keepalive") = "-k"
    /\ Numeric["-q"] = <<"qos", 0, 2>> /\ Numeric["--will-qos"] = <<"will_qos", 0, 2>>
    /\ Numeric["-p"] = <<"port", 1, 65535>> /\ Numeric["-k"] = <<"keepalive", -IntMax, 65535>>
    /\ {"-q", "--will-qos", "-p", "-k"} \subseteq DOMAIN Numeric
<1>1. {"-q", "--will-qos", "-p", "-k"} \subseteq DOMAIN Numeric
  BY NumericDomain
<1>2. /\ Numeric["-q"] = <<"qos", 0, 2>> /\ Numeric["--will-qos"] = <<"will_qos", 0, 2>>
      /\ Numeric["-p"] = <<"port", 1, 65535>> /\ Numeric["-k"] = <<"keepalive", -IntMax, 65535>>
  <2>1. ASSUME NEW o \in DOMAIN Numeric PROVE <<o, Numeric[o]>> \in NumericOptions
    BY NumericPairs
  <2> QED BY <1>1, <2>1 DEF NumericOptions
<1>3. {"qos", "will_qos", "port", "keepalive"} \subseteq Followed
  <2>1. \A o \in DOMAIN Numeric : Numeric[o][1] \in Followed
    BY DEF Followed
  <2>2. {Numeric["-q"][1], Numeric["--will-qos"][1], Numeric["-p"][1], Numeric["-k"][1]} \subseteq Followed
    BY <1>1, <2>1
  <2> QED BY <1>2, <2>2
<1>4. /\ Owner("qos") = "-q" /\ Owner("will_qos") = "--will-qos"
      /\ Owner("port") = "-p" /\ Owner("keepalive") = "-k"
  BY DEF Owner
<1> QED BY <1>1, <1>2, <1>3, <1>4

\* An option leaves the configuration within its limits.
LEMMA OptionType == ASSUME CfgType, client_config_line_proc PROVE CfgType'
<1>1. CASE pc' = "REFUSED"
  <2>1. cfg' = cfg
    BY <1>1, OptionMoves DEF Configuring
  <2> QED BY <2>1 DEF CfgType, HasFields
<1>2. CASE pc' # "REFUSED"
  <2>0. HasFields
    BY DEF CfgType
  <2>1. Effect /\ ValueEffect /\ Permitted
    BY <1>2, <2>0, OptionEffect
  <2>2. ASSUME NEW o \in {"-q", "--will-qos", "-p", "-k"}
        PROVE  LET f == Numeric[o][1]
               IN  \/ cfg'[f] = cfg[f]
                   \/ cfg'[f] >= Numeric[o][2] /\ cfg'[f] <= Numeric[o][3] /\ cfg'[f] \in Int
    <3>1. CASE opt = o
      BY <2>1, <3>1, NumberFields DEF ValueEffect, InRange
    <3>2. CASE opt # o
      <4>1. Numeric[o][1] \in Followed /\ Owner(Numeric[o][1]) = o
        BY NumberFields, OwnerFacts DEF Followed
      <4> QED BY <2>1, <3>2, <4>1 DEF Effect
    <3> QED BY <3>1, <3>2
  <2>3. /\ cfg'.qos = cfg.qos \/ cfg'.qos \in 0..2
        /\ cfg'.will_qos = cfg.will_qos \/ cfg'.will_qos \in 0..2
        /\ cfg'.port = cfg.port \/ (cfg'.port >= 1 /\ cfg'.port <= 65535)
        /\ cfg'.keepalive = cfg.keepalive \/ cfg'.keepalive <= 65535
    BY <2>2, NumberFields
  <2>5. cfg'.pub_mode = cfg.pub_mode
        \/ cfg'.pub_mode \in {"STDIN_LINE", "NULL", "STDIN_FILE", "CMD", "FILE"}
    BY <2>1 DEF Effect, ValueEffect
  <2>6. HasFields'
    BY <2>0, <2>1 DEF HasFields, Effect
  <2> QED BY <2>3, <2>5, <2>6 DEF CfgType
<1> QED BY <1>1, <1>2

\* The configuration before anything is read.
LEMMA InitFields ==
    /\ Followed \cup {"pub_mode"} \subseteq DOMAIN init_config
    /\ \A p \in KeptOptions : init_config[p[2]] = None
    /\ init_config.qos = 0 /\ init_config.will_qos = 0 /\ init_config.port = 1883
    /\ init_config.keepalive = 60 /\ init_config.pub_mode = "NONE" /\ init_config.topics = <<>>
    /\ init_config.will_retain = FALSE /\ init_config.clean_session = TRUE
    /\ init_config.use_srv = FALSE /\ init_config.socks5 = NoProxy
<1>1. DOMAIN Defaults = {"port", "max_inflight", "keepalive", "clean_session", "eol",
          "protocol_version", "qos", "will_qos", "msg_count", "debug", "insecure", "quiet",
          "retain", "use_srv", "will_retain", "no_retain", "verbose", "pub_mode", "topics",
          "filter_outs", "socks5"}
  BY DEF Defaults
<1>2. TextFields = {"bind_address", "cafile", "capath", "certfile", "ciphers", "host", "keyfile",
          "psk", "psk_identity", "tls_version", "username", "password", "will_payload", "id",
          "id_prefix", "file_input", "message", "topic", "will_topic"}
  <2>1. {Text[o] : o \in DOMAIN Text} = {"bind_address", "cafile", "capath", "certfile",
            "ciphers", "host", "keyfile", "psk", "psk_identity", "tls_version", "username",
            "password", "will_payload"}
    <3>1. \A o \in DOMAIN Text : Text[o] \in {"bind_address", "cafile", "capath", "certfile",
            "ciphers", "host", "keyfile", "psk", "psk_identity", "tls_version", "username",
            "password", "will_payload"}
      BY TextPairs DEF TextOptions
    <3>2. \A p \in TextOptions : p[1] \in DOMAIN Text /\ Text[p[1]] = p[2]
      BY TextPairs, TextDomain DEF TextOptions
    <3>3. \A p \in TextOptions : p[2] \in {Text[o] : o \in DOMAIN Text}
      BY <3>2
    <3> QED BY <3>1, <3>3 DEF TextOptions
  <2> QED BY <2>1 DEF TextFields
<1>3. \A f \in TextFields : f \in DOMAIN init_config /\ init_config[f] = None
  BY DEF init_config
<1>4. \A f \in DOMAIN Defaults :
          f \notin TextFields /\ f \in DOMAIN init_config /\ init_config[f] = Defaults[f]
  BY <1>1, <1>2 DEF init_config
<1>5. /\ Defaults.qos = 0 /\ Defaults.will_qos = 0 /\ Defaults.port = 1883
      /\ Defaults.keepalive = 60 /\ Defaults.pub_mode = "NONE" /\ Defaults.topics = <<>>
      /\ Defaults.will_retain = FALSE /\ Defaults.clean_session = TRUE
      /\ Defaults.use_srv = FALSE /\ Defaults.socks5 = NoProxy
  BY DEF Defaults
<1>6. \A p \in KeptOptions : p[2] \in TextFields
  BY <1>2 DEF KeptOptions, TextOptions
<1>7. \A o \in DOMAIN Numeric : Numeric[o][1] \in DOMAIN Defaults
  BY <1>1, NumericPairs DEF NumericOptions
<1>8. \A f \in Followed \cup {"pub_mode"} : f \in TextFields \cup DOMAIN Defaults
  BY <1>1, <1>6, <1>7 DEF Followed
<1> QED BY <1>1, <1>3, <1>4, <1>5, <1>6, <1>8

\* The settings change only while they are read, and for the id.
LEMMA Kept ==
    ASSUME Next
    PROVE  /\ job' = job
           /\ pc \notin Configuring \cup {"ID"} => cfg' = cfg
           /\ pc = "ID" => \E v : cfg' = [cfg EXCEPT !.id = v] \/ cfg' = cfg
           /\ pc \in Configuring => Configure \/ cfg' = cfg
           /\ ~(client_opts_set \/ client_connect) => told' = told
           /\ pc \notin Before \cup {"ID", "NEW"} => pc' \notin Before \cup {"ID", "NEW"}
<1>1. CASE Configure
  <2>1. /\ UNCHANGED <<job, startVars>> /\ pc \in Configuring
    BY <1>1, ConfigureMoves
  <2> QED BY <1>1, <2>1 DEF startVars, libVars, Configuring, Before
<1>2. CASE client_config_cleanup \/ Accepted \/ Needs
  BY <1>2 DEF client_config_cleanup, NoMemory, Accepted, Needs, GoTo, Exit, startVars, libVars,
     Configuring, Loading, Before
<1>3. CASE load_stdin \/ load_file \/ ReadFile \/ FileChanges
  BY <1>3 DEF load_stdin, load_file, ReadFile, FileChanges, GoTo, Exit, configVars, libVars,
     Configuring, Loading, Before
<1>4. CASE lib_init \/ mosquitto_new \/ LoopEnds \/ lib_cleanup
  BY <1>4 DEF lib_init, mosquitto_new, LoopEnds, lib_cleanup, GiveUp, GoTo, Exit, startVars,
     libVars, Configuring, Loading, Before
<1>5. CASE client_id_generate
  BY <1>5 DEF client_id_generate, GiveUp, Exit, startVars, libVars, Configuring, Loading, Before
<1>6. CASE client_opts_set \/ client_connect
  BY <1>6 DEF client_opts_set, client_connect, ConnectFails, GiveUp, GoTo, Exit, configVars,
     Configuring, Loading, Before
<1> QED BY <1>1, <1>2, <1>3, <1>4, <1>5, <1>6 DEF Next, Main

\* The host and the id have no limits.
LEMMA OtherField ==
    ASSUME CfgType, NEW g \in {"host", "id"}, NEW v, cfg' = [cfg EXCEPT ![g] = v]
    PROVE  CfgType'
<1>1. HasFields'
  BY DEF CfgType, HasFields
<1>2. cfg'.qos = cfg.qos /\ cfg'.will_qos = cfg.will_qos /\ cfg'.port = cfg.port
      /\ cfg'.keepalive = cfg.keepalive /\ cfg'.pub_mode = cfg.pub_mode
  OBVIOUS
<1> QED BY <1>1, <1>2 DEF CfgType

\* The configuration keeps its type, whoever takes a step.
LEMMA CfgTypeStep == ASSUME CfgType, [Next]_vars PROVE CfgType'
<1>1. CASE Configure
  <2>1. CASE client_config_line_proc
    BY <2>1, OptionType
  <2>2. CASE NextLine \/ CommandLine \/ NextArgument
    <3>1. cfg' = cfg
      BY <2>2 DEF NextLine, CommandLine, NextArgument
    <3> QED BY <3>1 DEF CfgType, HasFields
  <2>3. CASE Checks
    <3>1. cfg' = cfg \/ \E v : cfg' = [cfg EXCEPT !.host = v]
      BY <2>3 DEF Checks, Refuse
    <3>2. cfg' = cfg => CfgType'
      BY DEF CfgType, HasFields
    <3> QED BY <3>1, <3>2, OtherField
  <2> QED BY <1>1, <2>1, <2>2, <2>3 DEF Configure, client_config_load
<1>2. CASE Next /\ ~Configure
  <2>1. cfg' = cfg \/ \E v : cfg' = [cfg EXCEPT !.id = v]
    BY <1>2, Kept
  <2>2. cfg' = cfg => CfgType'
    BY DEF CfgType, HasFields
  <2> QED BY <2>1, <2>2, OtherField
<1>3. CASE UNCHANGED vars
  BY <1>3 DEF vars, configVars, CfgType, HasFields
<1> QED BY <1>1, <1>2, <1>3

-----------------------------------------------------------------------------
(* What the library is told *)

\* What is noted of a call: its settings as they are in the configuration.
Entry(call) == [call |-> call, with |-> [f \in Arguments[call] |-> cfg[f]]]
Entries == {Entry(call) : call \in DOMAIN Arguments}

\* The library has been told settings as they are.
ToldInv ==
    /\ told \in Seq(Entries)
    /\ pc \in Before \cup {"ID", "NEW"} => told = <<>>

\* Every call has its list of settings.
LEMMA CallsKnown ==
    /\ \A k \in DOMAIN Calls : Calls[k] \in DOMAIN Arguments
    /\ {"connect_srv", "connect_bind"} \subseteq DOMAIN Arguments
<1>1. DOMAIN Arguments = {"will_set", "username_pw_set", "tls_set", "tls_insecure_set",
         "tls_psk_set", "tls_opts_set", "max_inflight_messages_set", "socks5_set", "opts_set",
         "connect_bind", "connect_srv"}
  BY DEF Arguments, FunctionOf, CallArguments
<1> QED BY <1>1 DEF Calls

\* What is noted of a call stays what the configuration says.
LEMMA ToldStep == ASSUME InOrder, ToldInv, [Next]_vars PROVE ToldInv'
<1>1. CASE client_opts_set \/ client_connect
  <2>1. /\ cfg' = cfg /\ pc' \notin Before \cup {"ID", "NEW"}
        /\ told' = told \/ \E call \in DOMAIN Arguments : Tell(call)
    <3>1. CASE client_opts_set
      BY <3>1, CallsKnown DEF client_opts_set, DueCalls, GiveUp, GoTo, Exit, configVars,
         Before, Configuring, Loading
    <3>2. CASE client_connect
      BY <3>2, CallsKnown DEF client_connect, ConnectFails, GiveUp, GoTo, Exit, Before,
         Configuring, Loading
    <3> QED BY <1>1, <3>1, <3>2
  <2>2. Entries' = Entries
    BY <2>1 DEF Entries, Entry
  <2>3. ASSUME NEW call \in DOMAIN Arguments, Tell(call) PROVE told' \in Seq(Entries)
    <3>1. told' = Append(told, Entry(call)) /\ Entry(call) \in Entries
      BY <2>3 DEF Tell, Entry, Entries
    <3> QED BY <3>1 DEF ToldInv
  <2>4. told' \in Seq(Entries')
    BY <2>1, <2>2, <2>3 DEF ToldInv
  <2> QED BY <2>1, <2>4 DEF ToldInv
<1>2. CASE Next /\ ~(client_opts_set \/ client_connect)
  <2>1. told' = told
    BY <1>2, Kept
  <2>2. CASE cfg' = cfg
    <3>1. Entries' = Entries
      BY <2>2 DEF Entries, Entry
    <3>2. pc' \in Before \cup {"ID", "NEW"} => pc \in Before \cup {"ID", "NEW"}
      BY <1>2, Kept
    <3> QED BY <2>1, <3>1, <3>2 DEF ToldInv
  <2>3. CASE cfg' # cfg
    <3>1. pc \in Before \cup {"ID", "NEW"}
      BY <1>2, <2>3, Kept DEF Before
    <3>2. told' = <<>>
      BY <2>1, <3>1 DEF ToldInv
    <3> QED BY <3>2 DEF ToldInv
  <2> QED BY <2>2, <2>3
<1>3. CASE UNCHANGED vars
  BY <1>3 DEF vars, configVars, startVars, libVars, ToldInv, Entries, Entry
<1> QED BY <1>1, <1>2, <1>3

\* The rest of the type: the load and the library.
Machine ==
    /\ rc \in 0..2
    /\ pos \in 0..MaxFile /\ msglen \in 0..MaxFile /\ changes \in 0..MaxChanges
    /\ input \in [length : 0..MaxFile, fails : BOOLEAN] /\ {message, clean} \subseteq BOOLEAN
    /\ lib \in {"down", "up", "released"}
    /\ mosq \in {"none", "made", "connected", "destroyed"}

\* The load and the library keep their types.
LEMMA MachineStep == ASSUME InOrder, Loads, Machine, [Next]_vars PROVE Machine'
<1>0. Block \in Nat /\ MaxFile \in Nat /\ MaxChanges \in Nat
  BY StartAssumption
<1>1. CASE Configure
  <2>1. UNCHANGED <<input, msglen, pos, message, changes, lib, mosq, clean>> /\ rc' \in {rc, 1, 2}
    BY <1>1, ConfigureMoves DEF startVars, loadVars, libVars
  <2> QED BY <2>1 DEF Machine
<1>2. CASE client_config_cleanup \/ Accepted \/ Needs
  <2>1. UNCHANGED <<input, msglen, pos, message, changes, lib, mosq, clean>> /\ rc' \in {rc, 1}
    BY <1>2 DEF client_config_cleanup, Accepted, Needs, GoTo, Exit, startVars, loadVars, libVars
  <2> QED BY <2>1 DEF Machine
<1>3. CASE load_stdin
  <2> DEFINE rlen == Least(Block, input.length - pos)
  <2>1. pc = "LOAD_STDIN" /\ pos \in 0..input.length /\ input.length \in 0..MaxFile
    BY <1>3 DEF load_stdin, Loads, Machine
  <2>2. pos + rlen \in 0..input.length
    <3>1. input.length \in Nat
      BY <1>0, <2>1
    <3> QED BY <2>1, <3>1, StdinTurn
  <2>3. /\ pos' \in {pos, pos + rlen} /\ msglen' \in {msglen, pos'} /\ message' \in {message, TRUE}
        /\ rc' \in {rc, 1} /\ UNCHANGED <<input, changes, lib, mosq, clean>>
    <3>1. message' \in {message, TRUE} /\ UNCHANGED <<input, changes, lib, mosq, clean>>
      BY <1>3 DEF load_stdin, libVars
    <3>2. pos' \in {pos, pos + rlen} /\ msglen' \in {msglen, pos'} /\ rc' \in {rc, 1}
      BY <1>3 DEF load_stdin, Exit, GoTo, configVars
    <3> QED BY <3>1, <3>2
  <2> HIDE DEF rlen
  <2>4. pos' \in 0..MaxFile /\ msglen' \in 0..MaxFile
    BY <1>0, <2>1, <2>2, <2>3 DEF Machine
  <2>5. {message', clean'} \subseteq BOOLEAN
    BY <2>3 DEF Machine
  <2>6. rc' \in 0..2
    BY <2>3 DEF Machine
  <2> QED BY <2>3, <2>4, <2>5, <2>6 DEF Machine
<1>4. CASE load_file
  <2>1. /\ msglen' = input.length /\ rc' \in {rc, 1}
        /\ UNCHANGED <<input, pos, message, changes, lib, mosq, clean>>
    BY <1>4 DEF load_file, Exit, GoTo, libVars
  <2>2. msglen' \in 0..MaxFile
    BY <2>1 DEF Machine
  <2> QED BY <2>1, <2>2 DEF Machine
<1>5. CASE ReadFile
  <2>1. /\ pos' = IF input.fails \/ input.length < pos THEN pos ELSE Least(msglen, input.length)
        /\ UNCHANGED <<rc, input, msglen, message, changes, lib, mosq, clean>>
    BY <1>5 DEF ReadFile, GoTo, configVars, libVars
  <2>2. pos' \in 0..MaxFile
    BY <2>1 DEF Machine, Least
  <2> QED BY <2>1, <2>2 DEF Machine
<1>6. CASE FileChanges
  <2>1. /\ changes > 0 /\ changes' = changes - 1
        /\ \E n \in 0..MaxFile : input' = [input EXCEPT !.length = n]
        /\ UNCHANGED <<rc, msglen, pos, message, lib, mosq, clean>>
    BY <1>6 DEF FileChanges, configVars, libVars
  <2>2. changes' \in 0..MaxChanges
    BY <1>0, <2>1 DEF Machine
  <2>3. input' \in [length : 0..MaxFile, fails : BOOLEAN]
    BY <2>1 DEF Machine
  <2> QED BY <2>1, <2>2, <2>3 DEF Machine
<1>7. CASE \/ lib_init \/ client_id_generate \/ mosquitto_new \/ client_opts_set
           \/ client_connect \/ LoopEnds \/ lib_cleanup
  <2>1. /\ UNCHANGED <<input, msglen, pos, message, changes>> /\ rc' \in {rc, 0, 1}
        /\ lib' \in {lib, "up", "released"} /\ mosq' \in {mosq, "made", "connected", "destroyed"}
        /\ clean' = clean \/ clean' = (Pub \/ cfg.clean_session)
    BY <1>7 DEF lib_init, client_id_generate, mosquitto_new, client_opts_set, client_connect,
                ConnectFails, LoopEnds, lib_cleanup, GiveUp, GoTo, Exit, startVars, loadVars,
                libVars, configVars
  <2>2. clean' \in BOOLEAN
    BY <2>1 DEF Machine
  <2>3. {message, clean} \subseteq BOOLEAN => {message', clean'} \subseteq BOOLEAN
    BY <2>1, <2>2
  <2>4. /\ rc' \in 0..2 /\ pos' \in 0..MaxFile /\ msglen' \in 0..MaxFile /\ changes' \in 0..MaxChanges
        /\ lib' \in {"down", "up", "released"}
        /\ mosq' \in {"none", "made", "connected", "destroyed"}
    BY <2>1 DEF Machine
  <2> QED BY <2>1, <2>3, <2>4 DEF Machine
<1>8. CASE UNCHANGED vars
  BY <1>8 DEF vars, configVars, startVars, loadVars, libVars, Machine
<1> QED BY <1>1, <1>2, <1>3, <1>4, <1>5, <1>6, <1>7, <1>8 DEF Next, Main

\* The inductive invariant of the types.
Typed == InOrder /\ Loads /\ CfgType /\ ToldInv /\ Machine

\* The values that TypeOK names by their options.
LEMMA SourceValues ==
    Source["-l"] = "STDIN_LINE" /\ Source["-n"] = "NULL" /\ Source["-s"] = "STDIN_FILE"
<1> DEFINE A == {<<"-l", "STDIN_LINE">>, <<"-n", "NULL">>, <<"-s", "STDIN_FILE">>}
<1>1. \A o \in DOMAIN Source : \E p \in A : p[1] = o /\ Source[o] = p[2]
  BY PairOf DEF Source
<1> QED BY <1>1, SourceFacts

\* The types hold initially, and the actions keep them.
LEMMA TypedInit == Init => Typed
<1> SUFFICES ASSUME Init PROVE Typed
  OBVIOUS
<1>1. InOrder
  BY DEF Init, ConfigInit, InOrder, Places, Order, Before, Configuring, Loading
<1>2. cfg = init_config /\ job \in Jobs /\ pc = "FILE"
  BY DEF Init, ConfigInit
<1>3. CfgType
  <2>1. HasFields
    BY <1>2, InitFields DEF HasFields
  <2>2. cfg.qos = 0 /\ cfg.will_qos = 0 /\ cfg.port = 1883 /\ cfg.keepalive = 60 /\ cfg.pub_mode = "NONE"
    BY <1>2, InitFields
  <2> QED BY <2>1, <2>2 DEF CfgType
<1>4. Loads
  <2>1. "pub_mode" \in DOMAIN cfg
    BY <1>3 DEF CfgType, HasFields
  <2> QED BY <1>2, <2>1 DEF Init, Loads, Configuring
<1>5. ToldInv
  BY DEF Init, ToldInv
<1>6. input \in [length : 0..MaxFile, fails : BOOLEAN]
  BY <1>2, StartAssumption DEF Init
<1>7. Machine
  <2>1. /\ rc = 0 /\ changes = MaxChanges /\ msglen = 0 /\ pos = 0 /\ lib = "down" /\ mosq = "none"
    BY DEF Init, ConfigInit
  <2>2. {message, clean} \subseteq BOOLEAN
    BY DEF Init
  <2> QED BY <1>6, <2>1, <2>2, StartAssumption DEF Machine
<1> QED BY <1>1, <1>3, <1>4, <1>5, <1>7 DEF Typed

\* So the types hold at every state.
LEMMA TypedInvariant == Spec => []Typed
<1>1. InOrder /\ Loads /\ [Next]_vars => InOrder' /\ Loads'
  <2>1. InOrder /\ UNCHANGED vars => InOrder'
    BY DEF vars, configVars, startVars, libVars, InOrder, Order
  <2>2. Loads /\ UNCHANGED vars => Loads'
    BY DEF vars, configVars, startVars, loadVars, libVars, Loads, Whole, Pub
  <2> QED BY <2>1, <2>2, LibraryStep, LoadsStep DEF InOrder
<1>2. Typed /\ [Next]_vars => Typed'
  BY <1>1, CfgTypeStep, ToldStep, MachineStep DEF Typed
<1> QED BY <1>2, TypedInit, PTL DEF Spec

\* Every variable keeps its type, and every number of the configuration that is used
\* at all is within its limits, whatever the file and the command line say.
THEOREM TypeCorrect == Spec => []TypeOK
<1>1. Typed => TypeOK
  <2> SUFFICES ASSUME Typed PROVE TypeOK
    OBVIOUS
  <2>1. \A k \in DOMAIN told : told[k].call \in DOMAIN Arguments
    BY DEF Typed, ToldInv, Entries, Entry
  <2>2. cfg.pub_mode \in {"NONE", "CMD", "FILE"} \cup {Source[o] : o \in DOMAIN Source}
    <3>1. {"STDIN_LINE", "NULL", "STDIN_FILE"} \subseteq {Source[o] : o \in DOMAIN Source}
      BY SourceFacts, SourceValues
    <3> QED BY <3>1 DEF Typed, CfgType
  <2> QED BY <2>1, <2>2 DEF Typed, TypeOK, InOrder, CfgType, Machine
<1> QED BY <1>1, TypedInvariant, PTL

-----------------------------------------------------------------------------
(* What has been read *)

\* An option is among the first n settings, and its last one is the k-th.
Seen(o, n) == \E k \in Settings : k <= n /\ Declared[k][1] = o
LastAt(o, n, k) ==
    /\ k \in Settings /\ k <= n /\ Declared[k][1] = o
    /\ \A l \in Settings : l <= n /\ Declared[l][1] = o => l <= k

\* A field holds the last value of its option.
Holds(o, f, n) ==
    /\ Seen(o, n) => \E k : LastAt(o, n, k) /\ cfg[f] = Declared[k][2] /\ cfg[f] # None
    /\ ~Seen(o, n) => cfg[f] = None
HoldsNumber(o, n) ==
    Seen(o, n) => \E k : LastAt(o, n, k) /\ cfg[Numeric[o][1]] = NumberOf(Declared[k][2])

\* The flags, the version, the proxy, the topics and the source of the message are those
\* of the first n settings, and each of these is allowed.
FlagsRead(n) ==
    /\ Seen("--will-retain", n) => cfg.will_retain = TRUE
    /\ ~Seen("--will-retain", n) => cfg.will_retain = FALSE
    /\ Seen("-c", n) => cfg.clean_session = FALSE
    /\ ~Seen("-c", n) => cfg.clean_session = TRUE
    /\ Seen("-S", n) => cfg.use_srv = TRUE
    /\ ~Seen("-S", n) => cfg.use_srv = FALSE
VersionRead(n) ==
    Seen("-V", n) => \E k : LastAt("-V", n, k) /\ cfg.protocol_version = Version[Declared[k][2]]
ProxyRead(n) == Seen("--proxy", n) => cfg.socks5 = Proxy[job.url] /\ Proxy[job.url].ok
TopicAt(n, k) == k \in Settings /\ k <= n /\ Declared[k][1] = "-t"
TopicsRead(n) ==
    ~Pub =>
    /\ cfg.topics \in Seq(STRING)
    /\ \A k : TopicAt(n, k) => \E i \in DOMAIN cfg.topics : cfg.topics[i] = Declared[k][2]
    /\ \A i \in DOMAIN cfg.topics : \E k : TopicAt(n, k) /\ cfg.topics[i] = Declared[k][2]
SourceAt(n, k) == k \in Settings /\ k <= n /\ Declared[k][1] \in Sources
SourcesRead(n) ==
    /\ cfg.pub_mode = "NONE" <=> \A k : ~SourceAt(n, k)
    /\ \A k, l : SourceAt(n, k) /\ SourceAt(n, l) => k = l
AllowedRead(n) ==
    /\ \A k \in Settings : k <= n => Allowed(Declared[k])
    /\ ~(Seen("-i", n) /\ Seen("-I", n))

\* The step takes the next setting, or passes an empty one.
Moved(n) ==
    /\ job' = job /\ n \in Nat /\ Settings \subseteq Nat
    /\ \/ n + 1 \notin Settings /\ cfg' = cfg
       \/ /\ n + 1 \in Settings /\ Effect /\ ValueEffect /\ Permitted
          /\ opt = Declared[n + 1][1]
          /\ opt \in WithValue => /\ value = Declared[n + 1][2]
                                  /\ value # None /\ value \in STRING

\* What was declared is the same for the same job.
LEMMA SameDeclared ==
    ASSUME job' = job
    PROVE  /\ Declared' = Declared /\ Settings' = Settings /\ Pub' = Pub
           /\ Complete' = Complete /\ Consistent' = Consistent
<1>1. Declared' = Declared
  BY DEF Declared
<1>2. Settings' = Settings
  BY <1>1 DEF Settings
<1>3. Pub' = Pub
  BY DEF Pub
<1>4. Complete' = Complete
  BY <1>1, <1>2 DEF Complete
<1>5. Consistent' = Consistent
  BY <1>1, <1>2, <1>3 DEF Consistent, Given
<1> QED BY <1>1, <1>2, <1>3, <1>4, <1>5

\* What is allowed depends on the job alone.
LEMMA SameAllowed == ASSUME job' = job PROVE \A s : Allowed(s)' = Allowed(s)
BY DEF Allowed, Pub

\* What is among the settings when one more of them is read.
LEMMA SeenNext ==
    ASSUME job' = job, NEW n \in Nat, Settings \subseteq Nat
    PROVE  /\ \A o : Seen(o, n + 1)' <=> Seen(o, n) \/ (n + 1 \in Settings /\ Declared[n + 1][1] = o)
           /\ n + 1 \in Settings => LastAt(Declared[n + 1][1], n + 1, n + 1)'
           /\ \A o, k : LastAt(o, n, k) /\ ~(n + 1 \in Settings /\ Declared[n + 1][1] = o)
                        => LastAt(o, n + 1, k)'
<1>0. Declared' = Declared /\ Settings' = Settings
  BY SameDeclared
<1>1. \A k \in Settings : k <= n + 1 <=> (k <= n \/ k = n + 1)
  OBVIOUS
<1>2. \A o : Seen(o, n + 1)' <=> Seen(o, n) \/ (n + 1 \in Settings /\ Declared[n + 1][1] = o)
  BY <1>0, <1>1 DEF Seen
<1>3. n + 1 \in Settings => LastAt(Declared[n + 1][1], n + 1, n + 1)'
  BY <1>0 DEF LastAt
<1>4. \A o, k : LastAt(o, n, k) /\ ~(n + 1 \in Settings /\ Declared[n + 1][1] = o)
                => LastAt(o, n + 1, k)'
  BY <1>0, <1>1 DEF LastAt
<1> QED BY <1>2, <1>3, <1>4

\* The owner of a field is not the setting, or the field has its value.
LEMMA FieldMoved ==
    ASSUME NEW n, Moved(n), NEW f \in Followed, NEW o, Owner(f) = o
    PROVE  \/ ~(n + 1 \in Settings /\ Declared[n + 1][1] = o) /\ cfg'[f] = cfg[f]
           \/ n + 1 \in Settings /\ Declared[n + 1][1] = o /\ opt = o
BY DEF Moved, Effect

\* A text, and a number, is the last value of its option after one more setting.
LEMMA HoldsMoved ==
    ASSUME NEW n, Moved(n), NEW p \in KeptOptions, Holds(p[1], p[2], n)
    PROVE  Holds(p[1], p[2], n + 1)'
<1> DEFINE o == p[1]  f == p[2]
<1>0. job' = job /\ n \in Nat /\ Settings \subseteq Nat /\ Declared' = Declared
  BY SameDeclared DEF Moved
<1>1. p = <<o, f>> /\ Owner(f) = o /\ f \in Followed
  BY OwnerFacts
<1> HIDE DEF o, f
<1>2. CASE ~(n + 1 \in Settings /\ Declared[n + 1][1] = o) /\ cfg'[f] = cfg[f]
  <2>1. Seen(o, n + 1)' <=> Seen(o, n)
    BY <1>0, <1>2, SeenNext
  <2>2. Holds(o, f, n)
    BY DEF o, f
  <2>3. \A k : LastAt(o, n, k) => LastAt(o, n + 1, k)'
    BY <1>0, <1>2, SeenNext
  <2>4. Holds(o, f, n + 1)'
    BY <1>0, <1>2, <2>1, <2>2, <2>3, Zenon DEF Holds
  <2> QED BY <2>4 DEF o, f
<1>3. CASE n + 1 \in Settings /\ Declared[n + 1][1] = o /\ opt = o
  <2>1. o \in WithValue
    <3>1. <<o, f>> \in KeptOptions
      BY <1>1
    <3>2. o \in DOMAIN Text \cup {"-i", "-I", "--will-topic"}
      BY <3>1, KeptFacts
    <3> QED BY <3>2 DEF WithValue
  <2>2. cfg'[f] = value /\ value = Declared[n + 1][2] /\ value # None
    BY <1>1, <1>3, <2>1 DEF Moved, ValueEffect
  <2>3. LastAt(o, n + 1, n + 1)' /\ Seen(o, n + 1)'
    BY <1>0, <1>3, SeenNext
  <2>4. Holds(o, f, n + 1)'
    BY <1>0, <2>2, <2>3, Zenon DEF Holds
  <2> QED BY <2>4 DEF o, f
<1> QED BY <1>1, <1>2, <1>3, FieldMoved

\* The same of a number.
LEMMA NumbersMoved ==
    ASSUME NEW n, Moved(n), NEW o \in DOMAIN Numeric, HoldsNumber(o, n)
    PROVE  HoldsNumber(o, n + 1)'
<1> DEFINE f == Numeric[o][1]
<1>0. job' = job /\ n \in Nat /\ Settings \subseteq Nat /\ Declared' = Declared
  BY SameDeclared DEF Moved
<1>1. Owner(f) = o /\ f \in Followed
  BY OwnerFacts DEF Followed
<1>2. HoldsNumber(o, n + 1)' <=>
        (Seen(o, n + 1)' => \E k : LastAt(o, n + 1, k)' /\ cfg'[f] = NumberOf(Declared'[k][2]))
  BY DEF HoldsNumber
<1>3. HoldsNumber(o, n) => (Seen(o, n) => \E k : LastAt(o, n, k) /\ cfg[f] = NumberOf(Declared[k][2]))
  BY DEF HoldsNumber
<1> HIDE DEF f
<1>4. CASE ~(n + 1 \in Settings /\ Declared[n + 1][1] = o) /\ cfg'[f] = cfg[f]
  <2>1. Seen(o, n + 1)' <=> Seen(o, n)
    BY <1>0, <1>4, SeenNext
  <2>2. \A k : LastAt(o, n, k) => LastAt(o, n + 1, k)'
    BY <1>0, <1>4, SeenNext
  <2> QED BY <1>0, <1>2, <1>3, <1>4, <2>1, <2>2, Zenon
<1>5. CASE n + 1 \in Settings /\ Declared[n + 1][1] = o /\ opt = o
  <2>1. o \in WithValue
    BY DEF WithValue
  <2>2. cfg'[f] = NumberOf(value) /\ value = Declared[n + 1][2]
    BY <1>5, <2>1 DEF Moved, ValueEffect, number, f
  <2>3. LastAt(o, n + 1, n + 1)' /\ Seen(o, n + 1)'
    BY <1>0, <1>5, SeenNext
  <2> QED BY <1>0, <1>2, <2>2, <2>3, Zenon
<1> QED BY <1>1, <1>4, <1>5, FieldMoved

\* The options of the fields that are neither texts nor numbers.
LEMMA FlagFields ==
    /\ {"will_retain", "clean_session", "use_srv", "topics", "protocol_version", "socks5"} \subseteq Followed
    /\ Owner("will_retain") = "--will-retain" /\ Owner("clean_session") = "-c" /\ Owner("use_srv") = "-S"
    /\ Owner("topics") = "-t" /\ Owner("protocol_version") = "-V" /\ Owner("socks5") = "--proxy"
    /\ {"-t", "-T", "-V", "--proxy", "--will-topic", "-i", "-I"} \subseteq WithValue
<1>1. /\ Owner("will_retain") = "--will-retain" /\ Owner("clean_session") = "-c" /\ Owner("use_srv") = "-S"
  BY DEF Owner
<1> QED BY <1>1, OwnerFacts DEF Followed, WithValue

\* A flag is set by its option, and by no other.
LEMMA FlagMoved ==
    ASSUME NEW n, Moved(n), NEW f \in Followed, NEW o, Owner(f) = o, NEW on, NEW off,
           ValueEffect /\ opt = o => cfg'[f] = on,
           Seen(o, n) => cfg[f] = on, ~Seen(o, n) => cfg[f] = off
    PROVE  /\ Seen(o, n + 1)' => cfg'[f] = on
           /\ ~Seen(o, n + 1)' => cfg'[f] = off
<1>0. job' = job /\ n \in Nat /\ Settings \subseteq Nat
  BY DEF Moved
<1>1. CASE ~(n + 1 \in Settings /\ Declared[n + 1][1] = o) /\ cfg'[f] = cfg[f]
  <2>1. Seen(o, n + 1)' <=> Seen(o, n)
    BY <1>0, <1>1, SeenNext
  <2> QED BY <1>1, <2>1
<1>2. CASE n + 1 \in Settings /\ Declared[n + 1][1] = o /\ opt = o
  <2>1. Seen(o, n + 1)'
    BY <1>0, <1>2, SeenNext
  <2>2. ValueEffect
    BY <1>2 DEF Moved
  <2> QED BY <1>2, <2>1, <2>2
<1> QED BY <1>1, <1>2, FieldMoved

\* The three flags after one more setting.
LEMMA FlagsMoved ==
    ASSUME NEW n, Moved(n), FlagsRead(n)
    PROVE  FlagsRead(n + 1)'
<1>0. "will_retain" \in Followed /\ "clean_session" \in Followed /\ "use_srv" \in Followed
  BY FlagFields
<1>1. /\ ValueEffect /\ opt = "--will-retain" => cfg'["will_retain"] = TRUE
      /\ ValueEffect /\ opt = "-c" => cfg'["clean_session"] = FALSE
      /\ ValueEffect /\ opt = "-S" => cfg'["use_srv"] = TRUE
  BY DEF ValueEffect
<1>2. /\ Seen("--will-retain", n + 1)' => cfg'["will_retain"] = TRUE
      /\ ~Seen("--will-retain", n + 1)' => cfg'["will_retain"] = FALSE
  BY <1>0, <1>1, FlagFields, FlagMoved, Zenon DEF FlagsRead
<1>3. /\ Seen("-c", n + 1)' => cfg'["clean_session"] = FALSE
      /\ ~Seen("-c", n + 1)' => cfg'["clean_session"] = TRUE
  <2> DEFINE on == FALSE  off == TRUE
  <2>1. /\ ValueEffect /\ opt = "-c" => cfg'["clean_session"] = on
        /\ Seen("-c", n) => cfg["clean_session"] = on
        /\ ~Seen("-c", n) => cfg["clean_session"] = off
    BY <1>1 DEF FlagsRead
  <2> HIDE DEF on, off
  <2>2. /\ Seen("-c", n + 1)' => cfg'["clean_session"] = on
        /\ ~Seen("-c", n + 1)' => cfg'["clean_session"] = off
    <3>1. Owner("clean_session") = "-c"
      BY FlagFields
    <3> QED BY <1>0, <2>1, <3>1, FlagMoved
  <2> QED BY <2>2 DEF on, off
<1>4. /\ Seen("-S", n + 1)' => cfg'["use_srv"] = TRUE
      /\ ~Seen("-S", n + 1)' => cfg'["use_srv"] = FALSE
  BY <1>0, <1>1, FlagFields, FlagMoved, Zenon DEF FlagsRead
<1> QED BY <1>2, <1>3, <1>4 DEF FlagsRead

\* The version, the proxy, the topics and the source after one more setting.
LEMMA VersionMoved ==
    ASSUME NEW n, Moved(n), VersionRead(n)
    PROVE  VersionRead(n + 1)'
<1> DEFINE f == "protocol_version"  o == "-V"
<1>0. job' = job /\ n \in Nat /\ Settings \subseteq Nat /\ Declared' = Declared
  BY SameDeclared DEF Moved
<1>1. Owner(f) = o /\ f \in Followed /\ o \in WithValue
  BY FlagFields
<1>2. VersionRead(n + 1)' <=>
        (Seen(o, n + 1)' => \E k : LastAt(o, n + 1, k)' /\ cfg'[f] = Version[Declared'[k][2]])
  BY DEF VersionRead
<1>3. VersionRead(n) => (Seen(o, n) => \E k : LastAt(o, n, k) /\ cfg[f] = Version[Declared[k][2]])
  BY DEF VersionRead
<1>4. Moved(n) /\ opt = o /\ o \in WithValue /\ n + 1 \in Settings
      => cfg'[f] = Version[value] /\ value = Declared[n + 1][2]
  BY DEF Moved, ValueEffect
<1> HIDE DEF f, o
<1>5. CASE ~(n + 1 \in Settings /\ Declared[n + 1][1] = o) /\ cfg'[f] = cfg[f]
  <2>1. Seen(o, n + 1)' <=> Seen(o, n)
    BY <1>0, <1>5, SeenNext
  <2>2. \A k : LastAt(o, n, k) => LastAt(o, n + 1, k)'
    BY <1>0, <1>5, SeenNext
  <2> QED BY <1>0, <1>2, <1>3, <1>5, <2>1, <2>2, Zenon
<1>6. CASE n + 1 \in Settings /\ Declared[n + 1][1] = o /\ opt = o
  <2>1. LastAt(o, n + 1, n + 1)' /\ Seen(o, n + 1)'
    BY <1>0, <1>6, SeenNext
  <2> QED BY <1>0, <1>1, <1>2, <1>4, <1>6, <2>1, Zenon
<1> QED BY <1>1, <1>5, <1>6, FieldMoved

\* There is one url, so that a proxy is the same whichever option gave it.
LEMMA ProxyMoved ==
    ASSUME NEW n, Moved(n), ProxyRead(n)
    PROVE  ProxyRead(n + 1)'
<1> DEFINE f == "socks5"  o == "--proxy"
<1>0. job' = job /\ n \in Nat /\ Settings \subseteq Nat
  BY DEF Moved
<1>1. Owner(f) = o /\ f \in Followed
  BY FlagFields
<1>2. Proxy' = Proxy /\ job'.url = job.url
  BY <1>0 DEF Proxy
<1>3. CASE ~(n + 1 \in Settings /\ Declared[n + 1][1] = o) /\ cfg'[f] = cfg[f]
  <2>1. Seen(o, n + 1)' <=> Seen(o, n)
    BY <1>0, <1>3, SeenNext
  <2> QED BY <1>2, <1>3, <2>1 DEF ProxyRead
<1>4. CASE n + 1 \in Settings /\ Declared[n + 1][1] = o /\ opt = o
  <2>1. ValueEffect
    BY <1>4 DEF Moved
  <2> QED BY <1>2, <1>4, <2>1 DEF ValueEffect, ProxyOk, ProxyRead
<1> QED BY <1>1, <1>3, <1>4, FieldMoved

\* mosquitto_sub has one topic more when the setting is a topic.
LEMMA TopicsMoved ==
    ASSUME NEW n, Moved(n), TopicsRead(n)
    PROVE  TopicsRead(n + 1)'
<1> DEFINE f == "topics"  o == "-t"
<1>0. /\ job' = job /\ n \in Nat /\ Settings \subseteq Nat
      /\ Declared' = Declared /\ Settings' = Settings /\ Pub' = Pub
  BY SameDeclared DEF Moved
<1>1. Owner(f) = o /\ f \in Followed /\ o \in WithValue
  BY FlagFields
<1> SUFFICES ASSUME ~Pub
             PROVE  /\ cfg'.topics \in Seq(STRING)
                    /\ \A k : TopicAt(n + 1, k)' =>
                          \E i \in DOMAIN cfg'.topics : cfg'.topics[i] = Declared[k][2]
                    /\ \A i \in DOMAIN cfg'.topics :
                          \E k : TopicAt(n + 1, k)' /\ cfg'.topics[i] = Declared[k][2]
  BY <1>0 DEF TopicsRead
<1>2. /\ cfg.topics \in Seq(STRING)
      /\ \A k : TopicAt(n, k) => \E i \in DOMAIN cfg.topics : cfg.topics[i] = Declared[k][2]
      /\ \A i \in DOMAIN cfg.topics : \E k : TopicAt(n, k) /\ cfg.topics[i] = Declared[k][2]
  BY DEF TopicsRead
<1>3. \A k : TopicAt(n + 1, k)' <=>
          TopicAt(n, k) \/ (k = n + 1 /\ n + 1 \in Settings /\ Declared[n + 1][1] = o)
  BY <1>0 DEF TopicAt
<1>4. CASE ~(n + 1 \in Settings /\ Declared[n + 1][1] = o) /\ cfg'[f] = cfg[f]
  <2>1. cfg'.topics = cfg.topics
    BY <1>4
  <2>2. \A k : TopicAt(n + 1, k)' <=> TopicAt(n, k)
    BY <1>3, <1>4
  <2>3. cfg'.topics \in Seq(STRING)
    BY <1>2, <2>1
  <2>4. \A k : TopicAt(n + 1, k)' => \E i \in DOMAIN cfg'.topics : cfg'.topics[i] = Declared[k][2]
    BY <1>2, <2>1, <2>2, Zenon
  <2>5. \A i \in DOMAIN cfg'.topics : \E k : TopicAt(n + 1, k)' /\ cfg'.topics[i] = Declared[k][2]
    <3> TAKE i \in DOMAIN cfg'.topics
    <3>1. PICK k : TopicAt(n, k) /\ cfg.topics[i] = Declared[k][2]
      BY <1>2, <2>1
    <3> QED BY <2>1, <2>2, <3>1
  <2> QED BY <2>3, <2>4, <2>5
<1>5. CASE n + 1 \in Settings /\ Declared[n + 1][1] = o /\ opt = o
  <2> DEFINE old == cfg.topics  new == cfg'.topics  v == Declared[n + 1][2]
  <2>1. new = Append(old, v) /\ v \in STRING
    BY <1>1, <1>5 DEF Moved, ValueEffect
  <2>2. /\ old \in Seq(STRING)
        /\ \A k : TopicAt(n, k) => \E i \in DOMAIN old : old[i] = Declared[k][2]
        /\ \A i \in DOMAIN old : \E k : TopicAt(n, k) /\ old[i] = Declared[k][2]
    BY <1>2
  <2>a. \A k : TopicAt(n + 1, k)' <=> TopicAt(n, k) \/ k = n + 1
    BY <1>3, <1>5
  <2>b. v = Declared[n + 1][2]
    OBVIOUS
  <2> HIDE DEF old, new, v
  <2>c. Len(old) \in Nat /\ DOMAIN old = 1..Len(old)
    BY <2>2
  <2> DEFINE W == STRING
  <2>f. v \in W /\ old \in Seq(W)
    BY <2>1, <2>2
  <2> HIDE DEF W
  <2>g. /\ Append(old, v) \in Seq(W) /\ Len(Append(old, v)) = Len(old) + 1
        /\ \A i \in 1..Len(old) : Append(old, v)[i] = old[i]
        /\ Append(old, v)[Len(old) + 1] = v
    BY <2>f, AppendProperties
  <2>h. new \in Seq(W) /\ Len(new) = Len(old) + 1
    BY <2>1, <2>g
  <2>d. new \in Seq(W) /\ DOMAIN new = 1..(Len(old) + 1)
    BY <2>h
  <2>e. new[Len(old) + 1] = v /\ \A i \in 1..Len(old) : new[i] = old[i]
    BY <2>1, <2>g
  <2>3. /\ Len(old) + 1 \in DOMAIN new /\ new[Len(old) + 1] = v
        /\ \A i \in DOMAIN old : i \in DOMAIN new /\ new[i] = old[i]
        /\ \A i \in DOMAIN new : i \in DOMAIN old \/ i = Len(old) + 1
    BY <2>c, <2>d, <2>e
  <2>4. \A k : TopicAt(n + 1, k)' => \E i \in DOMAIN new : new[i] = Declared[k][2]
    BY <2>2, <2>a, <2>b, <2>3, Zenon
  <2>5. ASSUME NEW i \in DOMAIN new PROVE \E k : TopicAt(n + 1, k)' /\ new[i] = Declared[k][2]
    <3>1. CASE i \in DOMAIN old
      <4>1. PICK k : TopicAt(n, k) /\ old[i] = Declared[k][2]
        BY <2>2, <3>1
      <4>2. TopicAt(n + 1, k)' /\ new[i] = Declared[k][2]
        BY <2>a, <2>3, <3>1, <4>1
      <4> QED BY <4>2
    <3>2. CASE i = Len(old) + 1
      BY <2>a, <2>b, <2>3, <3>2, Zenon
    <3> QED BY <2>3, <3>1, <3>2
  <2> QED BY <2>d, <2>4, <2>5 DEF new, W
<1> QED BY <1>1, <1>4, <1>5, FieldMoved

\* A second source of the message is not taken, so that there is at most one.
LEMMA SourcesMoved ==
    ASSUME NEW n, Moved(n), SourcesRead(n)
    PROVE  SourcesRead(n + 1)'
<1>0. /\ job' = job /\ n \in Nat /\ Settings \subseteq Nat
      /\ Declared' = Declared /\ Settings' = Settings
  BY SameDeclared DEF Moved
<1>1. \A k : SourceAt(n + 1, k)' <=>
          SourceAt(n, k) \/ (k = n + 1 /\ n + 1 \in Settings /\ Declared[n + 1][1] \in Sources)
  <2>1. Sources' = Sources
    BY DEF Sources
  <2>2. \A k \in Settings : k <= n + 1 <=> (k <= n \/ k = n + 1)
    BY <1>0
  <2> QED BY <1>0, <2>1, <2>2, Zenon DEF SourceAt
<1>2. CASE ~(n + 1 \in Settings /\ Declared[n + 1][1] \in Sources)
  <2>1. cfg'.pub_mode = cfg.pub_mode
    BY <1>2 DEF Moved, Effect
  <2> QED BY <1>1, <1>2, <2>1 DEF SourcesRead
<1>3. CASE n + 1 \in Settings /\ Declared[n + 1][1] \in Sources
  <2>1. cfg.pub_mode = "NONE" /\ cfg'.pub_mode # "NONE"
    BY <1>3 DEF Moved, ValueEffect, OnlySource
  <2>2. \A k : ~SourceAt(n, k)
    BY <2>1 DEF SourcesRead
  <2> QED BY <1>1, <1>3, <2>1, <2>2 DEF SourcesRead
<1> QED BY <1>2, <1>3

\* A word is some number, 0 when it is none.
LEMMA NumbersAreInt == \A w : NumberOf(w) \in Int
BY ConfigAssumption DEF NumberOf

\* An option that is taken is allowed.
LEMMA TakenAllowed ==
    ASSUME NEW n, Moved(n), n + 1 \in Settings
    PROVE  Allowed(Declared[n + 1])
<1> DEFINE s == Declared[n + 1]
<1>1. /\ opt = s[1] /\ Effect /\ ValueEffect /\ Permitted
      /\ opt \in WithValue => value = s[2]
  BY DEF Moved
<1> HIDE DEF s
<1>2. opt \in Offered(job.program)
  BY <1>1 DEF Effect, Applies
<1>3. opt \in DOMAIN Numeric => NumberOf(s[2]) >= Numeric[opt][2] /\ NumberOf(s[2]) <= Numeric[opt][3]
  <2> SUFFICES ASSUME opt \in DOMAIN Numeric
               PROVE  NumberOf(s[2]) >= Numeric[opt][2] /\ NumberOf(s[2]) <= Numeric[opt][3]
    OBVIOUS
  <2>1. value = s[2] /\ InRange(opt)
    BY <1>1 DEF ValueEffect, WithValue
  <2>2. NumberOf(s[2]) \in Numeric[opt][2]..Numeric[opt][3]
    BY <2>1 DEF InRange, number
  <2> QED BY <2>2
<1>4. /\ opt \in {"--will-topic"} \cup (IF Pub THEN {"-t"} ELSE {}) => s[2] \notin BadPubTopics
      /\ opt \in {"-T"} \cup (IF Pub THEN {} ELSE {"-t"}) => s[2] \notin BadSubTopics
  BY <1>1, FlagFields DEF Permitted
<1>5. opt = "-V" => s[2] \in DOMAIN Version
  BY <1>1, FlagFields DEF ValueEffect
<1>6. opt = "--proxy" => s[2] = "URL" /\ Proxy[job.url].ok
  BY <1>1, FlagFields DEF ValueEffect, ProxyOk
<1> QED BY <1>1, <1>2, <1>3, <1>4, <1>5, <1>6, Zenon DEF Allowed, s

\* What is allowed one by one is allowed together.
LEMMA AllowedMoved ==
    ASSUME NEW n, Moved(n), AllowedRead(n),
           Holds("-i", "id", n), Holds("-I", "id_prefix", n)
    PROVE  AllowedRead(n + 1)'
<1>0. /\ job' = job /\ n \in Nat /\ Settings \subseteq Nat
      /\ Declared' = Declared /\ Settings' = Settings
  BY SameDeclared DEF Moved
<1>1. \A k \in Settings' : k <= n + 1 => Allowed(Declared[k])'
  <2>1. \A k \in Settings : k <= n + 1 => Allowed(Declared[k])
    <3>1. \A k \in Settings : k <= n + 1 => (k <= n \/ (k = n + 1 /\ n + 1 \in Settings))
      BY <1>0
    <3> QED BY <3>1, TakenAllowed DEF AllowedRead
  <2>2. \A s : Allowed(s)' = Allowed(s)
    BY <1>0, SameAllowed
  <2> QED BY <1>0, <2>1, <2>2
<1>2. ~(Seen("-i", n + 1)' /\ Seen("-I", n + 1)')
  <2>1. /\ n + 1 \in Settings /\ Declared[n + 1][1] = "-i" => ~Seen("-I", n)
        /\ n + 1 \in Settings /\ Declared[n + 1][1] = "-I" => ~Seen("-i", n)
    BY DEF Moved, Permitted, Holds
  <2> QED BY <1>0, <2>1, SeenNext DEF AllowedRead
<1> QED BY <1>0, <1>1, <1>2 DEF AllowedRead

-----------------------------------------------------------------------------
(* The settings one after the other *)

\* All of the configuration is settled by the first n settings.
HoldsAll(n) == \A p \in KeptOptions : Holds(p[1], p[2], n)
NumbersAll(n) == \A o \in DOMAIN Numeric : HoldsNumber(o, n)
Settled(n) ==
    /\ HoldsAll(n) /\ NumbersAll(n)
    /\ FlagsRead(n) /\ VersionRead(n) /\ ProxyRead(n) /\ TopicsRead(n) /\ SourcesRead(n)
    /\ AllowedRead(n)

\* The lines that are left are those from the m-th setting on; n settings have been
\* processed, and the words are those of the next one.
Incoming(line) == IF pc = "FILE" THEN LineWords(line) ELSE line
Fetched(m) ==
    /\ lines \in Seq(Seq(STRING))
    /\ m + Len(lines) = IF pc = "FILE" THEN Len(job.file) ELSE Len(Declared)
    /\ \A k \in 1..Len(lines) : Incoming(lines[k]) = Declared[m + k]
ReadTo(n) ==
    \/ words = <<>> /\ Fetched(n)
    \/ words # <<>> /\ n + 1 \in Settings /\ words = Declared[n + 1] /\ Fetched(n + 1)

\* The tables do not change.
LEMMA TablesFixed == KeptOptions' = KeptOptions /\ Numeric' = Numeric /\ Sources' = Sources
BY DEF KeptOptions, TextOptions, Numeric, NumericOptions, FunctionOf, Sources, Source, SourceText

\* Three options that the checks on the whole ask for.
LEMMA HoldsKept ==
    /\ <<"-i", "id">> \in KeptOptions /\ <<"-I", "id_prefix">> \in KeptOptions
    /\ <<"--will-topic", "will_topic">> \in KeptOptions
    /\ \A n, o, f : HoldsAll(n) /\ <<o, f>> \in KeptOptions => Holds(o, f, n)
BY DEF HoldsAll, KeptOptions

\* The configuration stays settled when a setting is read, and when nothing is.
LEMMA SettledMoved ==
    ASSUME NEW n, Moved(n), Settled(n)
    PROVE  Settled(n + 1)'
<1>1. HoldsAll(n + 1)'
  <2>1. \A p \in KeptOptions : Holds(p[1], p[2], n + 1)'
    BY HoldsMoved DEF Settled, HoldsAll
  <2> QED BY <2>1, TablesFixed DEF HoldsAll
<1>2. NumbersAll(n + 1)'
  <2>1. \A o \in DOMAIN Numeric : HoldsNumber(o, n + 1)'
    BY NumbersMoved DEF Settled, NumbersAll
  <2> QED BY <2>1, TablesFixed DEF NumbersAll
<1>3. AllowedRead(n + 1)'
  <2>1. Holds("-i", "id", n) /\ Holds("-I", "id_prefix", n)
    BY HoldsKept DEF Settled
  <2> QED BY <2>1, AllowedMoved DEF Settled
<1> QED BY <1>1, <1>2, <1>3, FlagsMoved, VersionMoved, ProxyMoved, TopicsMoved, SourcesMoved
        DEF Settled

\* A step that leaves the configuration alone leaves it settled.
LEMMA SettledSame ==
    ASSUME job' = job, cfg' = cfg, NEW n, Settled(n)
    PROVE  Settled(n)'
<1>0. Declared' = Declared /\ Settings' = Settings /\ Pub' = Pub
  BY SameDeclared
<1>1. \A o : Seen(o, n)' <=> Seen(o, n)
  BY <1>0 DEF Seen
<1>2. \A o, k : LastAt(o, n, k)' <=> LastAt(o, n, k)
  BY <1>0 DEF LastAt
<1>3. \A o, f : Holds(o, f, n) => Holds(o, f, n)'
  BY <1>0, <1>1, <1>2, Zenon DEF Holds
<1>4. HoldsAll(n)'
  BY <1>3, TablesFixed DEF HoldsAll, Settled
<1>5. \A o : HoldsNumber(o, n) => HoldsNumber(o, n)'
  <2> SUFFICES ASSUME NEW o, HoldsNumber(o, n) PROVE HoldsNumber(o, n)'
    OBVIOUS
  <2>1. Seen(o, n)' => \E k : LastAt(o, n, k)' /\ cfg'[Numeric[o][1]] = NumberOf(Declared'[k][2])
    BY <1>0, <1>1, <1>2, Zenon DEF HoldsNumber
  <2> QED BY <2>1, TablesFixed DEF HoldsNumber
<1>6. NumbersAll(n)'
  BY <1>5, TablesFixed DEF NumbersAll, Settled
<1>7. FlagsRead(n)' /\ ProxyRead(n)'
  <2>1. Proxy' = Proxy
    BY DEF Proxy
  <2> QED BY <1>1, <2>1 DEF FlagsRead, ProxyRead, Settled
<1>8. VersionRead(n)'
  BY <1>0, <1>1, <1>2, Zenon DEF VersionRead, Settled
<1>9. TopicsRead(n)' /\ SourcesRead(n)'
  <2>1. \A k : (TopicAt(n, k)' <=> TopicAt(n, k)) /\ (SourceAt(n, k)' <=> SourceAt(n, k))
    BY <1>0, TablesFixed DEF TopicAt, SourceAt
  <2> QED BY <1>0, <2>1, Zenon DEF TopicsRead, SourcesRead, Settled
<1>10. AllowedRead(n)'
  <2>1. \A s : Allowed(s)' = Allowed(s)
    BY SameAllowed
  <2> QED BY <1>0, <1>1, <2>1 DEF AllowedRead, Settled
<1> QED BY <1>4, <1>6, <1>7, <1>8, <1>9, <1>10 DEF Settled

-----------------------------------------------------------------------------

\* The words of a line are words.
LEMMA LineWordsType ==
    ASSUME NEW line \in Seq(STRING), None \notin Range(line)
    PROVE  /\ LineWords(line) \in Seq(STRING)
           /\ \A i \in DOMAIN LineWords(line) : LineWords(line)[i] # None
<1> DEFINE m == IF Len(line) < 2 THEN Len(line) ELSE 2
<1>1. m \in 0..Len(line)
  OBVIOUS
<1>2. \A i \in DOMAIN line : line[i] # None
  BY DEF Range
<1> HIDE DEF m
<1>3. /\ SubSeq(line, 1, m) \in Seq(STRING) /\ DOMAIN SubSeq(line, 1, m) = 1..m
      /\ \A i \in 1..m : SubSeq(line, 1, m)[i] = line[i]
  BY <1>1
<1>4. \A i \in 1..m : i \in DOMAIN line
  BY <1>1
<1>5. LineWords(line) = <<>> \/ LineWords(line) = SubSeq(line, 1, m)
  BY DEF LineWords, m
<1>6. CASE LineWords(line) = <<>>
  BY <1>6
<1>7. CASE LineWords(line) = SubSeq(line, 1, m)
  BY <1>2, <1>3, <1>4, <1>7
<1> QED BY <1>5, <1>6, <1>7

\* What is declared: the words of the lines, and then the settings of argv.
LEMMA DeclaredFacts ==
    ASSUME job \in Jobs
    PROVE  /\ job.file \in Seq(Seq(STRING)) /\ job.argv \in Seq(Seq(STRING))
           /\ Declared \in Seq(Seq(STRING))
           /\ Len(Declared) = Len(job.file) + Len(job.argv)
           /\ \A k \in 1..Len(job.file) : Declared[k] = LineWords(job.file[k])
           /\ \A k \in 1..Len(job.argv) : Declared[Len(job.file) + k] = job.argv[k]
           /\ Settings = {k \in 1..Len(Declared) : Declared[k] # <<>>} /\ Settings \subseteq Nat
           /\ \A k \in Settings : \A i \in DOMAIN Declared[k] : Declared[k][i] # None
<1>1. /\ job.file \in Seq(Seq(STRING)) /\ job.argv \in Seq(Seq(STRING))
      /\ \A s \in Range(job.file) \cup Range(job.argv) : None \notin Range(s)
  BY ConfigAssumption
<1> DEFINE a == [k \in DOMAIN job.file |-> LineWords(job.file[k])]  b == job.argv
           W == Seq(STRING)
<1>2. \A k \in DOMAIN job.file : /\ LineWords(job.file[k]) \in Seq(STRING)
                                 /\ \A i \in DOMAIN LineWords(job.file[k]) : LineWords(job.file[k])[i] # None
  <2> SUFFICES ASSUME NEW k \in DOMAIN job.file
               PROVE  /\ LineWords(job.file[k]) \in Seq(STRING)
                      /\ \A i \in DOMAIN LineWords(job.file[k]) : LineWords(job.file[k])[i] # None
    OBVIOUS
  <2>1. job.file[k] \in Seq(STRING) /\ None \notin Range(job.file[k])
    <3>1. job.file[k] \in Range(job.file)
      BY DEF Range
    <3> QED BY <1>1, <3>1
  <2> QED BY <2>1, LineWordsType
<1>3. a \in Seq(W) /\ Len(a) = Len(job.file) /\ \A k \in 1..Len(a) : a[k] = LineWords(job.file[k])
  <2>1. DOMAIN job.file = 1..Len(job.file) /\ Len(job.file) \in Nat
    BY <1>1
  <2> HIDE DEF W
  <2>2. \A k \in 1..Len(job.file) : LineWords(job.file[k]) \in W
    BY <1>2, <2>1 DEF W
  <2>3. a \in [1..Len(job.file) -> W]
    BY <2>1, <2>2
  <2>4. a \in Seq(W)
    BY <2>1, <2>3
  <2> QED BY <2>1, <2>3, <2>4
<1>4. b \in Seq(W) /\ \A k \in 1..Len(b) : \A i \in DOMAIN b[k] : b[k][i] # None
  <2> SUFFICES ASSUME NEW k \in 1..Len(b), NEW i \in DOMAIN b[k] PROVE b[k][i] # None
    BY <1>1
  <2>1. b[k] \in Range(b)
    BY <1>1 DEF Range
  <2>2. None \notin Range(b[k])
    BY <1>1, <2>1
  <2> QED BY <2>2 DEF Range
<1>5. Declared = a \o b
  BY DEF Declared
<1>a. \A k \in 1..Len(a) : \A i \in DOMAIN a[k] : a[k][i] # None
  <2>1. DOMAIN job.file = 1..Len(job.file)
    BY <1>1
  <2> HIDE DEF a
  <2> QED BY <1>2, <1>3, <2>1
<1> HIDE DEF a, b, W
<1>6. /\ Declared \in Seq(W) /\ Len(Declared) = Len(a) + Len(b)
      /\ \A i \in 1..(Len(a) + Len(b)) : Declared[i] = IF i <= Len(a) THEN a[i] ELSE b[i - Len(a)]
  <2>1. a \in Seq(W) /\ b \in Seq(W)
    BY <1>3, <1>4
  <2> QED BY <1>5, <2>1, ConcatProperties
<1>7. Len(a) \in Nat /\ Len(b) \in Nat
  BY <1>3, <1>4
<1>8. /\ \A k \in 1..Len(a) : Declared[k] = a[k]
      /\ \A k \in 1..Len(b) : Declared[Len(a) + k] = b[k]
  <2> DEFINE m == Len(a)  n == Len(b)  d == Declared
  <2>1. m \in Nat /\ n \in Nat /\ \A i \in 1..(m + n) : d[i] = IF i <= m THEN a[i] ELSE b[i - m]
    BY <1>6, <1>7
  <2> HIDE DEF m, n, d
  <2>2. ASSUME NEW k \in 1..m PROVE d[k] = a[k]
    <3>1. k \in 1..(m + n) /\ k <= m
      BY <2>1
    <3> QED BY <2>1, <3>1
  <2>3. ASSUME NEW k \in 1..n PROVE d[m + k] = b[k]
    <3>1. m + k \in 1..(m + n) /\ ~(m + k <= m) /\ (m + k) - m = k
      BY <2>1
    <3>2. d[m + k] = b[(m + k) - m]
      BY <2>1, <3>1
    <3> QED BY <3>1, <3>2
  <2> QED BY <2>2, <2>3 DEF m, n, d
<1>9. Settings = {k \in 1..Len(Declared) : Declared[k] # <<>>} /\ Settings \subseteq Nat
  BY <1>6, <1>7 DEF Settings
<1>10. ASSUME NEW k \in Settings PROVE \A i \in DOMAIN Declared[k] : Declared[k][i] # None
  <2>1. k \in 1..(Len(a) + Len(b))
    BY <1>6, <1>9
  <2>2. CASE k \in 1..Len(a)
    BY <1>8, <1>a, <2>2
  <2>3. CASE k - Len(a) \in 1..Len(b)
    <3>1. Declared[k] = b[k - Len(a)]
      BY <1>6, <1>7, <2>1, <2>3
    <3> QED BY <1>4, <2>3, <3>1
  <2> QED BY <1>7, <2>1, <2>2, <2>3
<1> QED BY <1>1, <1>3, <1>6, <1>8, <1>9, <1>10 DEF b, W

\* The inductive invariant of the reading: as far as the settings have been read, they
\* are what the configuration holds.
Reading ==
    pc \in Configuring /\ Complete => \E n \in 0..Len(Declared) : ReadTo(n) /\ Settled(n)

\* A setting is a sequence of words that are there.
LEMMA SettingFacts ==
    ASSUME job \in Jobs, NEW k \in Settings
    PROVE  /\ k \in 1..Len(Declared) /\ Declared[k] \in Seq(STRING) /\ Declared[k] # <<>>
           /\ \A i \in DOMAIN Declared[k] : Declared[k][i] # None
<1>1. Settings = {i \in 1..Len(Declared) : Declared[i] # <<>>}
  BY DeclaredFacts
<1>2. k \in 1..Len(Declared) /\ Declared[k] # <<>>
  BY <1>1
<1>3. Declared \in Seq(Seq(STRING))
  BY DeclaredFacts
<1>4. \A i \in DOMAIN Declared[k] : Declared[k][i] # None
  BY DeclaredFacts
<1> QED BY <1>2, <1>3, <1>4

\* How many settings there are.
LEMMA Lengths ==
    ASSUME job \in Jobs
    PROVE  /\ Len(job.file) \in Nat /\ Len(job.argv) \in Nat /\ Len(Declared) \in Nat
           /\ Len(Declared) = Len(job.file) + Len(job.argv)
<1> DEFINE W == Seq(STRING)
<1>1. job.file \in Seq(W) /\ job.argv \in Seq(W)
  BY DeclaredFacts
<1>2. Len(Declared) = Len(job.file) + Len(job.argv)
  BY DeclaredFacts
<1> HIDE DEF W
<1>3. Len(job.file) \in Nat /\ Len(job.argv) \in Nat
  BY <1>1
<1>4. Len(Declared) \in Nat
  <2> DEFINE a == Len(job.file)  b == Len(job.argv)  c == Len(Declared)
  <2>1. a \in Nat /\ b \in Nat /\ c = a + b
    BY <1>2, <1>3
  <2> HIDE DEF a, b, c
  <2>2. c \in Nat
    BY <2>1
  <2> QED BY <2>2 DEF c
<1> QED BY <1>2, <1>3, <1>4

\* The words are an option and, if it takes one, its value.
LEMMA WordsFacts ==
    ASSUME job \in Jobs, Complete, NEW n \in Nat, n + 1 \in Settings, words = Declared[n + 1]
    PROVE  /\ words \in Seq(STRING) /\ Len(words) = IF opt \in WithValue THEN 2 ELSE 1
           /\ opt = Declared[n + 1][1] /\ ~LacksValue
           /\ opt \in WithValue => value = Declared[n + 1][2] /\ value # None /\ value \in STRING
<1>1. words \in Seq(STRING) /\ words # <<>> /\ \A i \in DOMAIN words : words[i] # None
  BY SettingFacts
<1>2. opt = Declared[n + 1][1]
  BY <1>1 DEF opt
<1>3. Len(words) = IF opt \in WithValue THEN 2 ELSE 1
  BY <1>2 DEF Complete
<1>4. opt \in WithValue => value = Declared[n + 1][2] /\ value # None /\ value \in STRING
  BY <1>1, <1>3 DEF value
<1>5. ~LacksValue
  BY <1>3 DEF LacksValue
<1> QED BY <1>1, <1>2, <1>3, <1>4, <1>5

\* What has been fetched is the same while the lines are.
LEMMA FetchedSame ==
    ASSUME job' = job, pc' = pc, lines' = lines, NEW m, Fetched(m)
    PROVE  Fetched(m)'
<1>1. Declared' = Declared
  BY SameDeclared
<1> QED BY <1>1 DEF Fetched, Incoming

\* An option is processed: one more setting is read.
LEMMA OptionReads ==
    ASSUME job \in Jobs, HasFields, Complete, client_config_line_proc, pc' # "REFUSED",
           NEW n \in Nat, n + 1 \in Settings, words = Declared[n + 1], Fetched(n + 1), Settled(n)
    PROVE  ReadTo(n + 1)' /\ Settled(n + 1)'
<1>1. Effect /\ ValueEffect /\ Permitted
  BY OptionEffect
<1>2. Moved(n)
  BY <1>1, WordsFacts, DeclaredFacts DEF Moved, Effect
<1>3. words' = <<>>
  <2>1. words' = SubSeq(words, IF opt \in WithValue THEN 3 ELSE 2, Len(words))
    BY <1>1 DEF Effect
  <2>2. words \in Seq(STRING) /\ Len(words) = IF opt \in WithValue THEN 2 ELSE 1
    BY WordsFacts
  <2>3. CASE opt \in WithValue
    BY <2>1, <2>2, <2>3
  <2>4. CASE opt \notin WithValue
    BY <2>1, <2>2, <2>4
  <2> QED BY <2>3, <2>4
<1>4. Fetched(n + 1)'
  BY <1>1, FetchedSame DEF Effect
<1> QED BY <1>2, <1>3, <1>4, SettledMoved DEF ReadTo

\* The next line of the file or the next setting of the command line is fetched.
LEMMA NextFetched ==
    ASSUME job \in Jobs, NEW n \in Nat, Fetched(n), lines # <<>>,
           job' = job, pc' = pc, lines' = Tail(lines)
    PROVE  /\ Fetched(n + 1)' /\ n + 1 \in 1..Len(Declared)
           /\ Incoming(Head(lines)) = Declared[n + 1] /\ Head(lines) \in Seq(STRING)
<1> DEFINE W == Seq(STRING)
<1>1. /\ lines \in Seq(W)
      /\ n + Len(lines) = IF pc = "FILE" THEN Len(job.file) ELSE Len(Declared)
      /\ \A k \in 1..Len(lines) : Incoming(lines[k]) = Declared[n + k]
  BY DEF Fetched
<1>2. Len(job.file) \in Nat /\ Len(job.argv) \in Nat /\ Len(Declared) = Len(job.file) + Len(job.argv)
  BY Lengths
<1> HIDE DEF W
<1>3. /\ Len(lines) \in Nat /\ Len(lines) >= 1
      /\ Head(lines) = lines[1] /\ Head(lines) \in W
      /\ lines' \in Seq(W) /\ Len(lines') = Len(lines) - 1
      /\ \A k \in 1..Len(lines') : lines'[k] = lines[k + 1]
  BY <1>1
<1>4. n + 1 \in 1..Len(Declared)
  <2> DEFINE a == Len(job.file)  b == Len(job.argv)  c == Len(Declared)  l == Len(lines)
  <2>1. a \in Nat /\ b \in Nat /\ c = a + b /\ l \in Nat /\ l >= 1
    BY <1>2, <1>3
  <2>2. n + l = a \/ n + l = c
    BY <1>1
  <2> HIDE DEF a, b, c, l
  <2>3. n + 1 \in 1..c
    BY <2>1, <2>2
  <2> QED BY <2>3 DEF c
<1>5. Incoming(Head(lines)) = Declared[n + 1]
  BY <1>1, <1>3
<1>6. \A line : Incoming(line)' = Incoming(line)
  BY DEF Incoming
<1>7. \A k \in 1..Len(lines') : Incoming(lines[k + 1]) = Declared[n + 1 + k]
  <2> SUFFICES ASSUME NEW k \in 1..Len(lines') PROVE Incoming(lines[k + 1]) = Declared[n + 1 + k]
    OBVIOUS
  <2>1. k + 1 \in 1..Len(lines) /\ n + (k + 1) = n + 1 + k
    BY <1>3
  <2> QED BY <1>1, <2>1
<1>8. n + 1 + Len(lines') = n + Len(lines)
  BY <1>3
<1>9. Declared' = Declared
  BY SameDeclared
<1>10. Fetched(n + 1)' <=>
          /\ lines' \in Seq(W)
          /\ n + 1 + Len(lines') = IF pc = "FILE" THEN Len(job.file) ELSE Len(Declared)
          /\ \A k \in 1..Len(lines') : Incoming(lines[k])' = Declared[n + 1 + k]
  BY <1>9 DEF Fetched, W
<1>11. \A k \in 1..Len(lines') : Incoming(lines[k])' = Declared[n + 1 + k]
  <2> SUFFICES ASSUME NEW k \in 1..Len(lines') PROVE Incoming(lines[k])' = Declared[n + 1 + k]
    OBVIOUS
  <2>1. lines'[k] = lines[k + 1]
    BY <1>3
  <2>2. Incoming(lines[k])' = Incoming(lines[k + 1])
    BY <2>1 DEF Incoming
  <2> QED BY <1>7, <2>2
<1> QED BY <1>1, <1>3, <1>4, <1>5, <1>8, <1>10, <1>11 DEF W

\* The next line, or the next word of argv, is fetched: what was read stays read.
LEMMA LineReads ==
    ASSUME job \in Jobs, Complete, NEW n \in Nat, Fetched(n), Settled(n), lines # <<>>,
           words = <<>>, job' = job, pc' = pc, cfg' = cfg, lines' = Tail(lines),
           words' = Incoming(Head(lines))
    PROVE  \E i \in {n, n + 1} : ReadTo(i)' /\ Settled(i)'
<1>1. Fetched(n + 1)' /\ n + 1 \in 1..Len(Declared) /\ words' = Declared[n + 1]
  BY NextFetched
<1>2. Declared' = Declared /\ Settings' = Settings
  BY SameDeclared
<1>3. CASE words' = <<>>
  <2>1. n + 1 \notin Settings
    BY <1>1, <1>3 DEF Settings
  <2>2. Moved(n)
    BY <2>1, DeclaredFacts DEF Moved
  <2> QED BY <1>1, <1>3, <2>2, SettledMoved DEF ReadTo
<1>4. CASE words' # <<>>
  <2>1. n + 1 \in Settings
    BY <1>1, <1>4, DeclaredFacts
  <2>2. ReadTo(n)'
    BY <1>1, <1>2, <1>4, <2>1 DEF ReadTo
  <2> QED BY <2>2, SettledSame
<1> QED BY <1>3, <1>4

\* Every step of the reading keeps its invariant.
LEMMA ReadingStep ==
    ASSUME job \in Jobs, HasFields, Reading, Configure
    PROVE  Reading'
<1> SUFFICES ASSUME Complete, pc' \in Configuring
             PROVE  \E n \in 0..Len(Declared) : ReadTo(n)' /\ Settled(n)'
  <2>1. job' = job
    BY ConfigureMoves
  <2>2. Declared' = Declared /\ Complete' = Complete
    BY <2>1, SameDeclared
  <2>3. Configuring' = Configuring
    BY DEF Configuring
  <2> QED BY <2>2, <2>3 DEF Reading
<1>1. job' = job /\ pc \in Configuring /\ pc' # "REFUSED"
  BY ConfigureMoves DEF Configuring
<1>2. PICK n \in 0..Len(Declared) : ReadTo(n) /\ Settled(n)
  BY <1>1 DEF Reading
<1>3. n \in Nat /\ Len(Declared) \in Nat /\ (n + 1 \in Settings => n + 1 \in 0..Len(Declared))
  <2>1. n \in Nat /\ Len(Declared) \in Nat
    BY Lengths
  <2>2. n + 1 \in Settings => n + 1 \in 1..Len(Declared)
    BY SettingFacts
  <2> QED BY <2>1, <2>2
<1>4. CASE client_config_line_proc
  <2>1. Effect
    BY <1>1, <1>4, OptionEffect
  <2>2. words # <<>>
    BY <2>1 DEF Effect, Applies
  <2>3. n + 1 \in Settings /\ words = Declared[n + 1] /\ Fetched(n + 1)
    BY <1>2, <2>2 DEF ReadTo
  <2>4. ReadTo(n + 1)' /\ Settled(n + 1)'
    BY <1>1, <1>2, <1>3, <1>4, <2>3, OptionReads
  <2> QED BY <1>3, <2>3, <2>4
<1>5. CASE NextLine \/ NextArgument
  <2>1. /\ lines # <<>> /\ pc' = pc /\ cfg' = cfg /\ lines' = Tail(lines)
        /\ words = <<>> \/ LacksValue
    BY <1>5 DEF NextLine, NextArgument
  <2>2. words = <<>> /\ Fetched(n)
    BY <1>2, <1>3, <2>1, WordsFacts DEF ReadTo
  <2>5. n + 1 \in 0..Len(Declared)
    <3>1. n + 1 \in 1..Len(Declared)
      BY <1>1, <1>3, <2>1, <2>2, NextFetched
    <3> QED BY <3>1
  <2>3. words' = Incoming(Head(lines))
    <3>1. Head(lines) \in Seq(STRING) /\ n + 1 \in 1..Len(Declared)
      BY <1>1, <1>3, <2>1, <2>2, NextFetched
    <3>2. CASE NextLine
      BY <3>2 DEF NextLine, Incoming
    <3>3. CASE NextArgument
      <4>1. words' = <<>> \o Head(lines) /\ pc = "ARGV"
        BY <2>2, <3>3 DEF NextArgument
      <4>2. words' = Head(lines)
        BY <3>1, <4>1
      <4> QED BY <4>1, <4>2 DEF Incoming
    <3> QED BY <1>5, <3>2, <3>3
  <2>4. \E i \in {n, n + 1} : ReadTo(i)' /\ Settled(i)'
    BY <1>1, <1>2, <1>3, <2>1, <2>2, <2>3, LineReads
  <2> QED BY <1>2, <2>4, <2>5
<1>6. CASE CommandLine
  <2>1. /\ pc = "FILE" /\ words = <<>> /\ lines = <<>> /\ pc' = "ARGV" /\ lines' = job.argv
        /\ cfg' = cfg /\ words' = <<>>
    BY <1>6 DEF CommandLine
  <2>2. n = Len(job.file)
    BY <1>2, <1>3, <2>1 DEF ReadTo, Fetched
  <2>3. Declared' = Declared
    BY <1>1, SameDeclared
  <2>4. Fetched(n)'
    BY <2>1, <2>2, <2>3, DeclaredFacts DEF Fetched, Incoming
  <2> QED BY <1>1, <1>2, <2>1, <2>4, SettledSame DEF ReadTo
<1>7. CASE Checks
  BY <1>1, <1>7 DEF Checks, Refuse, Configuring
<1> QED BY <1>4, <1>5, <1>6, <1>7 DEF Configure, client_config_load

-----------------------------------------------------------------------------
(* The verdict *)

\* All the settings are the first ones when all of them have been read.
LEMMA AllSeen ==
    ASSUME job \in Jobs
    PROVE  /\ \A o : Seen(o, Len(Declared)) <=> Given(o)
           /\ \A k \in Settings : k <= Len(Declared) /\ k \in Nat
<1>1. \A k \in Settings : k \in 1..Len(Declared)
  BY SettingFacts
<1>2. Len(Declared) \in Nat
  BY Lengths
<1>3. \A k \in Settings : k <= Len(Declared) /\ k \in Nat
  BY <1>1, <1>2
<1> QED BY <1>3 DEF Seen, Given

\* LastOf is the value of the last setting of the option.
LEMMA LastOfIs ==
    ASSUME job \in Jobs, NEW o, NEW k, LastAt(o, Len(Declared), k)
    PROVE  LastOf(o) = Declared[k][2]
<1> DEFINE IsLast(i) == Declared[i][1] = o /\ \A l \in Settings : Declared[l][1] = o => l <= i
           c == CHOOSE i \in Settings : IsLast(i)
<1>1. \A i \in Settings : i <= Len(Declared) /\ i \in Nat
  BY AllSeen
<1>2. k \in Settings /\ IsLast(k)
  BY <1>1 DEF LastAt
<1>3. c \in Settings /\ IsLast(c)
  BY <1>2
<1>4. c <= k /\ k <= c /\ c \in Nat /\ k \in Nat
  BY <1>1, <1>2, <1>3
<1>5. c = k
  BY <1>4
<1>6. LastOf(o) = Declared[c][2]
  BY DEF LastOf
<1> QED BY <1>5, <1>6

\* --help is no option of a setting, and limits are numbers.
LEMMA NotOffered == \A program : "--help" \notin Offered(program)
BY TextDomain, NumericDomain, FlagDomain, SourceFacts DEF Offered, WithValue

\* The limits of a number are numbers.
LEMMA NumericLimits == \A o \in DOMAIN Numeric : Numeric[o][2] \in Int /\ Numeric[o][3] \in Int
<1>1. \A p \in NumericOptions : p[2][2] \in Int /\ p[2][3] \in Int
  BY DEF NumericOptions, IntMax
<1> QED BY <1>1, NumericPairs

AllAllowed == \A k \in Settings : Allowed(Declared[k])

\* What is refused on the way is not consistent or not allowed.
LEMMA RefusedRightly ==
    ASSUME job \in Jobs, Complete, NEW n \in Nat, n + 1 \in Settings, words = Declared[n + 1],
           Settled(n), HelpOption \/ BadOption
    PROVE  ~(Consistent /\ AllAllowed)
<1> DEFINE s == Declared[n + 1]
<1> SUFFICES ASSUME Consistent, Allowed(s) PROVE FALSE
  BY DEF AllAllowed
<1>1. /\ opt = s[1] /\ ~LacksValue /\ words # <<>>
      /\ opt \in WithValue => value = s[2]
  BY WordsFacts, SettingFacts
<1>2. Settings \subseteq Nat /\ \A k \in Settings : k <= n => k # n + 1
  <2>1. Settings \subseteq Nat
    BY DeclaredFacts
  <2> QED BY <2>1
<1>3. Given(opt) /\ \A o : Seen(o, n) => Given(o)
  BY <1>1 DEF Given, Seen
<1> HIDE DEF s
<1>4. /\ opt \in Offered(job.program)
      /\ opt \in DOMAIN Numeric => NumberOf(s[2]) >= Numeric[opt][2] /\ NumberOf(s[2]) <= Numeric[opt][3]
      /\ opt \in {"--will-topic"} \cup (IF Pub THEN {"-t"} ELSE {}) => s[2] \notin BadPubTopics
      /\ opt \in {"-T"} \cup (IF Pub THEN {} ELSE {"-t"}) => s[2] \notin BadSubTopics
      /\ opt = "-V" => s[2] \in DOMAIN Version
      /\ opt = "--proxy" => s[2] = "URL" /\ Proxy[job.url].ok
  BY <1>1 DEF Allowed
<1>5. ~HelpOption
  BY <1>4, NotOffered DEF HelpOption
<1>6. CASE opt \in DOMAIN Numeric /\ ~InRange(opt)
  <2>1. value = s[2] /\ NumberOf(s[2]) \in Int
    BY <1>1, <1>6, NumbersAreInt DEF WithValue
  <2>2. NumberOf(s[2]) >= Numeric[opt][2] /\ NumberOf(s[2]) <= Numeric[opt][3]
    BY <1>4, <1>6
  <2>3. NumberOf(s[2]) \in Numeric[opt][2]..Numeric[opt][3]
    BY <2>1, <2>2, <1>6, NumericLimits
  <2> QED BY <1>6, <2>1, <2>3 DEF InRange, number
<1>7. CASE opt \in Sources /\ ~OnlySource
  <2>1. PICK k : SourceAt(n, k)
    BY <1>7 DEF OnlySource, Settled, SourcesRead
  <2>2. k \in Settings /\ k # n + 1 /\ Declared[k][1] \in Sources /\ Declared[n + 1][1] \in Sources
    BY <1>1, <1>2, <1>7, <2>1 DEF SourceAt, s
  <2> QED BY <2>2 DEF Consistent, Sources
<1>8. CASE opt = "-i" /\ cfg.id_prefix # None
  <2>1. Seen("-I", n)
    BY <1>8, HoldsKept DEF Settled, Holds
  <2> QED BY <1>3, <1>8, <2>1 DEF Consistent
<1>9. CASE opt = "-I" /\ cfg.id # None
  <2>1. Seen("-i", n)
    BY <1>9, HoldsKept DEF Settled, Holds
  <2> QED BY <1>3, <1>9, <2>1 DEF Consistent
<1>10. CASE \/ opt = "-t" /\ value \in IF Pub THEN BadPubTopics ELSE BadSubTopics
            \/ opt = "-T" /\ value \in BadSubTopics
            \/ opt = "--will-topic" /\ value \in BadPubTopics
  BY <1>1, <1>4, <1>10, FlagFields
<1>11. CASE opt = "-V" /\ value \notin DOMAIN Version
  BY <1>1, <1>4, <1>11, FlagFields
<1>12. CASE opt = "--proxy" /\ ~ProxyOk
  BY <1>1, <1>4, <1>12, FlagFields DEF ProxyOk
<1> QED BY <1>1, <1>4, <1>5, <1>6, <1>7, <1>8, <1>9, <1>10, <1>11, <1>12 DEF BadOption, Sources

\* The fields that the checks on the whole look at, by what was given.
LEMMA Fields ==
    ASSUME job \in Jobs, Settled(Len(Declared))
    PROVE  /\ \A o, f : <<o, f>> \in KeptOptions => (cfg[f] = None <=> ~Given(o))
           /\ cfg.will_retain = TRUE <=> Given("--will-retain")
           /\ cfg.will_retain \in BOOLEAN /\ cfg.clean_session \in BOOLEAN
           /\ cfg.clean_session = FALSE <=> Given("-c")
           /\ ~Pub => (cfg.topics = <<>> <=> ~Given("-t"))
           /\ ~(Given("-i") /\ Given("-I"))
           /\ \A k, l \in Settings : {Declared[k][1], Declared[l][1]} \subseteq Sources => k = l
           /\ AllAllowed
<1> DEFINE n == Len(Declared)
<1>0. (\A o : Seen(o, n) <=> Given(o)) /\ \A k \in Settings : k <= n
  BY AllSeen
<1> HIDE DEF n
<1>1. Settled(n)
  BY DEF n
<1>2. \A o, f : <<o, f>> \in KeptOptions => (cfg[f] = None <=> ~Given(o))
  BY <1>0, <1>1, HoldsKept DEF Settled, Holds
<1>3. /\ cfg.will_retain = TRUE <=> Given("--will-retain")
      /\ cfg.will_retain \in BOOLEAN /\ cfg.clean_session \in BOOLEAN
      /\ cfg.clean_session = FALSE <=> Given("-c")
  BY <1>0, <1>1 DEF Settled, FlagsRead
<1>4. ~Pub => (cfg.topics = <<>> <=> ~Given("-t"))
  <2> SUFFICES ASSUME ~Pub PROVE cfg.topics = <<>> <=> ~Given("-t")
    OBVIOUS
  <2>1. /\ cfg.topics \in Seq(STRING)
        /\ \A k : TopicAt(n, k) => \E i \in DOMAIN cfg.topics : cfg.topics[i] = Declared[k][2]
        /\ \A i \in DOMAIN cfg.topics : \E k : TopicAt(n, k) /\ cfg.topics[i] = Declared[k][2]
    BY <1>1 DEF Settled, TopicsRead
  <2>2. Given("-t") <=> \E k : TopicAt(n, k)
    BY <1>0 DEF Given, TopicAt
  <2>3. cfg.topics = <<>> <=> ~\E i : i \in DOMAIN cfg.topics
    BY <2>1
  <2> QED BY <2>1, <2>2, <2>3, Zenon
<1>5. ~(Given("-i") /\ Given("-I")) /\ AllAllowed
  BY <1>0, <1>1 DEF Settled, AllowedRead, AllAllowed
<1>6. \A k, l \in Settings : {Declared[k][1], Declared[l][1]} \subseteq Sources => k = l
  BY <1>0, <1>1 DEF Settled, SourcesRead, SourceAt
<1> QED BY <1>2, <1>3, <1>4, <1>5, <1>6

\* The checks on the whole complain just when the settings are not consistent.
LEMMA Complaints ==
    ASSUME job \in Jobs, Settled(Len(Declared))
    PROVE  Complaint <=> ~Consistent
<1>1. {<<"--will-payload", "will_payload">>, <<"--cert", "certfile">>, <<"--key", "keyfile">>,
       <<"--psk", "psk">>, <<"--cafile", "cafile">>, <<"--capath", "capath">>,
       <<"--psk-identity", "psk_identity">>, <<"-i", "id">>, <<"-I", "id_prefix">>,
       <<"--will-topic", "will_topic">>} \subseteq KeptOptions
  BY DEF KeptOptions, TextOptions
<1>2. /\ cfg.will_payload = None <=> ~Given("--will-payload")
      /\ cfg.certfile = None <=> ~Given("--cert")
      /\ cfg.keyfile = None <=> ~Given("--key")
      /\ cfg.psk = None <=> ~Given("--psk")
      /\ cfg.cafile = None <=> ~Given("--cafile")
      /\ cfg.capath = None <=> ~Given("--capath")
      /\ cfg.psk_identity = None <=> ~Given("--psk-identity")
      /\ cfg.id = None <=> ~Given("-i")
      /\ cfg.id_prefix = None <=> ~Given("-I")
      /\ cfg.will_topic = None <=> ~Given("--will-topic")
  BY <1>1, Fields, Zenon
<1>3. /\ cfg.will_retain <=> Given("--will-retain")
      /\ ~cfg.clean_session <=> Given("-c")
  BY Fields
<1>4. /\ ~Pub => (cfg.topics = <<>> <=> ~Given("-t"))
      /\ ~(Given("-i") /\ Given("-I"))
      /\ \A k, l \in Settings : {Declared[k][1], Declared[l][1]} \subseteq Sources => k = l
  BY Fields
<1> QED BY <1>2, <1>3, <1>4, Zenon DEF Complaint, Consistent, Sources

\* No step but those that read the configuration gets to its end.
LEMMA LeavesConfiguration ==
    Next /\ ~Configure => pc' \notin Configuring \cup {"ACCEPTED", "REFUSED"}
BY DEF Next, Main, client_config_cleanup, Accepted, load_stdin, load_file, ReadFile, FileChanges,
       Needs, lib_init, client_id_generate, mosquitto_new, client_opts_set, client_connect,
       ConnectFails, LoopEnds, lib_cleanup, GiveUp, GoTo, Exit, configVars, Configuring

\* What was given, and what was given last, depend on the job alone.
LEMMA SameGiven ==
    ASSUME job' = job
    PROVE  \A o : (Given(o)' <=> Given(o)) /\ LastOf(o)' = LastOf(o)
<1>1. Declared' = Declared /\ Settings' = Settings
  BY SameDeclared
<1> QED BY <1>1 DEF Given, LastOf

\* The settings are refused only when they are not consistent or one is not allowed.
LEMMA Refuses ==
    ASSUME job \in Jobs, Reading, Complete, Configure, pc' = "REFUSED"
    PROVE  ~(Consistent /\ AllAllowed)
<1>1. job' = job /\ pc \in Configuring
  BY ConfigureMoves
<1>2. PICK n \in 0..Len(Declared) : ReadTo(n) /\ Settled(n)
  BY <1>1 DEF Reading
<1>3. n \in Nat /\ Len(Declared) \in Nat
  BY Lengths
<1>4. CASE client_config_line_proc
  <2>1. HelpOption \/ BadOption
    BY <1>1, <1>4 DEF client_config_line_proc, TextOption, NumberOption, FlagOption, SourceOption,
       SourceTextOption, IdOption, TopicOption, FilterOption, WillTopicOption, VersionOption,
       ProxyOption, Take, Configuring
  <2>2. words # <<>>
    BY <2>1 DEF HelpOption, BadOption
  <2>3. n + 1 \in Settings /\ words = Declared[n + 1]
    BY <1>2, <2>2 DEF ReadTo
  <2> QED BY <1>2, <1>3, <2>1, <2>3, RefusedRightly
<1>5. CASE Checks
  <2>1. Complaint /\ words = <<>> /\ lines = <<>> /\ pc = "ARGV"
    BY <1>5 DEF Checks
  <2>2. n = Len(Declared)
    BY <1>2, <1>3, <2>1 DEF ReadTo, Fetched
  <2> QED BY <1>2, <2>1, <2>2, Complaints
<1>6. CASE NextLine \/ CommandLine \/ NextArgument
  BY <1>1, <1>6 DEF NextLine, CommandLine, NextArgument, Configuring
<1> QED BY <1>4, <1>5, <1>6 DEF Configure, client_config_load

\* The settings are accepted: all have been read, and the host has its default.
LEMMA Accepts ==
    ASSUME job \in Jobs, HasFields, Reading, Complete, Configure, pc' = "ACCEPTED"
    PROVE  /\ Settled(Len(Declared)) /\ Consistent
           /\ cfg' = [cfg EXCEPT !.host = IF cfg.host = None THEN "localhost" ELSE cfg.host]
<1>1. job' = job /\ pc \in Configuring
  BY ConfigureMoves
<1>2. PICK n \in 0..Len(Declared) : ReadTo(n) /\ Settled(n)
  BY <1>1 DEF Reading
<1>3. n \in Nat /\ Len(Declared) \in Nat
  BY Lengths
<1>4. Checks /\ ~Complaint
  <2>1. ~client_config_line_proc
    BY <1>1, OptionMoves DEF Configuring
  <2>2. ~NextLine /\ ~CommandLine /\ ~NextArgument
    BY <1>1 DEF NextLine, CommandLine, NextArgument, Configuring
  <2>3. Checks
    BY <2>1, <2>2 DEF Configure, client_config_load
  <2> QED BY <2>3 DEF Checks, Refuse
<1>5. n = Len(Declared)
  BY <1>2, <1>3, <1>4 DEF Checks, ReadTo, Fetched
<1> QED BY <1>2, <1>4, <1>5, Complaints DEF Checks

\* A field other than the host holds what was declared for it.
LEMMA FieldAsDeclared ==
    ASSUME job \in Jobs, Settled(Len(Declared)), NEW o, NEW f, <<o, f>> \in KeptOptions
    PROVE  cfg[f] = IF Given(o) THEN LastOf(o) ELSE None
<1>1. Holds(o, f, Len(Declared))
  BY HoldsKept DEF Settled
<1>2. Seen(o, Len(Declared)) <=> Given(o)
  BY AllSeen
<1>3. CASE Given(o)
  <2>1. PICK k : LastAt(o, Len(Declared), k) /\ cfg[f] = Declared[k][2]
    BY <1>1, <1>2, <1>3 DEF Holds
  <2> QED BY <1>3, <2>1, LastOfIs
<1>4. CASE ~Given(o)
  BY <1>1, <1>2, <1>4 DEF Holds
<1> QED BY <1>3, <1>4

\* A number is what was declared for it, and the topics are those declared.
LEMMA NumberAsDeclared ==
    ASSUME job \in Jobs, Settled(Len(Declared)), NEW o \in DOMAIN Numeric, Given(o)
    PROVE  NumberOf(LastOf(o)) = cfg[Numeric[o][1]]
<1>1. Seen(o, Len(Declared))
  BY AllSeen
<1>2. HoldsNumber(o, Len(Declared))
  BY DEF Settled, NumbersAll
<1>3. PICK k : LastAt(o, Len(Declared), k) /\ cfg[Numeric[o][1]] = NumberOf(Declared[k][2])
  BY <1>1, <1>2 DEF HoldsNumber
<1> QED BY <1>3, LastOfIs

\* The topics of mosquitto_sub are those declared.
LEMMA TopicsAsDeclared ==
    ASSUME job \in Jobs, Settled(Len(Declared)), ~Pub
    PROVE  {cfg.topics[k] : k \in DOMAIN cfg.topics}
           = {Declared[k][2] : k \in {l \in Settings : Declared[l][1] = "-t"}}
<1>1. /\ \A k : TopicAt(Len(Declared), k) =>
             \E i \in DOMAIN cfg.topics : cfg.topics[i] = Declared[k][2]
      /\ \A i \in DOMAIN cfg.topics :
             \E k : TopicAt(Len(Declared), k) /\ cfg.topics[i] = Declared[k][2]
  BY DEF Settled, TopicsRead
<1>2. \A k : TopicAt(Len(Declared), k) <=> k \in {l \in Settings : Declared[l][1] = "-t"}
  BY AllSeen DEF TopicAt
<1> QED BY <1>1, <1>2

\* Only -h sets the host.
LEMMA HostIsApart ==
    /\ \A o \in DOMAIN Text \ {"-h"} : Text[o] # "host"
    /\ \A o \in DOMAIN Numeric : Numeric[o][1] # "host"
    /\ "-h" \in DOMAIN Text /\ <<"-h", "host">> \in KeptOptions /\ "host" \in Followed
<1>1. \A o \in DOMAIN Text \ {"-h"} : Text[o] # "host"
  BY TextPairs DEF TextOptions
<1>2. \A o \in DOMAIN Numeric : Numeric[o][1] # "host"
  BY NumericPairs DEF NumericOptions
<1>3. "-h" \in DOMAIN Text /\ <<"-h", "host">> \in KeptOptions
  BY TextDomain DEF KeptOptions, TextOptions
<1> QED BY <1>1, <1>2, <1>3, OwnerFacts

\* The configuration c is what was declared.
AsDeclared(c) ==
    /\ \A o \in DOMAIN Text \ {"-h"} : c[Text[o]] = IF Given(o) THEN LastOf(o) ELSE None
    /\ c.host = IF Given("-h") THEN LastOf("-h") ELSE "localhost"
    /\ \A o \in DOMAIN Numeric : Given(o) => NumberOf(LastOf(o)) = c[Numeric[o][1]]
    /\ ~Pub => {c.topics[k] : k \in DOMAIN c.topics}
               = {Declared[k][2] : k \in {l \in Settings : Declared[l][1] = "-t"}}

\* The settings are accepted only when they are as they should be.
LEMMA Accepting ==
    ASSUME job \in Jobs, HasFields, Reading, Complete, Configure, pc' = "ACCEPTED"
    PROVE  Consistent /\ AllAllowed /\ AsDeclared(cfg')
<1>1. /\ Settled(Len(Declared)) /\ Consistent
      /\ cfg' = [cfg EXCEPT !.host = IF cfg.host = None THEN "localhost" ELSE cfg.host]
  BY Accepts
<1>2. AllAllowed
  BY <1>1, Fields
<1>3. ASSUME NEW o \in DOMAIN Text \ {"-h"}
      PROVE  cfg'[Text[o]] = IF Given(o) THEN LastOf(o) ELSE None
  <2>1. <<o, Text[o]>> \in KeptOptions /\ Text[o] # "host"
    BY OwnerFacts, HostIsApart
  <2>3. Text[o] \in DOMAIN cfg
    BY <2>1, OwnerFacts DEF HasFields
  <2>2. cfg'[Text[o]] = cfg[Text[o]]
    BY <1>1, <2>1, <2>3
  <2> QED BY <1>1, <2>1, <2>2, FieldAsDeclared
<1>4. cfg'.host = IF Given("-h") THEN LastOf("-h") ELSE "localhost"
  <2>1. cfg.host = IF Given("-h") THEN LastOf("-h") ELSE None
    BY <1>1, HostIsApart, FieldAsDeclared
  <2>2. cfg.host = None <=> ~Given("-h")
    BY <1>1, HostIsApart, Fields
  <2>3. cfg'.host = IF cfg.host = None THEN "localhost" ELSE cfg.host
    BY <1>1, HostIsApart DEF HasFields
  <2> QED BY <2>1, <2>2, <2>3
<1>5. ASSUME NEW o \in DOMAIN Numeric, Given(o)
      PROVE  NumberOf(LastOf(o)) = cfg'[Numeric[o][1]]
  <2>2. Numeric[o][1] \in DOMAIN cfg /\ Numeric[o][1] # "host"
    BY HostIsApart DEF HasFields, Followed
  <2>1. cfg'[Numeric[o][1]] = cfg[Numeric[o][1]]
    BY <1>1, <2>2
  <2> QED BY <1>1, <1>5, <2>1, NumberAsDeclared
<1>6. ~Pub => {cfg'.topics[k] : k \in DOMAIN cfg'.topics}
              = {Declared[k][2] : k \in {l \in Settings : Declared[l][1] = "-t"}}
  <2>1. cfg'.topics = cfg.topics
    BY <1>1
  <2> QED BY <1>1, <2>1, TopicsAsDeclared
<1> QED BY <1>1, <1>2, <1>3, <1>4, <1>5, <1>6 DEF AsDeclared

\* The judgement on what was declared does not change with the job.
LEMMA SameJudgement ==
    ASSUME job' = job
    PROVE  /\ (Complete' <=> Complete) /\ (Consistent' <=> Consistent)
           /\ (AllAllowed' <=> AllAllowed) /\ (AsDeclared(cfg)' <=> AsDeclared(cfg'))
<1>1. /\ Declared' = Declared /\ Settings' = Settings /\ Pub' = Pub
      /\ \A s : Allowed(s)' = Allowed(s)
      /\ \A o : (Given(o)' <=> Given(o)) /\ LastOf(o)' = LastOf(o)
  BY SameDeclared, SameAllowed, SameGiven
<1>2. AllAllowed' <=> AllAllowed
  BY <1>1 DEF AllAllowed
<1>3. Text' = Text /\ Numeric' = Numeric
  BY TablesFixed DEF Text, TextOptions, FunctionOf
<1>4. AsDeclared(cfg)' <=> AsDeclared(cfg')
  BY <1>1, <1>3, Zenon DEF AsDeclared
<1> QED BY <1>2, <1>4, SameDeclared

\* Every step keeps the property: the verdict is right when it is reached.
LEMMA JudgedStep ==
    ASSUME job \in Jobs, HasFields, Reading, AcceptedAsDeclared, [Next]_vars
    PROVE  AcceptedAsDeclared'
<1>0. AcceptedAsDeclared <=>
        (Complete => /\ pc = "REFUSED" => ~(Consistent /\ AllAllowed)
                     /\ pc = "ACCEPTED" => Consistent /\ AllAllowed /\ AsDeclared(cfg))
  BY DEF AcceptedAsDeclared, AllAllowed, AsDeclared
<1>5. AcceptedAsDeclared' <=>
        (Complete' => /\ pc' = "REFUSED" => ~(Consistent' /\ AllAllowed')
                      /\ pc' = "ACCEPTED" => Consistent' /\ AllAllowed' /\ AsDeclared(cfg)')
  BY DEF AcceptedAsDeclared, AllAllowed, AsDeclared
<1>1. job' = job =>
        /\ (Complete' <=> Complete) /\ (Consistent' <=> Consistent)
        /\ (AllAllowed' <=> AllAllowed) /\ (AsDeclared(cfg)' <=> AsDeclared(cfg'))
  BY SameJudgement
<1>2. CASE Configure
  <2>1. job' = job
    BY <1>2, ConfigureMoves
  <2>2. Complete /\ pc' = "REFUSED" => ~(Consistent /\ AllAllowed)
    BY <1>2, Refuses
  <2>3. Complete /\ pc' = "ACCEPTED" => Consistent /\ AllAllowed /\ AsDeclared(cfg')
    BY <1>2, Accepting
  <2> QED BY <1>1, <1>5, <2>1, <2>2, <2>3, Zenon
<1>3. CASE Next /\ ~Configure
  BY <1>3, LeavesConfiguration DEF AcceptedAsDeclared
<1>4. CASE UNCHANGED vars
  <2>1. job' = job /\ cfg' = cfg /\ pc' = pc
    BY <1>4 DEF vars, configVars
  <2> QED BY <1>0, <1>1, <1>5, <2>1, Zenon
<1> QED BY <1>2, <1>3, <1>4

-----------------------------------------------------------------------------
(* The reading from its start *)

\* Nothing has been read, and nothing has been settled, to begin with.
LEMMA ReadingInit == Init => Reading /\ AcceptedAsDeclared
<1> SUFFICES ASSUME Init PROVE Reading /\ AcceptedAsDeclared
  OBVIOUS
<1>1. job \in Jobs /\ cfg = init_config /\ lines = job.file /\ words = <<>> /\ pc = "FILE"
  BY DEF Init, ConfigInit
<1>2. \A k \in Settings : ~(k <= 0)
  <2>1. \A k \in Settings : k \in 1..Len(Declared)
    BY <1>1, SettingFacts
  <2> QED BY <1>1, <2>1, Lengths
<1>3. \A o : ~Seen(o, 0)
  BY <1>2 DEF Seen
<1>4. HoldsAll(0)
  BY <1>1, <1>3, InitFields DEF HoldsAll, Holds
<1>5. NumbersAll(0) /\ VersionRead(0) /\ ProxyRead(0) /\ AllowedRead(0)
  BY <1>2, <1>3 DEF NumbersAll, HoldsNumber, VersionRead, ProxyRead, AllowedRead
<1>6. FlagsRead(0)
  <2>1. cfg.will_retain = FALSE /\ cfg.clean_session = TRUE /\ cfg.use_srv = FALSE
    BY <1>1, InitFields
  <2> QED BY <1>3, <2>1, Zenon DEF FlagsRead
<1>7. TopicsRead(0) /\ SourcesRead(0)
  <2>1. cfg.topics = <<>> /\ cfg.pub_mode = "NONE"
    BY <1>1, InitFields
  <2>2. \A k : ~TopicAt(0, k) /\ ~SourceAt(0, k)
    BY <1>2 DEF TopicAt, SourceAt
  <2>3. <<>> \in Seq(STRING) /\ \A i : i \notin DOMAIN <<>>
    OBVIOUS
  <2> QED BY <2>1, <2>2, <2>3, Zenon DEF TopicsRead, SourcesRead
<1>8. Settled(0)
  BY <1>4, <1>5, <1>6, <1>7 DEF Settled
<1>9. Fetched(0)
  <2>1. /\ job.file \in Seq(Seq(STRING)) /\ Len(job.file) \in Nat
        /\ \A k \in 1..Len(job.file) : LineWords(job.file[k]) = Declared[k]
    BY <1>1, DeclaredFacts, Lengths
  <2> QED BY <1>1, <2>1 DEF Fetched, Incoming
<1>10. 0 \in 0..Len(Declared)
  BY <1>1, Lengths
<1> QED BY <1>1, <1>8, <1>9, <1>10 DEF Reading, ReadTo, AcceptedAsDeclared

\* No step after the reading comes back to it.
LEMMA ReadingKept ==
    ASSUME job \in Jobs, HasFields, Reading, [Next]_vars
    PROVE  Reading'
<1>1. CASE Configure
  BY <1>1, ReadingStep
<1>2. CASE Next /\ ~Configure
  BY <1>2, LeavesConfiguration DEF Reading, Configuring
<1>3. CASE UNCHANGED vars
  <2>1. UNCHANGED <<job, cfg, lines, words, pc>>
    BY <1>3 DEF vars, configVars
  <2>2. Declared' = Declared /\ Settings' = Settings /\ Complete' = Complete
    BY <2>1, SameDeclared
  <2>3. ASSUME NEW n, ReadTo(n), Settled(n) PROVE ReadTo(n)' /\ Settled(n)'
    <3>1. Fetched(n) => Fetched(n)'
      BY <2>1, FetchedSame
    <3>2. Fetched(n + 1) => Fetched(n + 1)'
      BY <2>1, FetchedSame
    <3> QED BY <2>1, <2>2, <2>3, <3>1, <3>2, SettledSame DEF ReadTo
  <2> QED BY <2>1, <2>2, <2>3 DEF Reading, Configuring
<1> QED BY <1>1, <1>2, <1>3

\* The invariant of the reading holds, and with it the property.
LEMMA ReadingInvariant == Spec => [](Reading /\ AcceptedAsDeclared)
<1> DEFINE Read == Reading /\ AcceptedAsDeclared
<1>1. Typed => job \in Jobs /\ HasFields
  BY DEF Typed, Loads, CfgType
<1>2. Typed /\ Read /\ [Next]_vars => Read'
  BY <1>1, ReadingKept, JudgedStep
<1>3. Init => Read
  BY ReadingInit
<1> HIDE DEF Read
<1>4. Spec => []Read
  BY <1>2, <1>3, TypedInvariant, PTL DEF Spec
<1> QED BY <1>4 DEF Read

\* Whether the settings are accepted, and what the configuration then holds, depends on
\* what was declared alone and not on the order it came in: of several values for one
\* option the last one counts, the command line's after the file's.
THEOREM DeclaredIsWhatCounts == Spec => []AcceptedAsDeclared
<1>1. Reading /\ AcceptedAsDeclared => AcceptedAsDeclared
  OBVIOUS
<1> QED BY <1>1, ReadingInvariant, PTL

-----------------------------------------------------------------------------
(* What was declared reaches the library *)

Running == {"ACCEPTED", "LOAD_STDIN", "FOPEN", "FREAD", "NEEDS", "LIB_INIT", "ID", "NEW", "OPTS",
            "CONNECT", "LOOP"}

\* The settings that AsDeclared leaves out, and which of them are there at all.
OthersDeclared ==
    /\ \A o, f : <<o, f>> \in KeptOptions /\ Given(o) => LastOf(o) # None
    /\ cfg.will_topic = IF Given("--will-topic") THEN LastOf("--will-topic") ELSE None
    /\ Given("-V") => cfg.protocol_version = Version[LastOf("-V")]
    /\ Given("--proxy") => cfg.socks5 = Proxy[job.url] /\ cfg.socks5.ok
    /\ cfg.use_srv \in BOOLEAN /\ (cfg.use_srv = TRUE => Given("-S"))
    /\ cfg.clean_session \in BOOLEAN
    /\ cfg.clean_session = FALSE /\ ~Pub =>
           Given("-i") /\ cfg.id = LastOf("-i") /\ cfg.id_prefix = None

\* From then on the configuration is what was declared.
Declares ==
    pc \in Running /\ Complete => Consistent /\ AsDeclared(cfg) /\ OthersDeclared

\* The settings are accepted with all the fields that the library will be told.
LEMMA AcceptsOthers ==
    ASSUME job \in Jobs, HasFields, Reading, Complete, Configure, pc' = "ACCEPTED"
    PROVE  OthersDeclared'
<1> DEFINE n == Len(Declared)
<1>1. /\ Settled(n) /\ Consistent
      /\ cfg' = [cfg EXCEPT !.host = IF cfg.host = None THEN "localhost" ELSE cfg.host]
  BY Accepts
<1>2. /\ cfg'.will_topic = cfg.will_topic /\ cfg'.protocol_version = cfg.protocol_version
      /\ cfg'.socks5 = cfg.socks5 /\ cfg'.use_srv = cfg.use_srv
      /\ cfg'.clean_session = cfg.clean_session /\ cfg'.id = cfg.id /\ cfg'.id_prefix = cfg.id_prefix
  <2>1. {"will_topic", "protocol_version", "socks5", "use_srv", "clean_session", "id", "id_prefix"}
        \subseteq DOMAIN cfg
    BY FlagFields, HoldsKept, OwnerFacts DEF HasFields
  <2> QED BY <1>1, <2>1
<1>3. job' = job /\ Pub' = Pub /\ Proxy' = Proxy /\ KeptOptions' = KeptOptions
      /\ \A o : (Given(o)' <=> Given(o)) /\ LastOf(o)' = LastOf(o)
  <2>1. job' = job
    BY ConfigureMoves
  <2> QED BY <2>1, SameDeclared, SameGiven, TablesFixed DEF Proxy
<1>4. \A o : Seen(o, n) <=> Given(o)
  BY AllSeen
<1>5. ASSUME NEW o, NEW f, <<o, f>> \in KeptOptions, Given(o) PROVE LastOf(o) # None
  <2>1. Holds(o, f, n) /\ Seen(o, n)
    BY <1>1, <1>4, <1>5, HoldsKept DEF Settled
  <2>2. cfg[f] # None
    BY <2>1 DEF Holds
  <2>3. cfg[f] = LastOf(o)
    BY <1>1, <1>5, FieldAsDeclared
  <2> QED BY <2>2, <2>3
<1>6. cfg.will_topic = IF Given("--will-topic") THEN LastOf("--will-topic") ELSE None
  BY <1>1, HoldsKept, FieldAsDeclared
<1>7. Given("-V") => cfg.protocol_version = Version[LastOf("-V")]
  <2> SUFFICES ASSUME Given("-V") PROVE cfg.protocol_version = Version[LastOf("-V")]
    OBVIOUS
  <2>1. PICK k : LastAt("-V", n, k) /\ cfg.protocol_version = Version[Declared[k][2]]
    BY <1>1, <1>4 DEF Settled, VersionRead
  <2>2. LastOf("-V") = Declared[k][2]
    BY <2>1, LastOfIs
  <2> QED BY <2>1, <2>2
<1> HIDE DEF n
<1>8. Given("--proxy") => cfg.socks5 = Proxy[job.url] /\ cfg.socks5.ok
  BY <1>1, <1>4 DEF Settled, ProxyRead
<1>9. /\ cfg.use_srv \in BOOLEAN /\ (cfg.use_srv = TRUE => Given("-S"))
      /\ cfg.clean_session \in BOOLEAN /\ (cfg.clean_session = FALSE => Given("-c"))
  BY <1>1, <1>4 DEF Settled, FlagsRead
<1>10. cfg.clean_session = FALSE /\ ~Pub =>
           Given("-i") /\ cfg.id = LastOf("-i") /\ cfg.id_prefix = None
  <2>1. ~Pub /\ Given("-c") => Given("-i") /\ ~Given("-I")
    BY <1>1 DEF Consistent
  <2>2. cfg.id = IF Given("-i") THEN LastOf("-i") ELSE None
    BY <1>1, HoldsKept, FieldAsDeclared DEF n
  <2>3. cfg.id_prefix = IF Given("-I") THEN LastOf("-I") ELSE None
    BY <1>1, HoldsKept, FieldAsDeclared DEF n
  <2> QED BY <1>9, <2>1, <2>2, <2>3
<1> QED BY <1>2, <1>3, <1>5, <1>6, <1>7, <1>8, <1>9, <1>10, Zenon DEF OthersDeclared

\* The id is kept where it was given, and no other setting changes for it.
LEMMA IdGenerated ==
    ASSUME client_id_generate, pc' = "NEW", HasFields, Complete, AsDeclared(cfg), OthersDeclared
    PROVE  AsDeclared(cfg') /\ OthersDeclared'
<1>1. /\ cfg' = [cfg EXCEPT !.id = IF cfg.id_prefix = None /\ cfg.id # None THEN cfg.id ELSE "generated"]
      /\ job' = job
  BY DEF client_id_generate, GiveUp, Exit
<1>2. \A f \in Followed \ {"id"} : cfg'[f] = cfg[f]
  BY <1>1 DEF HasFields
<1>3. /\ \A o \in DOMAIN Text : Text[o] \in Followed \ {"id"}
      /\ \A o \in DOMAIN Numeric : Numeric[o][1] \in Followed \ {"id"}
  <2>1. \A o \in DOMAIN Text : Text[o] \in Followed /\ Owner(Text[o]) = o
    BY OwnerFacts
  <2>2. \A o \in DOMAIN Numeric : Numeric[o][1] \in Followed /\ Owner(Numeric[o][1]) = o
    BY OwnerFacts DEF Followed
  <2>3. Owner("id") = "-i" /\ "-i" \notin DOMAIN Text /\ "-i" \notin DOMAIN Numeric
    BY TextDomain, NumericDomain DEF Owner
  <2> QED BY <2>1, <2>2, <2>3
<1>4. {"host", "topics", "will_topic", "protocol_version", "socks5", "use_srv", "clean_session", "id_prefix"}
      \subseteq Followed \ {"id"}
  BY HostIsApart, FlagFields, HoldsKept, OwnerFacts
<1>5. AsDeclared(cfg')
  <2>1. cfg'.host = cfg.host /\ cfg'.topics = cfg.topics
    BY <1>2, <1>4
  <2>2. \A o \in DOMAIN Text \ {"-h"} : cfg'[Text[o]] = cfg[Text[o]]
    BY <1>2, <1>3
  <2>3. \A o \in DOMAIN Numeric : cfg'[Numeric[o][1]] = cfg[Numeric[o][1]]
    BY <1>2, <1>3
  <2>4. /\ \A o \in DOMAIN Text \ {"-h"} : cfg'[Text[o]] = IF Given(o) THEN LastOf(o) ELSE None
        /\ cfg.host = IF Given("-h") THEN LastOf("-h") ELSE "localhost"
        /\ \A o \in DOMAIN Numeric : Given(o) => NumberOf(LastOf(o)) = cfg'[Numeric[o][1]]
    BY <2>2, <2>3, Zenon DEF AsDeclared
  <2>5. ~Pub => {cfg'.topics[k] : k \in DOMAIN cfg'.topics}
                = {Declared[k][2] : k \in {l \in Settings : Declared[l][1] = "-t"}}
    BY <2>1, Zenon DEF AsDeclared
  <2> QED BY <2>1, <2>4, <2>5 DEF AsDeclared
<1>6. OthersDeclared'
  <2>1. /\ cfg'.will_topic = cfg.will_topic /\ cfg'.protocol_version = cfg.protocol_version
        /\ cfg'.socks5 = cfg.socks5 /\ cfg'.use_srv = cfg.use_srv
        /\ cfg'.clean_session = cfg.clean_session /\ cfg'.id_prefix = cfg.id_prefix
    BY <1>2, <1>4
  <2>2. Pub' = Pub /\ Proxy' = Proxy /\ job' = job /\ KeptOptions' = KeptOptions
        /\ \A o : (Given(o)' <=> Given(o)) /\ LastOf(o)' = LastOf(o)
    BY <1>1, SameDeclared, SameGiven, TablesFixed DEF Proxy
  <2>3. cfg.clean_session = FALSE /\ ~Pub => cfg'.id = cfg.id
    <3>1. cfg.clean_session = FALSE /\ ~Pub => cfg.id # None /\ cfg.id_prefix = None
      BY HoldsKept DEF OthersDeclared
    <3>2. "id" \in DOMAIN cfg
      BY HoldsKept, OwnerFacts DEF HasFields
    <3> QED BY <1>1, <3>1, <3>2
  <2> QED BY <2>1, <2>2, <2>3, Zenon DEF OthersDeclared
<1> QED BY <1>5, <1>6

\* The rest of what was declared stays while job and configuration do.
LEMMA OthersSame == ASSUME job' = job, cfg' = cfg PROVE OthersDeclared' <=> OthersDeclared
<1>1. /\ Pub' = Pub /\ Proxy' = Proxy /\ KeptOptions' = KeptOptions
      /\ \A o : (Given(o)' <=> Given(o)) /\ LastOf(o)' = LastOf(o)
  BY SameDeclared, SameGiven, TablesFixed DEF Proxy
<1> QED BY <1>1, Zenon DEF OthersDeclared

\* The configuration stays what was declared up to the loop.
LEMMA DeclaresStep ==
    ASSUME job \in Jobs, HasFields, Reading, Declares, [Next]_vars
    PROVE  Declares'
<1>1. Declares' <=> (pc' \in Running /\ Complete' => Consistent' /\ AsDeclared(cfg)' /\ OthersDeclared')
  BY DEF Declares, Running
<1>2. CASE Configure
  <2>1. job' = job /\ (pc' \in Running => pc' = "ACCEPTED")
    BY <1>2, ConfigureMoves DEF Configuring, Running
  <2>2. Complete /\ pc' = "ACCEPTED" => Consistent /\ AsDeclared(cfg')
    BY <1>2, Accepting
  <2>3. Complete /\ pc' = "ACCEPTED" => OthersDeclared'
    BY <1>2, AcceptsOthers
  <2> QED BY <1>1, <2>1, <2>2, <2>3, SameJudgement, Zenon
<1>3. CASE client_id_generate
  <2>1. job' = job /\ pc = "ID" /\ (pc' \in Running => pc' = "NEW")
    BY <1>3 DEF client_id_generate, GiveUp, Exit, Running
  <2>2. pc \in Running
    BY <2>1 DEF Running
  <2>3. Complete => Consistent /\ AsDeclared(cfg) /\ OthersDeclared
    BY <2>2, Zenon DEF Declares
  <2>4. Complete /\ pc' = "NEW" => AsDeclared(cfg') /\ OthersDeclared'
    BY <1>3, <2>3, IdGenerated
  <2> QED BY <1>1, <2>1, <2>3, <2>4, SameJudgement, Zenon
<1>4. CASE Next /\ ~Configure /\ ~client_id_generate
  <2>1. cfg' = cfg /\ job' = job /\ (pc' \in Running => pc \in Running)
    BY <1>4 DEF Next, Main, client_config_cleanup, Accepted, load_stdin, load_file, ReadFile,
       FileChanges, Needs, lib_init, mosquitto_new, client_opts_set, client_connect,
       ConnectFails, LoopEnds, lib_cleanup, GiveUp, GoTo, Exit, configVars, Running
  <2> QED BY <1>1, <2>1, SameJudgement, OthersSame, Zenon DEF Declares
<1>5. CASE UNCHANGED vars
  <2>1. cfg' = cfg /\ job' = job /\ pc' = pc
    BY <1>5 DEF vars, configVars
  <2> QED BY <1>1, <2>1, SameJudgement, OthersSame, Zenon DEF Declares
<1> QED BY <1>2, <1>3, <1>4, <1>5

-----------------------------------------------------------------------------
(* What the library has been told *)

\* The call that connects.
Connects == IF cfg.use_srv THEN "connect_srv" ELSE "connect_bind"

\* Every call that was due has been made, and the session is persistent only in
\* mosquitto_sub and when it was asked for.
Handed ==
    /\ pc \in {"CONNECT", "LOOP"} => \A k \in DOMAIN Calls : Due(Calls[k]) => Told(Calls[k])
    /\ pc = "LOOP" => Told(Connects)
    /\ pc \in Before \cup {"ID", "NEW"} => clean = TRUE
    /\ clean = FALSE => ~Pub /\ ~cfg.clean_session

\* Telling the library something leaves what it was told before.
LEMMA Appends ==
    ASSUME ToldInv, NEW c, Tell(c)
    PROVE  Told(c)' /\ \A d : Told(d) => Told(d)'
<1>1. PICK e : told' = Append(told, e) /\ e.call = c
  BY DEF Tell
<1>2. /\ told \in Seq(Entries) /\ Len(told) \in Nat
      /\ Len(told') = Len(told) + 1 /\ told'[Len(told) + 1] = e
      /\ DOMAIN told = 1..Len(told) /\ DOMAIN told' = 1..(Len(told) + 1)
      /\ \A k \in DOMAIN told : told'[k] = told[k]
  BY <1>1 DEF ToldInv
<1>3. Len(told) + 1 \in DOMAIN told'
  BY <1>2
<1>4. DOMAIN told \subseteq DOMAIN told'
  BY <1>2
<1> QED BY <1>1, <1>2, <1>3, <1>4 DEF Told

\* The calls that are due are made before the library connects.
LEMMA HandedStep == ASSUME InOrder, Machine, ToldInv, Handed, [Next]_vars PROVE Handed'
<1>0. /\ Calls' = Calls
      /\ cfg' = cfg => (\A c : Due(c)' <=> Due(c)) /\ Connects' = Connects
  BY DEF Calls, Due, HasCA, Connects
<1>1. CASE client_opts_set
  <2>1. cfg' = cfg /\ job' = job /\ clean' = clean /\ pc = "OPTS"
        /\ pc' \in {"OPTS", "CONNECT", "DONE"}
    BY <1>1 DEF client_opts_set, GiveUp, Exit, GoTo, configVars
  <2>2. pc' \notin Before \cup {"ID", "NEW"} /\ Pub' = Pub
    BY <2>1 DEF Before, Configuring, Loading, Pub
  <2>3. CASE pc' = "CONNECT"
    <3>1. PICK k \in DueCalls : Tell(Calls[k]) /\ DueCalls = {k}
      BY <1>1, <2>1, <2>3 DEF client_opts_set, GiveUp, Exit, configVars
    <3>2. \A l \in DOMAIN Calls : Due(Calls[l]) => l = k \/ Told(Calls[l])
      BY <3>1 DEF DueCalls
    <3>3. \A l \in DOMAIN Calls : Due(Calls[l]) => Told(Calls[l])'
      BY <3>1, <3>2, Appends
    <3> QED BY <1>0, <2>1, <2>2, <2>3, <3>3 DEF Handed
  <2> QED BY <2>1, <2>2, <2>3 DEF Handed
<1>2. CASE client_connect
  <2>1. /\ cfg' = cfg /\ job' = job /\ clean' = clean /\ pc = "CONNECT"
        /\ (pc' = "LOOP" /\ Tell(Connects)) \/ pc' = "DONE"
    BY <1>2 DEF client_connect, ConnectFails, GiveUp, Exit, GoTo, Connects, libVars
  <2>2. pc' \notin Before \cup {"ID", "NEW"} /\ Pub' = Pub
    BY <2>1 DEF Before, Configuring, Loading, Pub
  <2>3. CASE pc' = "LOOP"
    <3>1. /\ \A k \in DOMAIN Calls : Due(Calls[k]) => Told(Calls[k])'
          /\ Told(Connects)'
      BY <2>1, <2>3, Appends, <1>0 DEF Handed
    <3> QED BY <1>0, <2>1, <2>2, <2>3, <3>1 DEF Handed
  <2> QED BY <2>1, <2>2, <2>3 DEF Handed
<1>3. CASE mosquitto_new
  <2>1. /\ cfg' = cfg /\ job' = job /\ pc = "NEW"
        /\ (pc' = "OPTS" /\ clean' = (Pub \/ cfg.clean_session)) \/ (pc' = "DONE" /\ clean' = clean)
    BY <1>3 DEF mosquitto_new, GiveUp, Exit, GoTo
  <2>2. pc' \notin Before \cup {"ID", "NEW"} /\ Pub' = Pub
    BY <2>1 DEF Before, Configuring, Loading, Pub
  <2>3. clean' = FALSE => ~Pub' /\ ~cfg'.clean_session
    BY <2>1, <2>2 DEF Handed, Before
  <2> QED BY <2>1, <2>2, <2>3 DEF Handed
<1>4. CASE Next /\ ~(client_opts_set \/ client_connect \/ mosquitto_new)
  <2>1. pc' \notin {"CONNECT", "LOOP"} /\ clean' = clean
    <3>1. CASE Configure
      BY <3>1, ConfigureMoves DEF startVars, libVars, Configuring
    <3>2. CASE ~Configure
      BY <1>4, <3>2 DEF Next, Main, client_config_cleanup, Accepted, load_stdin, load_file,
         ReadFile, FileChanges, Needs, lib_init, client_id_generate, LoopEnds, lib_cleanup,
         GiveUp, GoTo, Exit, configVars, startVars, libVars
    <3> QED BY <3>1, <3>2
  <2>2. job' = job /\ Pub' = Pub /\ (pc \notin Before \cup {"ID", "NEW"} => cfg' = cfg)
        /\ (pc \notin Before \cup {"ID", "NEW"} => pc' \notin Before \cup {"ID", "NEW"})
    BY <1>4, Kept DEF Before, Pub
  <2> QED BY <2>1, <2>2 DEF Handed
<1>5. CASE UNCHANGED vars
  BY <1>0, <1>5 DEF vars, configVars, startVars, libVars, Handed, Told, Pub
<1> QED BY <1>1, <1>2, <1>3, <1>4, <1>5

\* The settings each call is given.
LEMMA ArgumentsOf == \A p \in CallArguments : p[1] \in DOMAIN Arguments /\ Arguments[p[1]] = p[2]
<1> SUFFICES ASSUME NEW p \in CallArguments
             PROVE  p[1] \in DOMAIN Arguments /\ Arguments[p[1]] = p[2]
  OBVIOUS
<1>1. p[1] \in DOMAIN Arguments
  BY DomainOf DEF Arguments
<1>2. PICK q \in CallArguments : q[1] = p[1] /\ Arguments[p[1]] = q[2]
  BY <1>1, PairOf DEF Arguments
<1>3. q = p
  BY <1>2 DEF CallArguments
<1> QED BY <1>1, <1>2, <1>3

\* A call that has been made was given its arguments as they are.
LEMMA ToldFields ==
    ASSUME ToldInv, NEW p \in CallArguments, Told(p[1]), NEW f \in p[2]
    PROVE  WasTold(f, cfg[f])
<1>1. PICK k \in DOMAIN told : told[k].call = p[1]
  BY DEF Told
<1>2. told[k] \in Entries
  BY <1>1 DEF ToldInv
<1>3. PICK c \in DOMAIN Arguments : told[k] = Entry(c)
  BY <1>2 DEF Entries
<1>4. c = p[1]
  BY <1>1, <1>3 DEF Entry
<1>5. told[k].with = [g \in p[2] |-> cfg[g]]
  BY <1>3, <1>4, ArgumentsOf DEF Entry
<1> QED BY <1>1, <1>5 DEF WasTold

\* The field that an option is about.
LEMMA MeansFacts ==
    \A o \in DOMAIN Means :
        \/ o \in DOMAIN Text /\ Means[o] = Text[o]
        \/ o \in {"-p", "-k", "-M", "--will-qos"} /\ Means[o] = Numeric[o][1]
        \/ o = "--will-topic" /\ Means[o] = "will_topic"
<1> DEFINE A == {<<o, Text[o]>> : o \in DOMAIN Text}
           B == {<<o, Numeric[o][1]>> : o \in {"-p", "-k", "-M", "--will-qos"}}
<1>1. ASSUME NEW o \in DOMAIN Means
      PROVE  \E p \in A \cup B \cup {<<"--will-topic", "will_topic">>} : p[1] = o /\ Means[o] = p[2]
  BY PairOf DEF Means
<1> QED BY <1>1

\* What is called before the loop is entered, by the settings that make it due.
LEMMA CallsMade ==
    ASSUME Handed, pc = "LOOP"
    PROVE  /\ cfg.will_topic # None => Told("will_set")
           /\ cfg.username # None => Told("username_pw_set")
           /\ cfg.cafile # None \/ cfg.capath # None => Told("tls_set")
           /\ cfg.psk # None => Told("tls_psk_set")
           /\ cfg.tls_version # None \/ cfg.ciphers # None => Told("tls_opts_set")
           /\ Told("max_inflight_messages_set") /\ Told("opts_set")
           /\ cfg.socks5.ok => Told("socks5_set")
           /\ Told("connect_bind") \/ (cfg.use_srv /\ Told("connect_srv"))
<1>1. \A c \in {"will_set", "username_pw_set", "tls_set", "tls_psk_set", "tls_opts_set",
                "max_inflight_messages_set", "socks5_set", "opts_set"} :
          Due(c) => Told(c)
  <2>1. \A k \in DOMAIN Calls : Due(Calls[k]) => Told(Calls[k])
    BY DEF Handed
  <2>2. /\ 1 \in DOMAIN Calls /\ Calls[1] = "will_set"
        /\ 2 \in DOMAIN Calls /\ Calls[2] = "username_pw_set"
        /\ 3 \in DOMAIN Calls /\ Calls[3] = "tls_set"
        /\ 5 \in DOMAIN Calls /\ Calls[5] = "tls_psk_set"
        /\ 6 \in DOMAIN Calls /\ Calls[6] = "tls_opts_set"
        /\ 7 \in DOMAIN Calls /\ Calls[7] = "max_inflight_messages_set"
        /\ 8 \in DOMAIN Calls /\ Calls[8] = "socks5_set"
        /\ 9 \in DOMAIN Calls /\ Calls[9] = "opts_set"
    BY DEF Calls
  <2> QED BY <2>1, <2>2
<1>2. Told(IF cfg.use_srv THEN "connect_srv" ELSE "connect_bind")
  BY DEF Handed, Connects
<1>3. /\ Due("will_set") <=> cfg.will_topic # None
      /\ Due("username_pw_set") <=> cfg.username # None
      /\ Due("tls_set") <=> cfg.cafile # None \/ cfg.capath # None
      /\ Due("tls_psk_set") <=> cfg.psk # None
      /\ Due("tls_opts_set") <=> cfg.tls_version # None \/ cfg.ciphers # None
      /\ Due("max_inflight_messages_set") /\ Due("opts_set")
      /\ Due("socks5_set") <=> cfg.socks5.ok
  BY DEF Due, HasCA
<1>4. CASE cfg.use_srv
  BY <1>1, <1>2, <1>3, <1>4
<1>5. CASE ~cfg.use_srv
  BY <1>1, <1>2, <1>3, <1>5
<1> QED BY <1>4, <1>5

\* The fields that each call made before the loop hands over.
LEMMA FieldsTold ==
    ASSUME ToldInv, Handed, pc = "LOOP"
    PROVE  /\ cfg.will_topic # None =>
                  \A f \in {"will_topic", "will_payload", "will_qos"} : WasTold(f, cfg[f])
           /\ cfg.username # None => \A f \in {"username", "password"} : WasTold(f, cfg[f])
           /\ cfg.cafile # None \/ cfg.capath # None =>
                  \A f \in {"cafile", "capath", "certfile", "keyfile"} : WasTold(f, cfg[f])
           /\ cfg.psk # None => \A f \in {"psk", "psk_identity"} : WasTold(f, cfg[f])
           /\ cfg.tls_version # None \/ cfg.ciphers # None =>
                  \A f \in {"tls_version", "ciphers"} : WasTold(f, cfg[f])
           /\ \A f \in {"max_inflight", "protocol_version", "host", "keepalive", "bind_address"} :
                  WasTold(f, cfg[f])
           /\ cfg.socks5.ok => WasTold("socks5", cfg["socks5"])
           /\ ~cfg.use_srv => WasTold("port", cfg["port"])
<1>1. \A p \in CallArguments : Told(p[1]) => \A f \in p[2] : WasTold(f, cfg[f])
  BY ToldFields
<1>2. /\ Told("will_set") => \A f \in {"will_topic", "will_payload", "will_qos"} : WasTold(f, cfg[f])
      /\ Told("username_pw_set") => \A f \in {"username", "password"} : WasTold(f, cfg[f])
  BY <1>1 DEF CallArguments
<1>3. /\ Told("tls_set") => \A f \in {"cafile", "capath", "certfile", "keyfile"} : WasTold(f, cfg[f])
      /\ Told("tls_psk_set") => \A f \in {"psk", "psk_identity"} : WasTold(f, cfg[f])
      /\ Told("tls_opts_set") => \A f \in {"tls_version", "ciphers"} : WasTold(f, cfg[f])
  BY <1>1 DEF CallArguments
<1>4. /\ Told("max_inflight_messages_set") => WasTold("max_inflight", cfg["max_inflight"])
      /\ Told("socks5_set") => WasTold("socks5", cfg["socks5"])
      /\ Told("opts_set") => WasTold("protocol_version", cfg["protocol_version"])
  BY <1>1 DEF CallArguments
<1>5. /\ Told("connect_bind") =>
             \A f \in {"host", "port", "keepalive", "bind_address"} : WasTold(f, cfg[f])
      /\ Told("connect_srv") => \A f \in {"host", "keepalive", "bind_address"} : WasTold(f, cfg[f])
  BY <1>1 DEF CallArguments
<1> HIDE <1>1
<1>6. \A f \in {"host", "keepalive", "bind_address"} : WasTold(f, cfg[f])
  BY <1>5, CallsMade
<1>7. ~cfg.use_srv => WasTold("port", cfg["port"])
  BY <1>5, CallsMade
<1> QED BY <1>2, <1>3, <1>4, <1>6, <1>7, CallsMade

\* A value that was given is in its field when the loop is entered.
LEMMA GivenFields ==
    ASSUME AsDeclared(cfg), OthersDeclared, NEW o \in DOMAIN Text, Given(o)
    PROVE  cfg[Text[o]] = LastOf(o) /\ cfg[Text[o]] # None
<1>1. LastOf(o) # None
  BY OwnerFacts DEF OthersDeclared
<1>2. cfg[Text[o]] = LastOf(o)
  <2>1. CASE o = "-h"
    <3>1. Text["-h"] = "host"
      BY <2>1, TextPairs DEF TextOptions
    <3> QED BY <2>1, <3>1 DEF AsDeclared
  <2>2. CASE o # "-h"
    <3>1. o \in DOMAIN Text \ {"-h"}
      BY <2>2
    <3>2. cfg[Text[o]] = IF Given(o) THEN LastOf(o) ELSE None
      BY <3>1, Zenon DEF AsDeclared
    <3> QED BY <3>2
  <2> QED BY <2>1, <2>2
<1> QED BY <1>1, <1>2

\* The fields of the texts.
LEMMA TextFieldsAre ==
    /\ Text["-A"] = "bind_address" /\ Text["--cafile"] = "cafile" /\ Text["--capath"] = "capath"
    /\ Text["--cert"] = "certfile" /\ Text["--ciphers"] = "ciphers" /\ Text["-h"] = "host"
    /\ Text["--key"] = "keyfile" /\ Text["--psk"] = "psk"
    /\ Text["--psk-identity"] = "psk_identity" /\ Text["--tls-version"] = "tls_version"
    /\ Text["-u"] = "username" /\ Text["-P"] = "password" /\ Text["--will-payload"] = "will_payload"
<1>1. \A o \in DOMAIN Text : <<o, Text[o]>> \in TextOptions
  BY TextPairs
<1>2. ASSUME NEW p \in TextOptions PROVE Text[p[1]] = p[2]
  <2>1. p[1] \in DOMAIN Text
    BY DomainOf DEF Text
  <2>2. <<p[1], Text[p[1]]>> \in TextOptions
    BY <1>1, <2>1
  <2> QED BY <2>2 DEF TextOptions
<1> QED BY <1>2 DEF TextOptions

\* Every text that was given and has an effect is handed over.
LEMMA TextTold ==
    ASSUME ToldInv, Handed, pc = "LOOP", Consistent, AsDeclared(cfg), OthersDeclared,
           NEW o \in DOMAIN Text, Given(o), o \notin WithoutEffect
    PROVE  WasTold(Text[o], LastOf(o))
<1>1. cfg[Text[o]] = LastOf(o) /\ cfg[Text[o]] # None
  BY GivenFields
<1>2. /\ Given("--cafile") => cfg.cafile # None
      /\ Given("--capath") => cfg.capath # None
      /\ Given("--psk") => cfg.psk # None
      /\ Given("-u") => cfg.username # None
      /\ Given("--will-topic") => cfg.will_topic # None
  <2>1. Given("--cafile") => cfg.cafile # None
    BY GivenFields, TextFieldsAre, TextDomain
  <2>2. Given("--capath") => cfg.capath # None
    BY GivenFields, TextFieldsAre, TextDomain
  <2>3. Given("--psk") => cfg.psk # None
    BY GivenFields, TextFieldsAre, TextDomain
  <2>4. Given("-u") => cfg.username # None
    BY GivenFields, TextFieldsAre, TextDomain
  <2>5. <<"--will-topic", "will_topic">> \in KeptOptions
    BY DEF KeptOptions
  <2>6. Given("--will-topic") => cfg.will_topic # None
    BY <2>5 DEF OthersDeclared
  <2> QED BY <2>1, <2>2, <2>3, <2>4, <2>6
<1>3. CASE o \in {"-A", "-h"}
  BY <1>1, <1>3, FieldsTold, TextFieldsAre
<1>4. CASE o \in {"--cafile", "--capath"}
  BY <1>1, <1>4, FieldsTold, TextFieldsAre
<1>5. CASE o \in {"--cert", "--key"}
  <2>1. Given("--cafile") \/ Given("--capath")
    BY <1>5 DEF WithoutEffect
  <2> QED BY <1>1, <1>2, <1>5, <2>1, FieldsTold, TextFieldsAre
<1>6. CASE o \in {"--ciphers", "--tls-version"}
  BY <1>1, <1>6, FieldsTold, TextFieldsAre
<1>7. CASE o \in {"--psk", "--psk-identity"}
  <2>1. Given("--psk")
    BY <1>7 DEF WithoutEffect
  <2> QED BY <1>1, <1>2, <1>7, <2>1, FieldsTold, TextFieldsAre
<1>8. CASE o \in {"-u", "-P"}
  <2>1. Given("-u")
    BY <1>8 DEF WithoutEffect
  <2> QED BY <1>1, <1>2, <1>8, <2>1, FieldsTold, TextFieldsAre
<1>9. CASE o = "--will-payload"
  <2>1. Given("--will-topic")
    BY <1>9 DEF Consistent
  <2> QED BY <1>1, <1>2, <1>9, <2>1, FieldsTold, TextFieldsAre
<1> QED BY <1>3, <1>4, <1>5, <1>6, <1>7, <1>8, <1>9, TextDomain

\* The fields of the numbers.
LEMMA NumericFieldsAre ==
    /\ Numeric["-p"][1] = "port" /\ Numeric["-k"][1] = "keepalive"
    /\ Numeric["-M"][1] = "max_inflight" /\ Numeric["--will-qos"][1] = "will_qos"
<1>1. \A o \in DOMAIN Numeric : <<o, Numeric[o]>> \in NumericOptions
  BY NumericPairs
<1> QED BY <1>1, NumericDomain DEF NumericOptions

\* Every number that was given and has an effect is handed over.
LEMMA NumberTold ==
    ASSUME ToldInv, Handed, pc = "LOOP", Consistent, AsDeclared(cfg), OthersDeclared,
           NEW o \in {"-p", "-k", "-M", "--will-qos"}, Given(o), o \notin WithoutEffect
    PROVE  WasTold(Numeric[o][1], NumberOf(LastOf(o)))
<1>1. NumberOf(LastOf(o)) = cfg[Numeric[o][1]]
  <2>1. o \in DOMAIN Numeric
    BY NumericDomain
  <2> QED BY <2>1 DEF AsDeclared
<1>2. CASE o \in {"-k", "-M"}
  BY <1>1, <1>2, FieldsTold, NumericFieldsAre
<1>3. CASE o = "-p"
  <2>1. ~Given("-S")
    BY <1>3 DEF WithoutEffect
  <2>2. ~cfg.use_srv
    BY <2>1 DEF OthersDeclared
  <2> QED BY <1>1, <1>3, <2>2, FieldsTold, NumericFieldsAre
<1>4. CASE o = "--will-qos"
  <2>1. Given("--will-topic")
    BY <1>4 DEF WithoutEffect
  <2>2. <<"--will-topic", "will_topic">> \in KeptOptions
    BY DEF KeptOptions
  <2>3. cfg.will_topic # None
    BY <2>1, <2>2 DEF OthersDeclared
  <2> QED BY <1>1, <1>4, <2>3, FieldsTold, NumericFieldsAre
<1> QED BY <1>2, <1>3, <1>4

\* The invariants give what the property asks.
LEMMA AllTold ==
    ASSUME Typed, Declares, Handed
    PROVE  SettingsReachLibrary
<1> SUFFICES ASSUME pc = "LOOP", Complete
             PROVE  /\ \A o \in DOMAIN Means \ WithoutEffect :
                          Given(o) => WasTold(Means[o], ValueOf(o))
                    /\ Given("--proxy") => WasTold("socks5", Proxy[job.url])
                    /\ Given("-V") => WasTold("protocol_version", Version[LastOf("-V")])
                    /\ ~clean => Given("-i") /\ cfg.id = LastOf("-i")
  BY DEF SettingsReachLibrary
<1>1. Consistent /\ AsDeclared(cfg) /\ OthersDeclared /\ ToldInv
  BY DEF Declares, Running, Typed
<1>2. ASSUME NEW o \in DOMAIN Means, o \notin WithoutEffect, Given(o)
      PROVE  WasTold(Means[o], ValueOf(o))
  <2>1. CASE o \in DOMAIN Text /\ Means[o] = Text[o]
    <3>1. ValueOf(o) = LastOf(o)
      BY <2>1, TextDomain, NumericDomain DEF ValueOf
    <3>2. WasTold(Text[o], LastOf(o))
      BY <1>1, <1>2, <2>1, TextTold
    <3> QED BY <2>1, <3>1, <3>2
  <2>2. CASE o \in {"-p", "-k", "-M", "--will-qos"} /\ Means[o] = Numeric[o][1]
    <3>1. ValueOf(o) = NumberOf(LastOf(o))
      BY <2>2, NumericDomain DEF ValueOf
    <3>2. WasTold(Numeric[o][1], NumberOf(LastOf(o)))
      BY <1>1, <1>2, <2>2, NumberTold
    <3> QED BY <2>2, <3>1, <3>2
  <2>3. CASE o = "--will-topic" /\ Means[o] = "will_topic"
    <3>1. ValueOf(o) = LastOf(o)
      BY <2>3, NumericDomain DEF ValueOf
    <3>2. <<"--will-topic", "will_topic">> \in KeptOptions
      BY DEF KeptOptions
    <3>3. cfg.will_topic = LastOf(o) /\ cfg.will_topic # None
      BY <1>1, <1>2, <2>3, <3>2 DEF OthersDeclared
    <3>4. WasTold("will_topic", cfg["will_topic"])
      BY <1>1, <3>3, FieldsTold
    <3> QED BY <2>3, <3>1, <3>3, <3>4
  <2> QED BY <2>1, <2>2, <2>3, MeansFacts
<1>3. Given("--proxy") => WasTold("socks5", Proxy[job.url])
  <2>1. Given("--proxy") => cfg.socks5 = Proxy[job.url] /\ cfg.socks5.ok
    BY <1>1 DEF OthersDeclared
  <2>2. cfg.socks5.ok => WasTold("socks5", cfg["socks5"])
    BY <1>1, FieldsTold
  <2> QED BY <2>1, <2>2
<1>4. Given("-V") => WasTold("protocol_version", Version[LastOf("-V")])
  <2>1. Given("-V") => cfg.protocol_version = Version[LastOf("-V")]
    BY <1>1 DEF OthersDeclared
  <2>2. WasTold("protocol_version", cfg["protocol_version"])
    BY <1>1, FieldsTold
  <2> QED BY <2>1, <2>2
<1>5. ~clean => Given("-i") /\ cfg.id = LastOf("-i")
  <2>1. ~clean => clean = FALSE
    BY DEF Typed, Machine
  <2>2. clean = FALSE => ~Pub /\ ~cfg.clean_session
    BY DEF Handed
  <2>3. cfg.clean_session \in BOOLEAN
    BY <1>1 DEF OthersDeclared
  <2>4. cfg.clean_session = FALSE /\ ~Pub => Given("-i") /\ cfg.id = LastOf("-i")
    BY <1>1 DEF OthersDeclared
  <2> QED BY <2>1, <2>2, <2>3, <2>4
<1> QED BY <1>2, <1>3, <1>4, <1>5

\* Both invariants hold on every behaviour.
LEMMA HandedInvariant == Spec => [](Declares /\ Handed)
<1> DEFINE Both == Declares /\ Handed
<1>1. Typed => job \in Jobs /\ HasFields /\ InOrder /\ Machine /\ ToldInv
  BY DEF Typed, Loads, CfgType
<1>2. Init => Both
  <2>1. Init => pc = "FILE" /\ clean = TRUE
    BY DEF Init, ConfigInit
  <2>2. Init => Declares
    BY <2>1 DEF Declares, Running
  <2>3. Init => Handed
    BY <2>1 DEF Handed
  <2> QED BY <2>2, <2>3
<1>3. Typed /\ Reading /\ Both /\ [Next]_vars => Both'
  BY <1>1, DeclaresStep, HandedStep
<1>4. Reading /\ AcceptedAsDeclared => Reading
  OBVIOUS
<1> HIDE DEF Both
<1>5. Spec => []Both
  BY <1>2, <1>3, <1>4, TypedInvariant, ReadingInvariant, PTL DEF Spec
<1> QED BY <1>5 DEF Both

\* What the user declared for the connection is what the library has been told when
\* the loop is entered, from the last value given, whatever the order of the
\* options and whichever of them stand in the config file.
THEOREM SettingsAreTold == Spec => []SettingsReachLibrary
<1>1. Typed /\ (Declares /\ Handed) => SettingsReachLibrary
  BY AllTold
<1> QED BY <1>1, TypedInvariant, HandedInvariant, PTL

-----------------------------------------------------------------------------
(* What a proxy url says, by the places of its stops *)

Chars == Seq(STRING)
Stops == {":", "@"}
Piece(s, i, j) == SubSeq(s, i, j)
Free(s, i, j, stops) == \A m \in i..j : s[m] \notin stops

\* A set of numbers has a least one.
LEMMA LeastOf ==
    ASSUME NEW S \in SUBSET Nat, S # {}
    PROVE  \E n \in S : \A m \in S : n <= m
<1> DEFINE R == {ss \in Nat \X Nat : ss[1] < ss[2]}
<1>1. IsWellFoundedOn(R, Nat)
  BY NatLessThanWellFounded DEF OpToRel
<1> HIDE DEF R
<1>2. \E x \in S : \A y \in S : ~ (<<y, x>> \in R)
  BY <1>1, WFMin
<1>3. \A x, y \in S : ~ (<<y, x>> \in R) => x <= y
  BY DEF R
<1> QED BY <1>2, <1>3

\* The characters of a piece of a text, and what kind of a text it is.
LEMMA PieceIs ==
    ASSUME NEW s \in Chars, NEW i \in 1..(Len(s) + 1), NEW j \in 0..Len(s)
    PROVE  LET t == Piece(s, i, j)
           IN  /\ t \in Chars /\ (t = NULL <=> j < i)
               /\ Len(t) = IF i <= j THEN j - i + 1 ELSE 0
               /\ \A m \in 1..(j - i + 1) : t[m] = s[i + m - 1]
<1> DEFINE t == Piece(s, i, j)
<1>1. Len(s) \in Nat /\ \A m \in 1..Len(s) : s[m] \in STRING
  BY LenProperties, ElementOfSeq DEF Chars
<1>2. /\ t \in Seq(STRING) /\ Len(t) = (IF i <= j THEN j - i + 1 ELSE 0)
      /\ \A m \in 1..(j - i + 1) : t[m] = s[i + m - 1]
  <2>1. i \in Int /\ j \in Int /\ \A m \in i..j : s[m] \in STRING
    BY <1>1
  <2> QED BY <2>1, SubSeqProperties DEF Piece
<1>3. t = <<>> <=> j < i
  BY <1>1, <1>2, EmptySeq
<1> QED BY <1>2, <1>3 DEF Chars, NULL

\* What a piece holds, by the places of the text.
LEMMA PieceHolds ==
    ASSUME NEW s \in Chars, NEW i \in 1..(Len(s) + 1), NEW j \in 0..Len(s)
    PROVE  /\ \A c : Contains(Piece(s, i, j), c) <=> \E m \in i..j : s[m] = c
           /\ Plain(Piece(s, i, j)) <=> i <= j /\ Free(s, i, j, Stops)
           /\ Opaque(Piece(s, i, j)) <=> i <= j /\ s[i] # ":" /\ Free(s, i, j, {"@"})
<1> DEFINE t == Piece(s, i, j)
<1>1. /\ t \in Chars /\ (t = NULL <=> j < i) /\ Len(t) = (IF i <= j THEN j - i + 1 ELSE 0)
      /\ \A m \in 1..(j - i + 1) : t[m] = s[i + m - 1]
  BY PieceIs
<1>2. Len(s) \in Nat
  BY LenProperties DEF Chars
<1> HIDE DEF t
<1>3. \A c : Contains(t, c) <=> \E m \in i..j : s[m] = c
  <2> SUFFICES ASSUME NEW c PROVE (\E m \in 1..Len(t) : t[m] = c) <=> \E m \in i..j : s[m] = c
    BY DEF Contains
  <2>1. ASSUME NEW m \in 1..Len(t), t[m] = c PROVE \E k \in i..j : s[k] = c
    <3>1. i + m - 1 \in i..j /\ s[i + m - 1] = c
      BY <1>1, <1>2, <2>1
    <3> QED BY <3>1
  <2>2. ASSUME NEW m \in i..j, s[m] = c PROVE \E k \in 1..Len(t) : t[k] = c
    <3>1. m - i + 1 \in 1..Len(t) /\ i + (m - i + 1) - 1 = m
      BY <1>1, <1>2
    <3>2. t[m - i + 1] = c
      BY <1>1, <1>2, <2>2, <3>1
    <3> QED BY <3>1, <3>2
  <2> QED BY <2>1, <2>2
<1>4. i <= j => Head(t) = s[i]
  <2> SUFFICES ASSUME i <= j PROVE Head(t) = s[i]
    OBVIOUS
  <2>1. 1 \in 1..(j - i + 1) /\ i + 1 - 1 = i
    BY <1>2
  <2>2. t[1] = s[i]
    BY <1>1, <2>1
  <2>3. Head(t) = t[1]
    BY <1>1, EmptySeq DEF Chars
  <2> QED BY <2>2, <2>3
<1>5. t # <<>> <=> i <= j
  BY <1>1, <1>2 DEF NULL
<1>6. Plain(t) <=> i <= j /\ Free(s, i, j, Stops)
  BY <1>3, <1>5 DEF Plain, Free, Stops
<1>7. Opaque(t) <=> i <= j /\ s[i] # ":" /\ Free(s, i, j, {"@"})
  BY <1>3, <1>4, <1>5 DEF Opaque, Free
<1> QED BY <1>3, <1>6, <1>7 DEF t

\* What stands before and after a place of a piece.
LEMMA PieceOfPiece ==
    ASSUME NEW s \in Chars, NEW i \in 1..(Len(s) + 1), NEW j \in 0..Len(s),
           NEW k \in i..j
    PROVE  LET t == Piece(s, i, j)  n == k - i + 1
           IN  /\ n \in DOMAIN t /\ t[n] = s[k]
               /\ SubSeq(t, 1, n - 1) = Piece(s, i, k - 1)
               /\ SubSeq(t, n + 1, Len(t)) = Piece(s, k + 1, j)
<1> DEFINE t == Piece(s, i, j)  n == k - i + 1
<1>0. Len(s) \in Nat /\ i \in 1..Len(s) /\ j \in 1..Len(s) /\ i <= j
  BY LenProperties DEF Chars
<1>1. /\ t \in Chars /\ Len(t) = j - i + 1
      /\ \A m \in 1..(j - i + 1) : t[m] = s[i + m - 1]
  BY <1>0, PieceIs
<1> HIDE DEF t
<1>2. n \in 1..Len(t) /\ i + n - 1 = k
  BY <1>0, <1>1
<1>3. n \in DOMAIN t /\ t[n] = s[k]
  BY <1>1, <1>2, LenProperties DEF Chars
<1>4. ASSUME NEW a \in 1..(Len(t) + 1), NEW b \in 0..Len(t)
      PROVE  SubSeq(t, a, b) = Piece(s, i + a - 1, i + b - 1)
  <2> DEFINE x == Piece(t, a, b)  a2 == i + a - 1  b2 == i + b - 1  y == Piece(s, a2, b2)
  <2>1. a2 \in 1..(Len(s) + 1) /\ b2 \in 0..Len(s) /\ (a <= b <=> a2 <= b2) /\ b2 - a2 = b - a
        /\ a \in Int /\ b \in Int
    BY <1>0, <1>1
  <2>2. /\ x \in Chars /\ Len(x) = (IF a <= b THEN b - a + 1 ELSE 0)
        /\ \A m \in 1..(b - a + 1) : x[m] = t[a + m - 1]
    BY <1>1, PieceIs
  <2> HIDE DEF a2, b2
  <2>3. /\ y \in Chars /\ Len(y) = (IF a2 <= b2 THEN b2 - a2 + 1 ELSE 0)
        /\ \A m \in 1..(b2 - a2 + 1) : y[m] = s[a2 + m - 1]
    BY <2>1, PieceIs
  <2>4. Len(x) = Len(y)
    BY <2>1, <2>2, <2>3
  <2>5. ASSUME NEW m \in 1..Len(x) PROVE x[m] = y[m]
    <3>1. a <= b /\ m \in 1..(b - a + 1) /\ m \in 1..(b2 - a2 + 1)
      BY <2>1, <2>2
    <3>2. a + m - 1 \in 1..(j - i + 1) /\ i + (a + m - 1) - 1 = a2 + m - 1
      BY <1>0, <1>1, <3>1 DEF a2
    <3>3. t[a + m - 1] = s[a2 + m - 1]
      BY <1>1, <3>2
    <3> QED BY <2>2, <2>3, <3>1, <3>3
  <2> HIDE DEF x, y
  <2>6. x = y
    BY <2>2, <2>3, <2>4, <2>5, SeqEqual DEF Chars
  <2> QED BY <2>6 DEF x, y, a2, b2, Piece
<1>5. SubSeq(t, 1, n - 1) = Piece(s, i, k - 1)
  <2>1. 1 \in 1..(Len(t) + 1) /\ n - 1 \in 0..Len(t) /\ i + 1 - 1 = i /\ i + (n - 1) - 1 = k - 1
    BY <1>0, <1>1, <1>2
  <2>2. SubSeq(t, 1, n - 1) = Piece(s, i + 1 - 1, i + (n - 1) - 1)
    BY <1>4, <2>1
  <2> QED BY <2>1, <2>2
<1>6. SubSeq(t, n + 1, Len(t)) = Piece(s, k + 1, j)
  <2>1. /\ n + 1 \in 1..(Len(t) + 1) /\ Len(t) \in 0..Len(t)
        /\ i + (n + 1) - 1 = k + 1 /\ i + Len(t) - 1 = j
    BY <1>0, <1>1, <1>2
  <2>2. SubSeq(t, n + 1, Len(t)) = Piece(s, i + (n + 1) - 1, i + Len(t) - 1)
    BY <1>4, <2>1
  <2> QED BY <2>1, <2>2
<1> QED BY <1>3, <1>5, <1>6 DEF t

\* Every place of a piece is one of the text.
LEMMA PlaceOfPiece ==
    ASSUME NEW s \in Chars, NEW i \in 1..(Len(s) + 1), NEW j \in 0..Len(s),
           NEW n \in DOMAIN Piece(s, i, j)
    PROVE  \E k \in i..j : n = k - i + 1
<1> DEFINE t == Piece(s, i, j)
<1>1. /\ t \in Chars /\ Len(t) = (IF i <= j THEN j - i + 1 ELSE 0) /\ Len(s) \in Nat
  BY PieceIs, LenProperties DEF Chars
<1>2. n \in 1..Len(t)
  BY <1>1, LenProperties DEF Chars
<1> HIDE DEF t
<1>3. n + i - 1 \in i..j /\ n = (n + i - 1) - i + 1
  BY <1>1, <1>2
<1> QED BY <1>3

-----------------------------------------------------------------------------
(* The readings of a url *)

\* The user's part of a text whose first @ comes after j, and the address from i on.
UserAt(s, j, u) ==
    \/ /\ 1 <= j /\ Free(s, 1, j, Stops)
       /\ u = [username |-> Piece(s, 1, j), password |-> NULL]
    \/ \E k \in 1..j :
          /\ s[k] = ":" /\ 1 <= k - 1 /\ Free(s, 1, k - 1, Stops)
          /\ k + 1 <= j /\ s[k + 1] # ":" /\ Free(s, k + 1, j, {"@"})
          /\ u = [username |-> Piece(s, 1, k - 1), password |-> Piece(s, k + 1, j)]
PortAt(s, i, user) ==
    IF user THEN Free(s, i, Len(s), Stops)
    ELSE i <= Len(s) /\ s[i] # ":" /\ Free(s, i, Len(s), {"@"})
AddressAt(s, i, user, a) ==
    \/ /\ i <= Len(s) /\ Free(s, i, Len(s), Stops)
       /\ a = [host |-> Piece(s, i, Len(s)), port |-> NULL]
    \/ \E h \in i..Len(s) :
          /\ s[h] = ":" /\ i <= h - 1 /\ Free(s, i, h - 1, Stops) /\ PortAt(s, h + 1, user)
          /\ a = [host |-> Piece(s, i, h - 1), port |-> Piece(s, h + 1, Len(s))]

\* What a cut is.
LEMMA CutIs ==
    ASSUME NEW t, NEW c, NEW x
    PROVE  x \in Cuts(t, c) <=>
               \E n \in DOMAIN t : t[n] = c /\ x = <<SubSeq(t, 1, n - 1), SubSeq(t, n + 1, Len(t))>>
BY DEF Cuts

\* The cuts of a piece, by the places of the text.
LEMMA CutOfPiece ==
    ASSUME NEW s \in Chars, NEW i \in 1..(Len(s) + 1), NEW j \in 0..Len(s), NEW c, NEW x
    PROVE  x \in Cuts(Piece(s, i, j), c) <=>
               \E k \in i..j : s[k] = c /\ x = <<Piece(s, i, k - 1), Piece(s, k + 1, j)>>
<1> DEFINE t == Piece(s, i, j)
<1>1. ASSUME NEW k \in i..j, s[k] = c, x = <<Piece(s, i, k - 1), Piece(s, k + 1, j)>>
      PROVE  x \in Cuts(t, c)
  <2> DEFINE n == k - i + 1
  <2>1. /\ n \in DOMAIN t /\ t[n] = s[k] /\ SubSeq(t, 1, n - 1) = Piece(s, i, k - 1)
        /\ SubSeq(t, n + 1, Len(t)) = Piece(s, k + 1, j)
    BY PieceOfPiece
  <2> HIDE DEF n, t
  <2>2. t[n] = c /\ x = <<SubSeq(t, 1, n - 1), SubSeq(t, n + 1, Len(t))>>
    BY <1>1, <2>1
  <2> QED BY <2>1, <2>2, CutIs
<1>2. ASSUME NEW n \in DOMAIN t, t[n] = c, x = <<SubSeq(t, 1, n - 1), SubSeq(t, n + 1, Len(t))>>
      PROVE  \E k \in i..j : s[k] = c /\ x = <<Piece(s, i, k - 1), Piece(s, k + 1, j)>>
  <2>1. PICK k \in i..j : n = k - i + 1
    BY PlaceOfPiece
  <2>2. /\ t[n] = s[k] /\ SubSeq(t, 1, n - 1) = Piece(s, i, k - 1)
        /\ SubSeq(t, n + 1, Len(t)) = Piece(s, k + 1, j)
    BY <2>1, PieceOfPiece
  <2> HIDE DEF t
  <2> QED BY <1>2, <2>2
<1> HIDE DEF t
<1>3. x \in Cuts(t, c) => \E k \in i..j : s[k] = c /\ x = <<Piece(s, i, k - 1), Piece(s, k + 1, j)>>
  BY <1>2, CutIs
<1> QED BY <1>1, <1>3 DEF t

\* The users a piece names.
LEMMA UsersByPlace ==
    ASSUME NEW s \in Chars, NEW j \in 0..Len(s), NEW u
    PROVE  u \in Users(Piece(s, 1, j)) <=> UserAt(s, j, u)
<1> DEFINE t == Piece(s, 1, j)
<1>0. Len(s) \in Nat /\ 1 \in 1..(Len(s) + 1)
  BY LenProperties DEF Chars
<1>1. u \in Users(t) <=>
         \/ Plain(t) /\ u = [username |-> t, password |-> NULL]
         \/ \E x \in Cuts(t, ":") :
               Plain(x[1]) /\ Opaque(x[2]) /\ u = [username |-> x[1], password |-> x[2]]
  <2> HIDE DEF t
  <2> QED BY DEF Users
<1>2. Plain(t) <=> 1 <= j /\ Free(s, 1, j, Stops)
  BY <1>0, PieceHolds
<1>3. (\E x \in Cuts(t, ":") :
          Plain(x[1]) /\ Opaque(x[2]) /\ u = [username |-> x[1], password |-> x[2]])
      <=> \E k \in 1..j : /\ s[k] = ":" /\ Plain(Piece(s, 1, k - 1)) /\ Opaque(Piece(s, k + 1, j))
                          /\ u = [username |-> Piece(s, 1, k - 1), password |-> Piece(s, k + 1, j)]
  <2>1. \A x : x \in Cuts(t, ":") <=>
            \E k \in 1..j : s[k] = ":" /\ x = <<Piece(s, 1, k - 1), Piece(s, k + 1, j)>>
    <3> TAKE x
    <3> QED BY <1>0, CutOfPiece
  <2> HIDE DEF t
  <2>2. ASSUME NEW x \in Cuts(t, ":"), Plain(x[1]), Opaque(x[2]),
               u = [username |-> x[1], password |-> x[2]]
        PROVE  \E k \in 1..j : /\ s[k] = ":" /\ Plain(Piece(s, 1, k - 1)) /\ Opaque(Piece(s, k + 1, j))
                               /\ u = [username |-> Piece(s, 1, k - 1), password |-> Piece(s, k + 1, j)]
    <3>1. PICK k \in 1..j : s[k] = ":" /\ x = <<Piece(s, 1, k - 1), Piece(s, k + 1, j)>>
      BY <2>1
    <3>2. x[1] = Piece(s, 1, k - 1) /\ x[2] = Piece(s, k + 1, j)
      BY <3>1
    <3> QED BY <2>2, <3>1, <3>2
  <2>3. ASSUME NEW k \in 1..j, s[k] = ":", Plain(Piece(s, 1, k - 1)), Opaque(Piece(s, k + 1, j)),
               u = [username |-> Piece(s, 1, k - 1), password |-> Piece(s, k + 1, j)]
        PROVE  \E x \in Cuts(t, ":") :
                   Plain(x[1]) /\ Opaque(x[2]) /\ u = [username |-> x[1], password |-> x[2]]
    <3> DEFINE x == <<Piece(s, 1, k - 1), Piece(s, k + 1, j)>>
    <3>1. x \in Cuts(t, ":")
      BY <2>1, <2>3
    <3>2. x[1] = Piece(s, 1, k - 1) /\ x[2] = Piece(s, k + 1, j)
      OBVIOUS
    <3> HIDE DEF x
    <3> QED BY <2>3, <3>1, <3>2
  <2> QED BY <2>2, <2>3
<1>4. ASSUME NEW k \in 1..j
      PROVE  /\ Plain(Piece(s, 1, k - 1)) <=> 1 <= k - 1 /\ Free(s, 1, k - 1, Stops)
             /\ Opaque(Piece(s, k + 1, j)) <=>
                    k + 1 <= j /\ s[k + 1] # ":" /\ Free(s, k + 1, j, {"@"})
  <2>1. k - 1 \in 0..Len(s) /\ k + 1 \in 1..(Len(s) + 1)
    BY <1>0
  <2> QED BY <1>0, <2>1, PieceHolds
<1> HIDE DEF t
<1>5. (\E k \in 1..j : /\ s[k] = ":" /\ Plain(Piece(s, 1, k - 1)) /\ Opaque(Piece(s, k + 1, j))
                       /\ u = [username |-> Piece(s, 1, k - 1), password |-> Piece(s, k + 1, j)])
      <=> \E k \in 1..j :
            /\ s[k] = ":" /\ 1 <= k - 1 /\ Free(s, 1, k - 1, Stops)
            /\ k + 1 <= j /\ s[k + 1] # ":" /\ Free(s, k + 1, j, {"@"})
            /\ u = [username |-> Piece(s, 1, k - 1), password |-> Piece(s, k + 1, j)]
  BY <1>4
<1> QED BY <1>1, <1>2, <1>3, <1>5 DEF UserAt, t

\* The addresses the rest of a text names.
LEMMA AddressesByPlace ==
    ASSUME NEW s \in Chars, NEW i \in 1..(Len(s) + 1), NEW user \in BOOLEAN, NEW a
    PROVE  a \in Addresses(Piece(s, i, Len(s)), user) <=> AddressAt(s, i, user, a)
<1> DEFINE j == Len(s)  t == Piece(s, i, j)
<1>0. j \in Nat /\ j \in 0..Len(s)
  BY LenProperties DEF Chars
<1>1. a \in Addresses(t, user) <=>
         \/ Plain(t) /\ a = [host |-> t, port |-> NULL]
         \/ \E x \in Cuts(t, ":") :
               Plain(x[1]) /\ Port(x[2], user) /\ a = [host |-> x[1], port |-> x[2]]
  <2> HIDE DEF t
  <2> QED BY DEF Addresses
<1>2. Plain(t) <=> i <= j /\ Free(s, i, j, Stops)
  BY <1>0, PieceHolds
<1>3. (\E x \in Cuts(t, ":") :
          Plain(x[1]) /\ Port(x[2], user) /\ a = [host |-> x[1], port |-> x[2]])
      <=> \E k \in i..j : /\ s[k] = ":" /\ Plain(Piece(s, i, k - 1)) /\ Port(Piece(s, k + 1, j), user)
                          /\ a = [host |-> Piece(s, i, k - 1), port |-> Piece(s, k + 1, j)]
  <2>1. \A x : x \in Cuts(t, ":") <=>
            \E k \in i..j : s[k] = ":" /\ x = <<Piece(s, i, k - 1), Piece(s, k + 1, j)>>
    <3> TAKE x
    <3> QED BY <1>0, CutOfPiece
  <2> HIDE DEF t, j
  <2>2. ASSUME NEW x \in Cuts(t, ":"), Plain(x[1]), Port(x[2], user),
               a = [host |-> x[1], port |-> x[2]]
        PROVE  \E k \in i..j : /\ s[k] = ":" /\ Plain(Piece(s, i, k - 1)) /\ Port(Piece(s, k + 1, j), user)
                               /\ a = [host |-> Piece(s, i, k - 1), port |-> Piece(s, k + 1, j)]
    <3>1. PICK k \in i..j : s[k] = ":" /\ x = <<Piece(s, i, k - 1), Piece(s, k + 1, j)>>
      BY <2>1
    <3>2. x[1] = Piece(s, i, k - 1) /\ x[2] = Piece(s, k + 1, j)
      BY <3>1
    <3> QED BY <2>2, <3>1, <3>2
  <2>3. ASSUME NEW k \in i..j, s[k] = ":", Plain(Piece(s, i, k - 1)), Port(Piece(s, k + 1, j), user),
               a = [host |-> Piece(s, i, k - 1), port |-> Piece(s, k + 1, j)]
        PROVE  \E x \in Cuts(t, ":") :
                   Plain(x[1]) /\ Port(x[2], user) /\ a = [host |-> x[1], port |-> x[2]]
    <3> DEFINE x == <<Piece(s, i, k - 1), Piece(s, k + 1, j)>>
    <3>1. x \in Cuts(t, ":")
      BY <2>1, <2>3
    <3>2. x[1] = Piece(s, i, k - 1) /\ x[2] = Piece(s, k + 1, j)
      OBVIOUS
    <3> HIDE DEF x
    <3> QED BY <2>3, <3>1, <3>2
  <2> QED BY <2>2, <2>3
<1>4. ASSUME NEW k \in i..j
      PROVE  /\ Plain(Piece(s, i, k - 1)) <=> i <= k - 1 /\ Free(s, i, k - 1, Stops)
             /\ Port(Piece(s, k + 1, j), user) <=> PortAt(s, k + 1, user)
  <2>1. k - 1 \in 0..Len(s) /\ k + 1 \in 1..(Len(s) + 1)
    BY <1>0
  <2>2. Plain(Piece(s, i, k - 1)) <=> i <= k - 1 /\ Free(s, i, k - 1, Stops)
    BY <2>1, PieceHolds
  <2> DEFINE t2 == Piece(s, k + 1, j)
  <2>3. /\ t2 = <<>> <=> j < k + 1
        /\ Plain(t2) <=> k + 1 <= j /\ Free(s, k + 1, j, Stops)
        /\ Opaque(t2) <=> k + 1 <= j /\ s[k + 1] # ":" /\ Free(s, k + 1, j, {"@"})
    BY <1>0, <2>1, PieceHolds, PieceIs DEF NULL
  <2> HIDE DEF t2
  <2>4. t2 = <<>> \/ Plain(t2) <=> Free(s, k + 1, j, Stops)
    <3>1. j < k + 1 => Free(s, k + 1, j, Stops)
      BY <1>0 DEF Free
    <3>2. j < k + 1 \/ k + 1 <= j
      BY <1>0
    <3> QED BY <2>3, <3>1, <3>2
  <2>5. Port(t2, user) <=> PortAt(s, k + 1, user)
    BY <2>3, <2>4 DEF Port, PortAt
  <2> QED BY <2>2, <2>5 DEF t2
<1> HIDE DEF t
<1>5. (\E k \in i..j : /\ s[k] = ":" /\ Plain(Piece(s, i, k - 1)) /\ Port(Piece(s, k + 1, j), user)
                       /\ a = [host |-> Piece(s, i, k - 1), port |-> Piece(s, k + 1, j)])
      <=> \E k \in i..j :
            /\ s[k] = ":" /\ i <= k - 1 /\ Free(s, i, k - 1, Stops) /\ PortAt(s, k + 1, user)
            /\ a = [host |-> Piece(s, i, k - 1), port |-> Piece(s, k + 1, j)]
  BY <1>4
<1> QED BY <1>1, <1>2, <1>3, <1>5 DEF AddressAt, t

\* The readings of a text.
ReadingAt(s, r) ==
    \/ \E a : AddressAt(s, 1, FALSE, a) /\ r = Said(Nobody, a)
    \/ \E k \in 1..Len(s) : \E u, a :
          s[k] = "@" /\ UserAt(s, k - 1, u) /\ AddressAt(s, k + 1, TRUE, a) /\ r = Said(u, a)

\* A text as a whole is a piece of itself.
LEMMA WholeIsPiece == ASSUME NEW s \in Chars PROVE Piece(s, 1, Len(s)) = s
BY SubSeqFull DEF Piece, Chars

\* What a text says, by the places of its stops.
LEMMA ReadingsByPlace ==
    ASSUME NEW s \in Chars, NEW r
    PROVE  r \in Readings(s) <=> ReadingAt(s, r)
<1> DEFINE j == Len(s)
<1>0. /\ j \in Nat /\ 1 \in 1..(Len(s) + 1) /\ j \in 0..Len(s)
  BY LenProperties DEF Chars
<1>1. r \in Readings(s) <=>
         \/ \E a \in Addresses(s, FALSE) : r = Said(Nobody, a)
         \/ \E x \in Cuts(s, "@") : \E u \in Users(x[1]), a \in Addresses(x[2], TRUE) :
               r = Said(u, a)
  <2> DEFINE OfCut(x) == {Said(u, a) : u \in Users(x[1]), a \in Addresses(x[2], TRUE)}
             Entire == {Said(Nobody, a) : a \in Addresses(s, FALSE)}
  <2>1. Readings(s) = Entire \cup UNION {OfCut(x) : x \in Cuts(s, "@")}
    BY DEF Readings
  <2>2. \A x : r \in OfCut(x) <=>
            \E u \in Users(x[1]), a \in Addresses(x[2], TRUE) : r = Said(u, a)
    OBVIOUS
  <2>3. r \in Entire <=> \E a \in Addresses(s, FALSE) : r = Said(Nobody, a)
    OBVIOUS
  <2> HIDE DEF OfCut, Entire
  <2>4. r \in Readings(s) <=> r \in Entire \/ \E x \in Cuts(s, "@") : r \in OfCut(x)
    BY <2>1
  <2> QED BY <2>2, <2>3, <2>4
<1>2. \A a : a \in Addresses(s, FALSE) <=> AddressAt(s, 1, FALSE, a)
  <2> TAKE a
  <2>1. a \in Addresses(Piece(s, 1, Len(s)), FALSE) <=> AddressAt(s, 1, FALSE, a)
    <3>1. a \in Addresses(SubSeq(s, 1, Len(s)), FALSE) <=> AddressAt(s, 1, FALSE, a)
      BY <1>0, AddressesByPlace DEF Piece
    <3> QED BY <3>1 DEF Piece
  <2> QED BY <2>1, WholeIsPiece
<1>3. \A x : x \in Cuts(s, "@") <=>
         \E k \in 1..j : s[k] = "@" /\ x = <<Piece(s, 1, k - 1), Piece(s, k + 1, j)>>
  <2> TAKE x
  <2>1. x \in Cuts(Piece(s, 1, j), "@") <=>
         \E k \in 1..j : s[k] = "@" /\ x = <<Piece(s, 1, k - 1), Piece(s, k + 1, j)>>
    BY <1>0, CutOfPiece
  <2> QED BY <2>1, WholeIsPiece
<1>4. ASSUME NEW k \in 1..j
      PROVE  /\ \A u : u \in Users(Piece(s, 1, k - 1)) <=> UserAt(s, k - 1, u)
             /\ \A a : a \in Addresses(Piece(s, k + 1, j), TRUE) <=> AddressAt(s, k + 1, TRUE, a)
  <2>1. k - 1 \in 0..Len(s) /\ k + 1 \in 1..(Len(s) + 1)
    BY <1>0
  <2>2. \A u : u \in Users(Piece(s, 1, k - 1)) <=> UserAt(s, k - 1, u)
    <3> TAKE u
    <3> QED BY <2>1, UsersByPlace
  <2>3. \A a : a \in Addresses(Piece(s, k + 1, j), TRUE) <=> AddressAt(s, k + 1, TRUE, a)
    <3> TAKE a
    <3> QED BY <2>1, AddressesByPlace
  <2> QED BY <2>2, <2>3
<1> HIDE DEF j
<1>5. (\E x \in Cuts(s, "@") : \E u \in Users(x[1]), a \in Addresses(x[2], TRUE) :
           r = Said(u, a))
      <=> \E k \in 1..j : \E u, a :
             s[k] = "@" /\ UserAt(s, k - 1, u) /\ AddressAt(s, k + 1, TRUE, a) /\ r = Said(u, a)
  <2>1. ASSUME NEW x \in Cuts(s, "@"), NEW u \in Users(x[1]), NEW a \in Addresses(x[2], TRUE),
               r = Said(u, a)
        PROVE  \E k \in 1..j : \E v, b :
             s[k] = "@" /\ UserAt(s, k - 1, v) /\ AddressAt(s, k + 1, TRUE, b) /\ r = Said(v, b)
    <3>1. PICK k \in 1..j : s[k] = "@" /\ x = <<Piece(s, 1, k - 1), Piece(s, k + 1, j)>>
      BY <1>3
    <3>2. x[1] = Piece(s, 1, k - 1) /\ x[2] = Piece(s, k + 1, j)
      BY <3>1
    <3>3. UserAt(s, k - 1, u) /\ AddressAt(s, k + 1, TRUE, a)
      BY <1>4, <3>2
    <3> QED BY <2>1, <3>1, <3>3
  <2>2. ASSUME NEW k \in 1..j, NEW u, NEW a, s[k] = "@", UserAt(s, k - 1, u),
               AddressAt(s, k + 1, TRUE, a), r = Said(u, a)
        PROVE  \E x \in Cuts(s, "@") : \E v \in Users(x[1]), b \in Addresses(x[2], TRUE) :
                  r = Said(v, b)
    <3> DEFINE x == <<Piece(s, 1, k - 1), Piece(s, k + 1, j)>>
    <3>1. x \in Cuts(s, "@")
      BY <1>3, <2>2
    <3>2. x[1] = Piece(s, 1, k - 1) /\ x[2] = Piece(s, k + 1, j)
      OBVIOUS
    <3> HIDE DEF x
    <3>3. u \in Users(x[1]) /\ a \in Addresses(x[2], TRUE)
      BY <1>4, <2>2, <3>2
    <3> QED BY <2>2, <3>1, <3>3
  <2> QED BY <2>1, <2>2
<1> QED BY <1>1, <1>2, <1>5 DEF ReadingAt, j

-----------------------------------------------------------------------------
(* There is at most one *)

\* What precedes the first stop, and where it is.
LEMMA FirstStop ==
    ASSUME NEW s, NEW i \in Nat, NEW j \in Nat, NEW k \in Nat, i <= j, i <= k,
           Free(s, i, j - 1, Stops), s[j] \in Stops, Free(s, i, k - 1, Stops), s[k] \in Stops
    PROVE  j = k
<1>1. ~(j < k)
  <2> SUFFICES ASSUME j < k PROVE FALSE
    OBVIOUS
  <2>1. j \in i..(k - 1)
    OBVIOUS
  <2> QED BY <2>1 DEF Free
<1>2. ~(k < j)
  <2> SUFFICES ASSUME k < j PROVE FALSE
    OBVIOUS
  <2>1. k \in i..(j - 1)
    OBVIOUS
  <2> QED BY <2>1 DEF Free
<1> QED BY <1>1, <1>2

\* A user's part has no @ in it.
LEMMA UserIs ==
    ASSUME NEW s \in Chars, NEW j \in 0..Len(s), NEW u, UserAt(s, j, u)
    PROVE  /\ Free(s, 1, j, {"@"}) /\ s[1] \notin Stops /\ 1 <= j
           /\ u = [username |-> u.username, password |-> u.password] /\ u.username # NULL
<1>0. Len(s) \in Nat
  BY LenProperties DEF Chars
<1>1. CASE /\ 1 <= j /\ Free(s, 1, j, Stops)
           /\ u = [username |-> Piece(s, 1, j), password |-> NULL]
  <2>1. Free(s, 1, j, {"@"}) /\ s[1] \notin Stops
    BY <1>0, <1>1 DEF Free, Stops
  <2>2. Piece(s, 1, j) # NULL
    BY <1>0, <1>1, PieceIs
  <2> QED BY <1>1, <2>1, <2>2
<1>2. ASSUME NEW k \in 1..j, s[k] = ":", 1 <= k - 1, Free(s, 1, k - 1, Stops),
             Free(s, k + 1, j, {"@"}),
             u = [username |-> Piece(s, 1, k - 1), password |-> Piece(s, k + 1, j)]
      PROVE  /\ Free(s, 1, j, {"@"}) /\ s[1] \notin Stops /\ 1 <= j
             /\ u = [username |-> u.username, password |-> u.password] /\ u.username # NULL
  <2>1. Free(s, 1, j, {"@"})
    <3> SUFFICES ASSUME NEW m \in 1..j, s[m] = "@" PROVE FALSE
      BY DEF Free
    <3>1. m \in 1..(k - 1) \/ m = k \/ m \in (k + 1)..j
      BY <1>0
    <3> QED BY <1>2, <3>1 DEF Free, Stops
  <2>2. s[1] \notin Stops /\ 1 <= j
    BY <1>0, <1>2 DEF Free
  <2>3. Piece(s, 1, k - 1) # NULL
    <3>1. k - 1 \in 0..Len(s) /\ 1 \in 1..(Len(s) + 1) /\ ~(k - 1 < 1)
      BY <1>0, <1>2
    <3> QED BY <3>1, PieceIs
  <2> QED BY <1>2, <2>1, <2>2, <2>3
<1> QED BY <1>1, <1>2 DEF UserAt

\* A user's part can be read in one way only,
LEMMA OneUser ==
    ASSUME NEW s \in Chars, NEW j \in 0..Len(s), NEW u, NEW v, UserAt(s, j, u), UserAt(s, j, v)
    PROVE  u = v
<1>0. Len(s) \in Nat /\ j \in Nat /\ ":" \in Stops
  BY LenProperties DEF Chars, Stops
<1>1. ASSUME Free(s, 1, j, Stops), NEW k \in 1..j, s[k] = ":" PROVE FALSE
  BY <1>0, <1>1 DEF Free
<1>2. ASSUME NEW k \in 1..j, NEW l \in 1..j, s[k] = ":", s[l] = ":", Free(s, 1, k - 1, Stops),
             Free(s, 1, l - 1, Stops)
      PROVE  k = l
  <2>1. k \in Nat /\ l \in Nat /\ 1 <= k /\ 1 <= l /\ s[k] \in Stops /\ s[l] \in Stops
    BY <1>0, <1>2
  <2> QED BY <1>2, <2>1, FirstStop
<1> QED BY <1>1, <1>2 DEF UserAt

\* and so can an address.
LEMMA OneAddress ==
    ASSUME NEW s \in Chars, NEW i \in 1..(Len(s) + 1), NEW user \in BOOLEAN, NEW a, NEW b,
           AddressAt(s, i, user, a), AddressAt(s, i, user, b)
    PROVE  a = b
<1>0. Len(s) \in Nat /\ i \in Nat /\ ":" \in Stops
  BY LenProperties DEF Chars, Stops
<1>1. ASSUME Free(s, i, Len(s), Stops), NEW k \in i..Len(s), s[k] = ":" PROVE FALSE
  BY <1>0, <1>1 DEF Free
<1>2. ASSUME NEW k \in i..Len(s), NEW l \in i..Len(s), s[k] = ":", s[l] = ":",
             Free(s, i, k - 1, Stops), Free(s, i, l - 1, Stops)
      PROVE  k = l
  <2>1. k \in Nat /\ l \in Nat /\ i <= k /\ i <= l /\ s[k] \in Stops /\ s[l] \in Stops
    BY <1>0, <1>2
  <2> QED BY <1>2, <2>1, FirstStop
<1> QED BY <1>1, <1>2 DEF AddressAt

\* An address begins with a character of the host, and after a user's part it has no @.
LEMMA AddressIs ==
    ASSUME NEW s \in Chars, NEW i \in 1..(Len(s) + 1), NEW user \in BOOLEAN, NEW a,
           AddressAt(s, i, user, a)
    PROVE  /\ i <= Len(s) /\ s[i] \notin Stops /\ Free(s, i, Len(s), {"@"})
           /\ a = [host |-> a.host, port |-> a.port]
<1>0. Len(s) \in Nat
  BY LenProperties DEF Chars
<1>1. CASE /\ i <= Len(s) /\ Free(s, i, Len(s), Stops)
           /\ a = [host |-> Piece(s, i, Len(s)), port |-> NULL]
  <2>1. Free(s, i, Len(s), {"@"}) /\ s[i] \notin Stops
    BY <1>0, <1>1 DEF Free, Stops
  <2> QED BY <1>1, <2>1
<1>2. ASSUME NEW h \in i..Len(s), s[h] = ":", i <= h - 1, Free(s, i, h - 1, Stops),
             PortAt(s, h + 1, user),
             a = [host |-> Piece(s, i, h - 1), port |-> Piece(s, h + 1, Len(s))]
      PROVE  /\ i <= Len(s) /\ s[i] \notin Stops /\ Free(s, i, Len(s), {"@"})
             /\ a = [host |-> a.host, port |-> a.port]
  <2>1. Free(s, h + 1, Len(s), {"@"})
    BY <1>2 DEF PortAt, Free, Stops
  <2>2. Free(s, i, Len(s), {"@"})
    <3> SUFFICES ASSUME NEW m \in i..Len(s), s[m] = "@" PROVE FALSE
      BY DEF Free
    <3>1. m \in i..(h - 1) \/ m = h \/ m \in (h + 1)..Len(s)
      BY <1>0
    <3> QED BY <1>2, <2>1, <3>1 DEF Free, Stops
  <2>3. s[i] \notin Stops /\ i <= Len(s)
    BY <1>0, <1>2 DEF Free
  <2> QED BY <1>2, <2>2, <2>3
<1> QED BY <1>1, <1>2 DEF AddressAt

\* Without an @ a text has no user's part; with one, its user's part ends before the first.
LEMMA NoUserReadings ==
    ASSUME NEW s \in Chars, Free(s, 1, Len(s), {"@"}), NEW r
    PROVE  r \in Readings(s) <=> \E a : AddressAt(s, 1, FALSE, a) /\ r = Said(Nobody, a)
BY ReadingsByPlace DEF ReadingAt, Free

\* Behind the @ of a user's part, a reading is that user and an address,
LEMMA ReadingOfUser ==
    ASSUME NEW s \in Chars, NEW k \in 1..Len(s), s[k] = "@", NEW u, UserAt(s, k - 1, u),
           NEW r \in Readings(s)
    PROVE  \E a : AddressAt(s, k + 1, TRUE, a) /\ r = Said(u, a)
<1>0. Len(s) \in Nat /\ k - 1 \in 0..Len(s) /\ 1 \in 1..(Len(s) + 1)
  BY LenProperties DEF Chars
<1>1. Free(s, 1, k - 1, {"@"})
  BY <1>0, UserIs
<1>2. ASSUME NEW a, AddressAt(s, 1, FALSE, a) PROVE FALSE
  <2>1. Free(s, 1, Len(s), {"@"})
    BY <1>0, <1>2, AddressIs
  <2> QED BY <1>0, <2>1 DEF Free
<1>3. ASSUME NEW l \in 1..Len(s), NEW v, s[l] = "@", UserAt(s, l - 1, v) PROVE l = k /\ u = v
  <2>1. l - 1 \in 0..Len(s)
    BY <1>0
  <2>2. Free(s, 1, l - 1, {"@"})
    BY <1>3, <2>1, UserIs
  <2>3. ~(l < k)
    BY <1>0, <1>1, <1>3 DEF Free
  <2>4. ~(k < l)
    BY <1>0, <2>2 DEF Free
  <2>5. l = k
    BY <1>0, <2>3, <2>4
  <2> QED BY <1>0, <1>3, <2>5, OneUser
<1>4. ReadingAt(s, r)
  BY ReadingsByPlace
<1> QED BY <1>2, <1>3, <1>4 DEF ReadingAt

\* and every address gives one.
LEMMA UserReadings ==
    ASSUME NEW s \in Chars, NEW k \in 1..Len(s), s[k] = "@", NEW u, UserAt(s, k - 1, u),
           NEW a, AddressAt(s, k + 1, TRUE, a)
    PROVE  Said(u, a) \in Readings(s)
<1>1. ReadingAt(s, Said(u, a))
  BY DEF ReadingAt
<1> QED BY <1>1, ReadingsByPlace

-----------------------------------------------------------------------------
(* The pass over the characters *)

\* What the pass knows that has not met anything malformed.
Knows(part, first, u, host, have_auth) ==
    [part |-> part, first |-> first, username |-> u.username, password |-> u.password,
     host |-> host, have_auth |-> have_auth, bad |-> FALSE]

\* Where it can be after n characters: before a stop, behind a first colon, behind the
\* first @, or behind a colon after that; or in a text that has no reading.
InFirst(s, n, p) ==
    Free(s, 1, n, Stops) /\ p = Knows(Piece(s, 1, n), NULL, Nobody, NULL, FALSE)
InSecond(s, n, k, p) ==
    /\ k \in 2..n /\ s[k] = ":" /\ Free(s, 1, k - 1, Stops)
    /\ k < n => s[k + 1] # ":"
    /\ Free(s, k + 1, n, {"@"})
    /\ p = Knows(Piece(s, k + 1, n), Piece(s, 1, k - 1), Nobody, NULL, FALSE)
InHost(s, n, k, u, p) ==
    /\ k \in 2..n /\ s[k] = "@" /\ UserAt(s, k - 1, u) /\ Free(s, k + 1, n, Stops)
    /\ p = Knows(Piece(s, k + 1, n), NULL, u, NULL, TRUE)
InPort(s, n, k, h, u, p) ==
    /\ k \in 2..n /\ s[k] = "@" /\ UserAt(s, k - 1, u)
    /\ h \in (k + 2)..n /\ s[h] = ":" /\ Free(s, k + 1, h - 1, Stops) /\ Free(s, h + 1, n, Stops)
    /\ p = Knows(Piece(s, h + 1, n), NULL, u, Piece(s, k + 1, h - 1), TRUE)
Unreadable(s, p) == p.bad = TRUE /\ Readings(s) = {}
ScannedTo(s, n, p) ==
    \/ InFirst(s, n, p) \/ (\E k \in 1..n : InSecond(s, n, k, p))
    \/ (\E k \in 1..n : \E u : InHost(s, n, k, u, p))
    \/ (\E k, h \in 1..n : \E u : InPort(s, n, k, h, u, p)) \/ Unreadable(s, p)

\* One more character.
LEMMA AppendedIs ==
    ASSUME NEW S, NEW t \in Seq(S), NEW c \in S
    PROVE  /\ Append(t, c) \in Seq(S) /\ Len(Append(t, c)) = Len(t) + 1
           /\ \A m \in 1..Len(t) : Append(t, c)[m] = t[m]
           /\ Append(t, c)[Len(t) + 1] = c
BY AppendProperties

\* The same for texts.
LEMMA CharAppended ==
    ASSUME NEW t \in Chars, NEW c \in STRING
    PROVE  /\ Append(t, c) \in Chars /\ Len(Append(t, c)) = Len(t) + 1
           /\ \A m \in 1..Len(t) : Append(t, c)[m] = t[m]
           /\ Append(t, c)[Len(t) + 1] = c
BY AppendedIs DEF Chars

\* A piece and the character that follows it are a piece.
LEMMA PieceGrows ==
    ASSUME NEW s \in Chars, NEW n \in 0..(Len(s) - 1), NEW i \in 1..(n + 1)
    PROVE  Append(Piece(s, i, n), s[n + 1]) = Piece(s, i, n + 1)
<1> DEFINE x == Piece(s, i, n)  y == Piece(s, i, n + 1)  c == s[n + 1]  z == Append(x, c)
<1>0. /\ Len(s) \in Nat /\ n \in 0..Len(s) /\ n + 1 \in 0..Len(s) /\ i \in 1..(Len(s) + 1)
      /\ c \in STRING
  <2>1. Len(s) \in Nat /\ \A m \in 1..Len(s) : s[m] \in STRING
    BY LenProperties, ElementOfSeq DEF Chars
  <2> QED BY <2>1
<1>1. /\ x \in Chars /\ Len(x) = n - i + 1
      /\ \A m \in 1..(n - i + 1) : x[m] = s[i + m - 1]
  <2>1. /\ x \in Chars /\ Len(x) = (IF i <= n THEN n - i + 1 ELSE 0)
        /\ \A m \in 1..(n - i + 1) : x[m] = s[i + m - 1]
    BY <1>0, PieceIs
  <2> HIDE DEF x
  <2> QED BY <1>0, <2>1
<1>2. /\ y \in Chars /\ Len(y) = n - i + 2
      /\ \A m \in 1..(n - i + 2) : y[m] = s[i + m - 1]
  <2> DEFINE n2 == n + 1
  <2>0. n2 \in 0..Len(s)
    BY <1>0
  <2> HIDE DEF n2
  <2>1. /\ Piece(s, i, n2) \in Chars /\ Len(Piece(s, i, n2)) = (IF i <= n2 THEN n2 - i + 1 ELSE 0)
        /\ \A m \in 1..(n2 - i + 1) : Piece(s, i, n2)[m] = s[i + m - 1]
    BY <1>0, <2>0, PieceIs
  <2>2. y = Piece(s, i, n2) /\ n2 - i + 1 = n - i + 2 /\ i <= n2
    BY <1>0 DEF n2
  <2> HIDE DEF y
  <2> QED BY <1>0, <2>1, <2>2
<1> HIDE DEF x, y, c
<1>3. /\ z \in Chars /\ Len(z) = Len(x) + 1 /\ z[Len(x) + 1] = c
      /\ \A m \in 1..Len(x) : z[m] = x[m]
  <2>1. c \in STRING /\ x \in Chars
    BY <1>0, <1>1
  <2> QED BY <2>1, CharAppended
<1> HIDE DEF z
<1>4. ASSUME NEW m \in 1..Len(z) PROVE z[m] = y[m]
  <2>1. CASE m = Len(x) + 1
    <3>1. m \in 1..(n - i + 2) /\ i + m - 1 = n + 1
      BY <1>0, <1>1, <2>1
    <3> QED BY <1>2, <1>3, <2>1, <3>1 DEF c
  <2>2. CASE m # Len(x) + 1
    <3>1. m \in 1..Len(x) /\ m \in 1..(n - i + 1) /\ m \in 1..(n - i + 2)
      BY <1>0, <1>1, <1>3, <2>2
    <3> QED BY <1>1, <1>2, <1>3, <3>1
  <2> QED BY <2>1, <2>2
<1>5. Len(z) = Len(y)
  BY <1>0, <1>1, <1>2, <1>3
<1>6. z = y
  BY <1>2, <1>3, <1>4, <1>5, SeqEqual DEF Chars
<1> QED BY <1>6 DEF x, y, c, z

\* What a character does to what the pass knows: one that is no stop, ...
LEMMA CharBeforeAt ==
    ASSUME NEW part, NEW first, NEW u, NEW host, NEW c, c \notin Stops
    PROVE  Scan(Knows(part, first, u, host, FALSE), c) = Knows(Append(part, c), first, u, host, FALSE)
BY DEF Scan, Knows, Stops

\* ... also behind the @;
LEMMA CharAfterAt ==
    ASSUME NEW part, NEW first, NEW u, NEW host, NEW c, c \notin Stops
    PROVE  Scan(Knows(part, first, u, host, TRUE), c) = Knows(Append(part, c), first, u, host, TRUE)
BY DEF Scan, Knows, Stops

\* a stop with nothing before it, before the @ ...
LEMMA EmptyBeforeAt ==
    ASSUME NEW first, NEW u, NEW host, NEW c \in Stops
    PROVE  Scan(Knows(NULL, first, u, host, FALSE), c).bad = TRUE
<1> DEFINE p == Knows(NULL, first, u, host, FALSE)
<1>1. p.bad = FALSE /\ p.part = NULL /\ [p EXCEPT !.bad = TRUE].bad = TRUE
  BY DEF Knows
<1> HIDE DEF p
<1>2. Scan(p, c) = [p EXCEPT !.bad = TRUE]
  BY <1>1 DEF Scan, Stops
<1> QED BY <1>1, <1>2 DEF p

\* ... and behind it;
LEMMA EmptyAfterAt ==
    ASSUME NEW first, NEW u, NEW host, NEW c \in Stops
    PROVE  Scan(Knows(NULL, first, u, host, TRUE), c).bad = TRUE
<1> DEFINE p == Knows(NULL, first, u, host, TRUE)
<1>1. p.bad = FALSE /\ p.part = NULL /\ [p EXCEPT !.bad = TRUE].bad = TRUE
  BY DEF Knows
<1> HIDE DEF p
<1>2. Scan(p, c) = [p EXCEPT !.bad = TRUE]
  BY <1>1 DEF Scan, Stops
<1> QED BY <1>1, <1>2 DEF p

\* the first colon, ...
LEMMA FirstColon ==
    ASSUME NEW part, part # NULL, NEW u, NEW host
    PROVE  Scan(Knows(part, NULL, u, host, FALSE), ":") = Knows(NULL, part, u, host, FALSE)
BY DEF Scan, Colon, Knows

\* ... a further one before the @, ...
LEMMA FurtherColon ==
    ASSUME NEW part, part # NULL, NEW u, NEW host, NEW first, first # NULL
    PROVE  Scan(Knows(part, first, u, host, FALSE), ":") = Knows(Append(part, ":"), first, u, host, FALSE)
BY DEF Scan, Colon, Knows

\* ... the one behind the host ...
LEMMA HostColon ==
    ASSUME NEW part, part # NULL, NEW u, NEW first
    PROVE  Scan(Knows(part, first, u, NULL, TRUE), ":") = Knows(NULL, first, u, part, TRUE)
BY DEF Scan, Colon, Knows

\* ... and one behind the port;
LEMMA PortColon ==
    ASSUME NEW part, part # NULL, NEW u, NEW host, NEW first, host # NULL
    PROVE  Scan(Knows(part, first, u, host, TRUE), ":").bad = TRUE
BY DEF Scan, Colon, Knows

\* the @ behind a first colon, ...
LEMMA AtWithPassword ==
    ASSUME NEW part, part # NULL, NEW u, NEW first, NEW host, first # NULL
    PROVE  Scan(Knows(part, first, u, host, FALSE), "@")
             = Knows(NULL, NULL, [username |-> first, password |-> part], host, TRUE)
BY DEF Scan, At, Knows

\* ... without one ...
LEMMA AtWithoutPassword ==
    ASSUME NEW part, part # NULL, NEW u, NEW host, u.username = NULL
    PROVE  Scan(Knows(part, NULL, u, host, FALSE), "@")
             = Knows(NULL, NULL, [username |-> part, password |-> u.password], host, TRUE)
BY DEF Scan, At, Knows

\* ... and a second one.
LEMMA SecondAt ==
    ASSUME NEW part, part # NULL, NEW u, NEW host, u.username # NULL
    PROVE  Scan(Knows(part, NULL, u, host, TRUE), "@").bad = TRUE
BY DEF Scan, At, Knows

-----------------------------------------------------------------------------
(* Where the next character leads *)

\* A piece that has just begun is empty.
LEMMA NothingYet ==
    ASSUME NEW s \in Chars, NEW n \in 0..Len(s)
    PROVE  Piece(s, n + 1, n) = NULL
<1>1. Len(s) \in Nat /\ n + 1 \in 1..(Len(s) + 1) /\ n < n + 1
  BY LenProperties DEF Chars
<1> QED BY <1>1, PieceIs

\* A text is free of stops up to the next one.
LEMMA FreeGrows ==
    ASSUME NEW s, NEW i \in Nat, NEW n \in Nat, NEW stops, Free(s, i, n, stops),
           s[n + 1] \notin stops
    PROVE  Free(s, i, n + 1, stops)
<1> SUFFICES ASSUME NEW m \in i..(n + 1) PROVE s[m] \notin stops
  BY DEF Free
<1>1. m \in i..n \/ m = n + 1
  OBVIOUS
<1> QED BY <1>1 DEF Free

\* In the first part: a stop at the beginning makes the text unreadable, a colon or an
\* @ later ends the part.
LEMMA FirstStep ==
    ASSUME NEW s \in Chars, NEW n \in 0..(Len(s) - 1), NEW p, InFirst(s, n, p)
    PROVE  ScannedTo(s, n + 1, Scan(p, s[n + 1]))
<1> DEFINE m == n + 1  c == s[m]  part == Piece(s, 1, n)
<1>0. /\ Len(s) \in Nat /\ n \in Nat /\ m \in 1..Len(s) /\ n \in 0..Len(s) /\ m - 1 = n
      /\ 1 \in 1..(Len(s) + 1) /\ 1 \in 1..m /\ m \in Nat /\ 1 <= m
  BY LenProperties DEF Chars
<1>1. p = Knows(part, NULL, Nobody, NULL, FALSE) /\ Free(s, 1, n, Stops)
  BY DEF InFirst
<1>2. part = NULL <=> n < 1
  BY <1>0, PieceIs
<1>a. Append(part, c) = Piece(s, 1, m)
  BY <1>0, PieceGrows
<1>b. c \notin Stops => Free(s, 1, m, Stops)
  BY <1>0, <1>1, FreeGrows
<1>c. c = s[m]
  OBVIOUS
<1>d. Piece(s, m + 1, m) = NULL
  <2> HIDE DEF m
  <2> QED BY <1>0, NothingYet
<1> SUFFICES ScannedTo(s, m, Scan(p, c))
  OBVIOUS
<1> HIDE DEF m, c
<1>3. CASE c \notin Stops
  <2> HIDE DEF part
  <2>1. Scan(p, c) = Knows(Append(part, c), NULL, Nobody, NULL, FALSE)
    BY <1>1, <1>3, CharBeforeAt
  <2>4. InFirst(s, m, Scan(p, c))
    BY <2>1, <1>a, <1>b, <1>3 DEF InFirst
  <2> QED BY <2>4 DEF ScannedTo
<1>4. CASE c \in Stops /\ n = 0
  <2>1. Scan(p, c).bad = TRUE
    <3> HIDE DEF part
    <3>1. p = Knows(NULL, NULL, Nobody, NULL, FALSE)
      BY <1>1, <1>2, <1>4
    <3> QED BY <3>1, <1>4, EmptyBeforeAt
  <2>2. s[1] \in Stops
    BY <1>4, <1>c DEF m
  <2>3. ASSUME NEW r \in Readings(s) PROVE FALSE
    <3>1. ReadingAt(s, r)
      BY ReadingsByPlace
    <3>2. ~\E a : AddressAt(s, 1, FALSE, a)
      BY <1>0, <2>2, AddressIs
    <3>3. PICK k \in 1..Len(s) : \E u : UserAt(s, k - 1, u)
      BY <3>1, <3>2 DEF ReadingAt
    <3>4. k - 1 \in 0..Len(s)
      BY <1>0
    <3> QED BY <2>2, <3>3, <3>4, UserIs
  <2>4. Unreadable(s, Scan(p, c))
    BY <2>1, <2>3 DEF Unreadable
  <2> QED BY <2>4 DEF ScannedTo
<1>5. CASE c = ":" /\ n # 0
  <2>1. Scan(p, c) = Knows(NULL, part, Nobody, NULL, FALSE)
    <3>1. part # NULL
      BY <1>0, <1>2, <1>5
    <3> HIDE DEF part
    <3> QED BY <1>1, <1>5, <3>1, FirstColon
  <2>3. m \in 2..m /\ Free(s, 1, m - 1, Stops) /\ Free(s, m + 1, m, {"@"})
    BY <1>0, <1>1, <1>5 DEF Free
  <2>4. InSecond(s, m, m, Scan(p, c))
    <3> HIDE DEF part
    <3>1. part = Piece(s, 1, m - 1) /\ ~(m < m)
      BY <1>0 DEF part
    <3> QED BY <1>5, <1>d, <1>c, <2>1, <2>3, <3>1 DEF InSecond
  <2>5. m \in 1..m
    BY <1>0
  <2> QED BY <2>4, <2>5 DEF ScannedTo
<1>6. CASE c = "@" /\ n # 0
  <2> DEFINE u == [username |-> part, password |-> NULL]
  <2>1. Scan(p, c) = Knows(NULL, NULL, u, NULL, TRUE)
    <3>1. Nobody.username = NULL /\ Nobody.password = NULL
      BY DEF Nobody
    <3>2. part # NULL
      BY <1>0, <1>2, <1>6
    <3> HIDE DEF part, u
    <3>3. Scan(Knows(part, NULL, Nobody, NULL, FALSE), "@")
            = Knows(NULL, NULL, [username |-> part, password |-> Nobody.password], NULL, TRUE)
      BY <3>1, <3>2, AtWithoutPassword
    <3> QED BY <1>1, <1>6, <3>1, <3>3 DEF u
  <2>3. m \in 2..m /\ Free(s, m + 1, m, Stops)
    BY <1>0, <1>6 DEF Free
  <2>4. UserAt(s, n, u)
    BY <1>0, <1>1, <1>6 DEF UserAt
  <2> HIDE DEF u, part
  <2>5. InHost(s, m, m, u, Scan(p, c))
    BY <1>0, <1>6, <1>c, <2>1, <1>d, <2>3, <2>4 DEF InHost
  <2>6. m \in 1..m
    BY <1>0
  <2> QED BY <2>5, <2>6 DEF ScannedTo
<1> QED BY <1>0, <1>3, <1>4, <1>5, <1>6 DEF Stops

\* A text whose first stop is a colon with a stop behind it says nothing.
LEMMA UnreadableColon ==
    ASSUME NEW s \in Chars, NEW k \in 2..Len(s), s[k] = ":", Free(s, 1, k - 1, Stops),
           k + 1 <= Len(s) => s[k + 1] \in Stops
    PROVE  Readings(s) = {}
<1> SUFFICES ASSUME NEW r \in Readings(s) PROVE FALSE
  OBVIOUS
<1>0. /\ Len(s) \in Nat /\ k \in Nat /\ 1 <= k /\ s[k] \in Stops /\ {":", "@"} = Stops
  BY LenProperties DEF Chars, Stops
<1>1. ASSUME NEW a, AddressAt(s, 1, FALSE, a) PROVE FALSE
  <2>1. ~Free(s, 1, Len(s), Stops)
    BY <1>0 DEF Free
  <2>2. PICK h \in 1..Len(s) : s[h] = ":" /\ Free(s, 1, h - 1, Stops) /\ PortAt(s, h + 1, FALSE)
    BY <1>1, <2>1 DEF AddressAt
  <2>3. h \in Nat /\ 1 <= h /\ s[h] \in Stops
    BY <1>0, <2>2
  <2>4. h = k
    BY <1>0, <2>2, <2>3, FirstStop
  <2>5. k + 1 <= Len(s) /\ s[k + 1] # ":" /\ Free(s, k + 1, Len(s), {"@"})
    BY <2>2, <2>4 DEF PortAt
  <2>6. s[k + 1] # "@"
    BY <1>0, <2>5 DEF Free
  <2> QED BY <1>0, <2>5, <2>6
<1>2. ASSUME NEW q \in 1..Len(s), NEW u, s[q] = "@", UserAt(s, q - 1, u) PROVE FALSE
  <2>1. k < q
    <3>1. s[q] \in Stops /\ q # k
      BY <1>0, <1>2
    <3> QED BY <1>0, <3>1 DEF Free
  <2>2. ~Free(s, 1, q - 1, Stops)
    <3>1. k \in 1..(q - 1)
      BY <1>0, <2>1
    <3> QED BY <1>0, <3>1 DEF Free
  <2>3. PICK h \in 1..(q - 1) : /\ s[h] = ":" /\ Free(s, 1, h - 1, Stops)
                                /\ h + 1 <= q - 1 /\ s[h + 1] # ":" /\ Free(s, h + 1, q - 1, {"@"})
    BY <1>2, <2>2 DEF UserAt
  <2>4. h \in Nat /\ 1 <= h /\ s[h] \in Stops
    BY <1>0, <2>3
  <2>5. h = k
    BY <1>0, <2>3, <2>4, FirstStop
  <2>6. s[k + 1] # "@" /\ s[k + 1] # ":" /\ k + 1 <= Len(s)
    BY <1>0, <2>3, <2>5 DEF Free
  <2> QED BY <1>0, <2>6
<1> QED BY <1>1, <1>2, ReadingsByPlace DEF ReadingAt

\* Behind the first colon: a stop right there makes the text unreadable, an @ later ends
\* the user's part; further colons are part of the password.
LEMMA SecondStep ==
    ASSUME NEW s \in Chars, NEW n \in 0..(Len(s) - 1), NEW k, NEW p, InSecond(s, n, k, p)
    PROVE  ScannedTo(s, n + 1, Scan(p, s[n + 1]))
<1> DEFINE m == n + 1  c == s[m]  i == k + 1
           part == Piece(s, i, n)  first == Piece(s, 1, k - 1)
<1>0. /\ Len(s) \in Nat /\ n \in Nat /\ m \in 1..Len(s) /\ n \in 0..Len(s) /\ m - 1 = n
      /\ k \in Nat /\ k \in 2..n /\ k \in 1..m /\ k \in 2..m /\ m \in Nat /\ 2 <= k /\ k <= n /\ n < m
      /\ k - 1 \in 0..Len(s) /\ 1 \in 1..(Len(s) + 1) /\ ~(k - 1 < 1)
      /\ i \in 1..(Len(s) + 1) /\ i \in 1..m /\ i \in Nat /\ (n < i <=> n = k)
  BY LenProperties DEF Chars, InSecond
<1>1. p = Knows(part, first, Nobody, NULL, FALSE)
  BY DEF InSecond
<1>2. s[k] = ":" /\ Free(s, 1, k - 1, Stops) /\ (k < n => s[i] # ":") /\ Free(s, i, n, {"@"})
  BY DEF InSecond
<1>3. c = s[m] /\ i = k + 1 /\ m = n + 1
  OBVIOUS
<1> SUFFICES ScannedTo(s, m, Scan(p, c))
  OBVIOUS
<1>4. Append(part, c) = Piece(s, i, m)
  <2> HIDE DEF i
  <2> QED BY <1>0, PieceGrows
<1> HIDE DEF m, c, i
<1>5. part = NULL <=> n = k
  BY <1>0, PieceIs
<1>6. first # NULL
  BY <1>0, PieceIs
<1>7. ASSUME Scan(p, c) = Knows(Append(part, c), first, Nobody, NULL, FALSE), c # "@", c = ":" => n # k
      PROVE  ScannedTo(s, m, Scan(p, c))
  <2>1. Free(s, i, m, {"@"})
    BY <1>0, <1>2, <1>3, <1>7, FreeGrows
  <2>2. k < m => s[i] # ":"
    <3>1. CASE k = n
      BY <1>3, <1>7, <3>1
    <3>2. CASE k < n
      BY <1>2, <3>2
    <3> QED BY <1>0, <3>1, <3>2
  <2>3. Scan(p, c) = Knows(Piece(s, i, m), Piece(s, 1, k - 1), Nobody, NULL, FALSE)
    <3> HIDE DEF part
    <3> QED BY <1>4, <1>7
  <2>4. InSecond(s, m, k, Scan(p, c))
    BY <1>0, <1>2, <1>3, <2>1, <2>2, <2>3 DEF InSecond
  <2> QED BY <1>0, <2>4 DEF ScannedTo
<1>8. CASE c \notin Stops
  <2> HIDE DEF part, first
  <2>1. Scan(p, c) = Knows(Append(part, c), first, Nobody, NULL, FALSE)
    BY <1>1, <1>8, CharBeforeAt
  <2> QED BY <1>7, <1>8, <2>1 DEF Stops
<1>9. CASE c \in Stops /\ n = k
  <2>1. Scan(p, c).bad = TRUE
    <3> HIDE DEF part, first
    <3>1. p = Knows(NULL, first, Nobody, NULL, FALSE)
      BY <1>1, <1>5, <1>9
    <3> QED BY <3>1, <1>9, EmptyBeforeAt
  <2>2. k \in 2..Len(s) /\ s[k + 1] \in Stops
    BY <1>0, <1>3, <1>9
  <2>3. Readings(s) = {}
    BY <1>2, <2>2, UnreadableColon
  <2>4. Unreadable(s, Scan(p, c))
    BY <2>1, <2>3 DEF Unreadable
  <2> QED BY <2>4 DEF ScannedTo
<1>10. CASE c = ":" /\ n # k
  <2>1. Scan(p, c) = Knows(Append(part, c), first, Nobody, NULL, FALSE)
    <3> HIDE DEF part, first
    <3> QED BY <1>1, <1>5, <1>6, <1>10, FurtherColon
  <2> QED BY <1>7, <1>10, <2>1
<1>11. CASE c = "@" /\ n # k
  <2> DEFINE u == [username |-> first, password |-> part]
  <2>1. Scan(p, c) = Knows(NULL, NULL, u, NULL, TRUE)
    <3> HIDE DEF part, first, u
    <3>1. Scan(Knows(part, first, Nobody, NULL, FALSE), "@")
            = Knows(NULL, NULL, [username |-> first, password |-> part], NULL, TRUE)
      BY <1>5, <1>6, <1>11, AtWithPassword
    <3> QED BY <1>1, <1>11, <3>1 DEF u
  <2>2. m \in 2..m /\ m \in 1..m /\ Free(s, m + 1, m, Stops)
    BY <1>0 DEF Free
  <2>3. UserAt(s, n, u)
    <3>1. /\ k \in 1..n /\ s[k] = ":" /\ 1 <= k - 1 /\ k + 1 <= n /\ s[k + 1] # ":"
          /\ Free(s, 1, k - 1, Stops) /\ Free(s, k + 1, n, {"@"})
      BY <1>0, <1>2, <1>3, <1>11
    <3> QED BY <3>1, <1>3 DEF UserAt
  <2>4. Piece(s, m + 1, m) = NULL
    BY <1>0, NothingYet
  <2> HIDE DEF u, part, first
  <2>5. InHost(s, m, m, u, Scan(p, c))
    BY <1>0, <1>11, <1>3, <2>1, <2>2, <2>3, <2>4 DEF InHost
  <2> QED BY <2>2, <2>5 DEF ScannedTo
<1> QED BY <1>8, <1>9, <1>10, <1>11 DEF Stops

\* Behind the @: a stop right there makes the text unreadable, and so does a second @; a
\* colon ends the host.
LEMMA HostStep ==
    ASSUME NEW s \in Chars, NEW n \in 0..(Len(s) - 1), NEW k, NEW u, NEW p,
           InHost(s, n, k, u, p)
    PROVE  ScannedTo(s, n + 1, Scan(p, s[n + 1]))
<1> DEFINE m == n + 1  c == s[m]  i == k + 1  part == Piece(s, i, n)
<1>0. /\ Len(s) \in Nat /\ n \in Nat /\ m \in 1..Len(s) /\ n \in 0..Len(s) /\ m - 1 = n
      /\ k \in Nat /\ k \in 1..m /\ k \in 2..m /\ m \in Nat /\ 2 <= k /\ k <= n /\ n < m
      /\ k \in 1..Len(s) /\ k - 1 \in 0..Len(s)
      /\ i \in 1..(Len(s) + 1) /\ i \in 1..m /\ i \in Nat /\ (n < i <=> n = k)
  BY LenProperties DEF Chars, InHost
<1>1. p = Knows(part, NULL, u, NULL, TRUE)
  BY DEF InHost
<1>2. s[k] = "@" /\ UserAt(s, k - 1, u) /\ Free(s, i, n, Stops)
  BY DEF InHost
<1>3. c = s[m] /\ i = k + 1 /\ m = n + 1
  OBVIOUS
<1> SUFFICES ScannedTo(s, m, Scan(p, c))
  OBVIOUS
<1>4. Append(part, c) = Piece(s, i, m)
  <2> HIDE DEF i
  <2> QED BY <1>0, PieceGrows
<1> HIDE DEF m, c, i
<1>5. part = NULL <=> n = k
  BY <1>0, PieceIs
<1>6. u.username # NULL
  BY <1>0, <1>2, UserIs
<1>7. ASSUME Scan(p, c).bad = TRUE, c \in Stops, c = "@" \/ n = k PROVE ScannedTo(s, m, Scan(p, c))
  <2>1. ASSUME NEW a, AddressAt(s, i, TRUE, a) PROVE FALSE
    <3>1. s[i] \notin Stops /\ Free(s, i, Len(s), {"@"})
      BY <1>0, <2>1, AddressIs
    <3>2. m \in i..Len(s) /\ (n = k => i = m)
      BY <1>0, <1>3
    <3> QED BY <1>3, <1>7, <3>1, <3>2 DEF Free
  <2>2. \A r : r \in Readings(s) => \E a : AddressAt(s, k + 1, TRUE, a)
    <3> HIDE DEF part
    <3> TAKE r
    <3> QED BY <1>0, <1>2, ReadingOfUser
  <2>3. Readings(s) = {}
    BY <1>3, <2>1, <2>2
  <2>4. Unreadable(s, Scan(p, c))
    BY <1>7, <2>3 DEF Unreadable
  <2> QED BY <2>4 DEF ScannedTo
<1>8. CASE c \notin Stops
  <2>1. Scan(p, c) = Knows(Append(part, c), NULL, u, NULL, TRUE)
    <3> HIDE DEF part
    <3> QED BY <1>1, <1>8, CharAfterAt
  <2>2. Free(s, i, m, Stops)
    BY <1>0, <1>2, <1>3, <1>8, FreeGrows
  <2>3. InHost(s, m, k, u, Scan(p, c))
    <3> HIDE DEF part
    <3> QED BY <1>0, <1>2, <1>3, <1>4, <2>1, <2>2 DEF InHost
  <2> QED BY <1>0, <2>3 DEF ScannedTo
<1>9. CASE c \in Stops /\ n = k
  <2>1. Scan(p, c).bad = TRUE
    <3> HIDE DEF part
    <3>1. p = Knows(NULL, NULL, u, NULL, TRUE)
      BY <1>1, <1>5, <1>9
    <3> QED BY <3>1, <1>9, EmptyAfterAt
  <2> QED BY <1>7, <1>9, <2>1
<1>10. CASE c = ":" /\ n # k
  <2>1. Scan(p, c) = Knows(NULL, NULL, u, part, TRUE)
    <3> HIDE DEF part
    <3> QED BY <1>1, <1>5, <1>10, HostColon
  <2>2. /\ m \in (k + 2)..m /\ m \in 1..m /\ Free(s, m + 1, m, Stops) /\ Free(s, k + 1, m - 1, Stops)
        /\ part = Piece(s, k + 1, m - 1)
    BY <1>0, <1>2, <1>3, <1>10 DEF Free
  <2>3. Piece(s, m + 1, m) = NULL
    BY <1>0, NothingYet
  <2> HIDE DEF part
  <2>4. InPort(s, m, k, m, u, Scan(p, c))
    BY <1>0, <1>2, <1>3, <1>10, <2>1, <2>2, <2>3 DEF InPort
  <2> QED BY <1>0, <2>2, <2>4 DEF ScannedTo
<1>11. CASE c = "@" /\ n # k
  <2>1. Scan(p, c).bad = TRUE
    <3> HIDE DEF part
    <3> QED BY <1>1, <1>5, <1>6, <1>11, SecondAt
  <2> QED BY <1>7, <1>11, <2>1 DEF Stops
<1> QED BY <1>8, <1>9, <1>10, <1>11 DEF Stops

\* Behind the host: any further stop makes the text unreadable.
LEMMA PortStep ==
    ASSUME NEW s \in Chars, NEW n \in 0..(Len(s) - 1), NEW k, NEW h, NEW u, NEW p,
           InPort(s, n, k, h, u, p)
    PROVE  ScannedTo(s, n + 1, Scan(p, s[n + 1]))
<1> DEFINE m == n + 1  c == s[m]  i == h + 1
           part == Piece(s, i, n)  host == Piece(s, k + 1, h - 1)
<1>0. /\ Len(s) \in Nat /\ n \in Nat /\ m \in 1..Len(s) /\ n \in 0..Len(s) /\ m - 1 = n
      /\ k \in Nat /\ k \in 1..m /\ k \in 2..m /\ m \in Nat /\ 2 <= k /\ n < m
      /\ k \in 1..Len(s) /\ k - 1 \in 0..Len(s) /\ h \in Nat /\ k + 2 <= h /\ h <= n
      /\ k + 1 \in 1..(Len(s) + 1) /\ h - 1 \in 0..Len(s) /\ ~(h - 1 < k + 1)
      /\ h \in (k + 2)..m /\ h \in 1..m /\ h \in (k + 1)..Len(s)
      /\ i \in 1..(Len(s) + 1) /\ i \in 1..m /\ i \in Nat
  BY LenProperties DEF Chars, InPort
<1>1. p = Knows(part, NULL, u, host, TRUE)
  BY DEF InPort
<1>2. /\ s[k] = "@" /\ UserAt(s, k - 1, u) /\ s[h] = ":" /\ Free(s, k + 1, h - 1, Stops)
      /\ Free(s, i, n, Stops)
  BY DEF InPort
<1>3. c = s[m] /\ i = h + 1 /\ m = n + 1
  OBVIOUS
<1> SUFFICES ScannedTo(s, m, Scan(p, c))
  OBVIOUS
<1>4. Append(part, c) = Piece(s, i, m)
  <2> HIDE DEF i
  <2> QED BY <1>0, PieceGrows
<1> HIDE DEF m, c, i
<1>5. host # NULL
  BY <1>0, PieceIs
<1>6. u.username # NULL
  BY <1>0, <1>2, UserIs
<1>7. CASE c \notin Stops
  <2>1. Scan(p, c) = Knows(Append(part, c), NULL, u, host, TRUE)
    <3> HIDE DEF part, host
    <3> QED BY <1>1, <1>7, CharAfterAt
  <2>2. Free(s, i, m, Stops)
    BY <1>0, <1>2, <1>3, <1>7, FreeGrows
  <2>3. InPort(s, m, k, h, u, Scan(p, c))
    <3> HIDE DEF part
    <3> QED BY <1>0, <1>2, <1>3, <1>4, <2>1, <2>2 DEF InPort
  <2> QED BY <1>0, <2>3 DEF ScannedTo
<1>8. CASE c \in Stops
  <2>1. Scan(p, c).bad = TRUE
    <3> HIDE DEF part, host
    <3>1. CASE part = NULL
      <4>1. p = Knows(NULL, NULL, u, host, TRUE)
        BY <1>1, <3>1
      <4> QED BY <4>1, <1>8, EmptyAfterAt
    <3>2. CASE part # NULL /\ c = ":"
      BY <1>1, <1>5, <3>2, PortColon
    <3>3. CASE part # NULL /\ c = "@"
      BY <1>1, <1>6, <3>3, SecondAt
    <3> QED BY <1>8, <3>1, <3>2, <3>3 DEF Stops
  <2>2. ASSUME NEW a, AddressAt(s, k + 1, TRUE, a) PROVE FALSE
    <3>1. ":" \in Stops /\ s[h] \in Stops
      BY <1>2 DEF Stops
    <3>2. ~Free(s, k + 1, Len(s), Stops)
      BY <1>0, <3>1 DEF Free
    <3>3. PICK g \in (k + 1)..Len(s) :
             s[g] = ":" /\ k + 1 <= g - 1 /\ Free(s, k + 1, g - 1, Stops) /\ PortAt(s, g + 1, TRUE)
      BY <2>2, <3>2 DEF AddressAt
    <3>4. /\ k + 1 \in Nat /\ g \in Nat /\ k + 1 <= g /\ k + 1 <= h /\ s[g] \in Stops
      BY <1>0, <3>1, <3>3
    <3>5. g = h
      BY <1>0, <1>2, <3>1, <3>3, <3>4, FirstStop
    <3>6. Free(s, h + 1, Len(s), Stops) /\ m \in (h + 1)..Len(s)
      BY <1>0, <3>3, <3>5 DEF PortAt
    <3> QED BY <1>3, <1>8, <3>6 DEF Free
  <2>3. \A r : r \in Readings(s) => \E a : AddressAt(s, k + 1, TRUE, a)
    <3> HIDE DEF part
    <3> TAKE r
    <3> QED BY <1>0, <1>2, ReadingOfUser
  <2>4. Readings(s) = {}
    BY <2>2, <2>3
  <2>5. Unreadable(s, Scan(p, c))
    BY <2>1, <2>4 DEF Unreadable
  <2> QED BY <2>5 DEF ScannedTo
<1> QED BY <1>7, <1>8

\* So a character more leads from one of these to another.
LEMMA ScanStep ==
    ASSUME NEW s \in Chars, NEW n \in 0..(Len(s) - 1), NEW p, ScannedTo(s, n, p)
    PROVE  ScannedTo(s, n + 1, Scan(p, s[n + 1]))
<1>1. ASSUME Unreadable(s, p) PROVE Unreadable(s, Scan(p, s[n + 1]))
  <2>1. Scan(p, s[n + 1]) = p
    BY <1>1 DEF Unreadable, Scan
  <2> QED BY <1>1, <2>1
<1>2. CASE Unreadable(s, p)
  BY <1>1, <1>2 DEF ScannedTo
<1>3. CASE InFirst(s, n, p)
  BY <1>3, FirstStep
<1>4. CASE \E k \in 1..n : InSecond(s, n, k, p)
  BY <1>4, SecondStep
<1>5. CASE \E k \in 1..n : \E u : InHost(s, n, k, u, p)
  BY <1>5, HostStep
<1>6. CASE \E k, h \in 1..n : \E u : InPort(s, n, k, h, u, p)
  BY <1>6, PortStep
<1> QED BY <1>2, <1>3, <1>4, <1>5, <1>6 DEF ScannedTo

-----------------------------------------------------------------------------
(* The whole pass *)

PassTo(s, m, g) == g = [n \in 0..m |-> IF n = 0 THEN Begin ELSE Scan(g[n - 1], s[n])]

\* The pass can be made one character longer,
LEMMA PassGrows ==
    ASSUME NEW s, NEW m \in Nat, NEW g, PassTo(s, m, g)
    PROVE  \E h : PassTo(s, m + 1, h)
<1> DEFINE Then(f, n) == IF n = 0 THEN Begin ELSE Scan(f[n - 1], s[n])
           h == [n \in 0..(m + 1) |-> IF n <= m THEN g[n] ELSE Scan(g[m], s[m + 1])]
<1>1. \A n \in 0..m : g[n] = Then(g, n)
  BY DEF PassTo
<1> HIDE DEF Then
<1>2. ASSUME NEW n \in 0..(m + 1) PROVE h[n] = Then(h, n)
  <2>1. CASE n = 0
    <3>1. h[n] = g[n] /\ n \in 0..m
      BY <2>1
    <3> QED BY <1>1, <2>1, <3>1 DEF Then
  <2>2. CASE n # 0 /\ n <= m
    <3>1. h[n] = g[n] /\ h[n - 1] = g[n - 1] /\ n \in 0..m
      BY <2>2
    <3> HIDE DEF h
    <3> QED BY <1>1, <2>2, <3>1 DEF Then
  <2>3. CASE n = m + 1
    <3>1. h[n] = Scan(g[m], s[n]) /\ h[m] = g[m] /\ n - 1 = m /\ n # 0
      BY <2>3
    <3> HIDE DEF h
    <3> QED BY <3>1 DEF Then
  <2> QED BY <2>1, <2>2, <2>3
<1>3. h = [n \in 0..(m + 1) |-> h[n]]
  OBVIOUS
<1> HIDE DEF h
<1>4. h = [n \in 0..(m + 1) |-> Then(h, n)]
  BY <1>2, <1>3
<1>5. PassTo(s, m + 1, h)
  BY <1>4 DEF PassTo, Then
<1> QED BY <1>5

\* so there is one over any number of characters, and Scanned is the one over them all.
LEMMA PassExists ==
    ASSUME NEW s, NEW m \in Nat
    PROVE  \E g : PassTo(s, m, g)
<1> DEFINE S == {k \in Nat : ~\E g : PassTo(s, k, g)}
<1> SUFFICES ASSUME S # {} PROVE FALSE
  OBVIOUS
<1>1. PICK k \in S : \A l \in S : k <= l
  <2>1. S \in SUBSET Nat
    OBVIOUS
  <2> HIDE DEF S
  <2> QED BY <2>1, LeastOf
<1>2. k # 0
  <2> DEFINE g == [n \in 0..0 |-> Begin]
  <2>1. g = [n \in 0..0 |-> IF n = 0 THEN Begin ELSE Scan(g[n - 1], s[n])]
    OBVIOUS
  <2>2. PassTo(s, 0, g)
    BY <2>1 DEF PassTo
  <2> QED BY <2>2
<1>3. k - 1 \in Nat /\ k - 1 \notin S /\ (k - 1) + 1 = k
  BY <1>1, <1>2
<1>4. \E h : PassTo(s, (k - 1) + 1, h)
  BY <1>3, PassGrows
<1> QED BY <1>3, <1>4

\* Scanned is the pass over the whole text.
LEMMA ScannedIs ==
    ASSUME NEW s \in Chars
    PROVE  PassTo(s, Len(s), Scanned(s))
<1>1. Len(s) \in Nat
  BY LenProperties DEF Chars
<1>2. \E g : PassTo(s, Len(s), g)
  BY <1>1, PassExists
<1>3. \E g : g = [n \in 0..Len(s) |-> IF n = 0 THEN Begin ELSE Scan(g[n - 1], s[n])]
  BY <1>2 DEF PassTo
<1>4. Scanned(s) = CHOOSE g : g = [n \in 0..Len(s) |-> IF n = 0 THEN Begin ELSE Scan(g[n - 1], s[n])]
  BY DEF Scanned
<1>5. Scanned(s) = CHOOSE g : PassTo(s, Len(s), g)
  BY <1>4 DEF PassTo
<1> QED BY <1>2, <1>5

\* Every character read so far is accounted for.
LEMMA AllScanned ==
    ASSUME NEW s \in Chars, NEW m \in 0..Len(s)
    PROVE  ScannedTo(s, m, Scanned(s)[m])
<1> DEFINE g == Scanned(s)  S == {n \in 0..Len(s) : ~ScannedTo(s, n, g[n])}
<1>0. Len(s) \in Nat /\ 0 \in 0..Len(s)
  BY LenProperties DEF Chars
<1>1. g[0] = Begin /\ \A n \in 1..Len(s) : g[n] = Scan(g[n - 1], s[n])
  <2>1. PassTo(s, Len(s), g)
    BY ScannedIs
  <2>2. \A n \in 0..Len(s) : g[n] = IF n = 0 THEN Begin ELSE Scan(g[n - 1], s[n])
    <3> HIDE DEF g
    <3> QED BY <2>1 DEF PassTo
  <2> HIDE DEF g
  <2> QED BY <1>0, <2>2
<1> HIDE DEF g
<1>2. ScannedTo(s, 0, g[0])
  <2>1. Piece(s, 1, 0) = NULL
    <3>1. Piece(s, 0 + 1, 0) = NULL
      BY <1>0, NothingYet
    <3> QED BY <3>1
  <2>2. Begin = Knows(Piece(s, 1, 0), NULL, Nobody, NULL, FALSE)
    <3>1. Begin = Knows(NULL, NULL, Nobody, NULL, FALSE)
      BY DEF Begin, Knows, Nobody
    <3> QED BY <2>1, <3>1
  <2>3. Free(s, 1, 0, Stops)
    BY DEF Free
  <2> QED BY <1>1, <2>2, <2>3 DEF ScannedTo, InFirst
<1> SUFFICES ASSUME S # {} PROVE FALSE
  BY DEF g
<1>3. PICK n \in S : \A l \in S : n <= l
  <2>1. S \in SUBSET Nat
    BY <1>0
  <2> HIDE DEF S
  <2> QED BY <2>1, LeastOf
<1>4. n # 0 /\ n \in 1..Len(s) /\ n - 1 \in 0..(Len(s) - 1) /\ (n - 1) + 1 = n /\ ~(n <= n - 1)
  BY <1>0, <1>2, <1>3
<1>5. ScannedTo(s, n - 1, g[n - 1])
  BY <1>0, <1>3, <1>4
<1>6. ScannedTo(s, (n - 1) + 1, Scan(g[n - 1], s[(n - 1) + 1]))
  BY <1>4, <1>5, ScanStep
<1> QED BY <1>1, <1>3, <1>4, <1>6

-----------------------------------------------------------------------------
(* What the pass ends with is what the text says *)

Says(s, p) ==
    /\ p.bad = TRUE \/ Remainder(p).host = NULL => Readings(s) = {}
    /\ ~(p.bad = TRUE) /\ Remainder(p).host # NULL => Readings(s) = {Said(p, Remainder(p))}

\* A text with one address says one thing.
LEMMA SaysNobody ==
    ASSUME NEW s \in Chars, Free(s, 1, Len(s), {"@"}), NEW p, NEW r, r = Remainder(p),
           ~(p.bad = TRUE), p.username = NULL, p.password = NULL,
           r.host # NULL => AddressAt(s, 1, FALSE, r),
           r.host = NULL => ~\E a : AddressAt(s, 1, FALSE, a)
    PROVE  Says(s, p)
<1>0. 1 \in 1..(Len(s) + 1)
  BY LenProperties DEF Chars
<1>1. \A x : x \in Readings(s) <=> \E a : AddressAt(s, 1, FALSE, a) /\ x = Said(Nobody, a)
  <2> TAKE x
  <2> QED BY NoUserReadings, Zenon
<1>2. \A a : AddressAt(s, 1, FALSE, a) /\ AddressAt(s, 1, FALSE, r) => a = r
  BY <1>0, OneAddress
<1>3. Said(p, r) = Said(Nobody, r)
  BY DEF Said, Nobody
<1>4. CASE r.host = NULL
  <2>1. Readings(s) = {}
    BY <1>1, <1>4
  <2> QED BY <1>4, <2>1 DEF Says
<1>5. CASE r.host # NULL
  <2>1. ASSUME NEW x, x \in Readings(s) PROVE x = Said(p, r)
    <3>1. PICK a : AddressAt(s, 1, FALSE, a) /\ x = Said(Nobody, a)
      BY <1>1, <2>1
    <3> QED BY <1>2, <1>3, <1>5, <3>1
  <2>2. Said(p, r) \in Readings(s)
    BY <1>1, <1>3, <1>5
  <2>3. Readings(s) = {Said(p, r)}
    BY <2>1, <2>2
  <2> QED BY <1>5, <2>3 DEF Says
<1> QED BY <1>4, <1>5

\* The same behind a user's part.
LEMMA SaysUser ==
    ASSUME NEW s \in Chars, NEW k \in 1..Len(s), s[k] = "@", NEW u, UserAt(s, k - 1, u),
           NEW p, NEW r, r = Remainder(p),
           ~(p.bad = TRUE), p.username = u.username, p.password = u.password,
           r.host # NULL => AddressAt(s, k + 1, TRUE, r),
           r.host = NULL => ~\E a : AddressAt(s, k + 1, TRUE, a)
    PROVE  Says(s, p)
<1>0. k + 1 \in 1..(Len(s) + 1)
  BY LenProperties DEF Chars
<1>1. \A x : x \in Readings(s) <=> \E a : AddressAt(s, k + 1, TRUE, a) /\ x = Said(u, a)
  <2> TAKE x
  <2>2. ASSUME x \in Readings(s) PROVE \E a : AddressAt(s, k + 1, TRUE, a) /\ x = Said(u, a)
    BY <2>2, ReadingOfUser
  <2>3. (\E a : AddressAt(s, k + 1, TRUE, a) /\ x = Said(u, a)) => x \in Readings(s)
    BY UserReadings
  <2> QED BY <2>2, <2>3
<1>2. \A a : AddressAt(s, k + 1, TRUE, a) /\ AddressAt(s, k + 1, TRUE, r) => a = r
  BY <1>0, OneAddress
<1>3. Said(p, r) = Said(u, r)
  BY DEF Said
<1>4. CASE r.host = NULL
  <2>1. Readings(s) = {}
    BY <1>1, <1>4
  <2> QED BY <1>4, <2>1 DEF Says
<1>5. CASE r.host # NULL
  <2>1. ASSUME NEW x, x \in Readings(s) PROVE x = Said(p, r)
    <3>1. PICK a : AddressAt(s, k + 1, TRUE, a) /\ x = Said(u, a)
      BY <1>1, <2>1
    <3> QED BY <1>2, <1>3, <1>5, <3>1
  <2>2. Said(p, r) \in Readings(s)
    BY <1>1, <1>3, <1>5
  <2>3. Readings(s) = {Said(p, r)}
    BY <2>1, <2>2
  <2> QED BY <1>5, <2>3 DEF Says
<1> QED BY <1>4, <1>5

\* Whichever part the text ends in.
LEMMA FirstSays ==
    ASSUME NEW s \in Chars, NEW p, InFirst(s, Len(s), p)
    PROVE  Says(s, p)
<1> DEFINE part == Piece(s, 1, Len(s))  r == Remainder(p)
<1>0. Len(s) \in Nat /\ 1 \in 1..(Len(s) + 1) /\ Len(s) \in 0..Len(s)
  BY LenProperties DEF Chars
<1>1. p = Knows(part, NULL, Nobody, NULL, FALSE) /\ Free(s, 1, Len(s), Stops)
  BY DEF InFirst
<1>2. part = NULL <=> Len(s) < 1
  BY <1>0, PieceIs
<1>3. /\ p.part = part /\ p.first = NULL /\ p.host = NULL /\ p.bad = FALSE
      /\ p.username = NULL /\ p.password = NULL
  <2> HIDE DEF part
  <2>1. Nobody.username = NULL /\ Nobody.password = NULL
    BY DEF Nobody
  <2> QED BY <1>1, <2>1 DEF Knows
<1>4. Free(s, 1, Len(s), {"@"})
  BY <1>1 DEF Free, Stops
<1>5. r = [host |-> part, port |-> NULL] \/ (part = NULL /\ r.host = NULL)
  BY <1>3 DEF Remainder
<1>6. r.host # NULL => AddressAt(s, 1, FALSE, r)
  <2> SUFFICES ASSUME r.host # NULL PROVE AddressAt(s, 1, FALSE, r)
    OBVIOUS
  <2>1. r = [host |-> part, port |-> NULL] /\ part # NULL
    <3> HIDE DEF part, r
    <3> QED BY <1>5
  <2>2. 1 <= Len(s)
    BY <1>0, <1>2, <2>1
  <2> HIDE DEF r
  <2> QED BY <1>1, <2>1, <2>2 DEF AddressAt
<1>7. r.host = NULL => ~\E a : AddressAt(s, 1, FALSE, a)
  <2> SUFFICES ASSUME r.host = NULL, NEW a, AddressAt(s, 1, FALSE, a) PROVE FALSE
    OBVIOUS
  <2>1. part = NULL
    <3> HIDE DEF part, r
    <3> QED BY <1>5
  <2>2. 1 <= Len(s)
    BY <1>0, AddressIs
  <2> QED BY <1>0, <1>2, <2>1, <2>2
<1> HIDE DEF r, part
<1> QED BY <1>3, <1>4, <1>6, <1>7, SaysNobody DEF r

\* It ends behind the first colon,
LEMMA SecondSays ==
    ASSUME NEW s \in Chars, NEW k, NEW p, InSecond(s, Len(s), k, p)
    PROVE  Says(s, p)
<1> DEFINE part == Piece(s, k + 1, Len(s))  first == Piece(s, 1, k - 1)  r == Remainder(p)
<1>0. /\ Len(s) \in Nat /\ 1 \in 1..(Len(s) + 1) /\ Len(s) \in 0..Len(s) /\ k \in 2..Len(s)
      /\ k + 1 \in 1..(Len(s) + 1) /\ k - 1 \in 0..Len(s) /\ ~(k - 1 < 1) /\ k \in Nat
      /\ (Len(s) < k + 1 <=> k = Len(s))
  BY LenProperties DEF Chars, InSecond
<1>1. p = Knows(part, first, Nobody, NULL, FALSE)
  BY DEF InSecond
<1>2. /\ s[k] = ":" /\ Free(s, 1, k - 1, Stops) /\ (k < Len(s) => s[k + 1] # ":")
      /\ Free(s, k + 1, Len(s), {"@"})
  BY DEF InSecond
<1>3. part = NULL <=> k = Len(s)
  BY <1>0, PieceIs
<1>4. first # NULL
  BY <1>0, PieceIs
<1>5. /\ p.part = part /\ p.first = first /\ p.host = NULL /\ p.bad = FALSE
      /\ p.username = NULL /\ p.password = NULL
  <2> HIDE DEF part, first
  <2>1. Nobody.username = NULL /\ Nobody.password = NULL
    BY DEF Nobody
  <2> QED BY <1>1, <2>1 DEF Knows
<1>6. Free(s, 1, Len(s), {"@"})
  <2> SUFFICES ASSUME NEW m \in 1..Len(s), s[m] = "@" PROVE FALSE
    BY DEF Free
  <2>1. m \in 1..(k - 1) \/ m = k \/ m \in (k + 1)..Len(s)
    BY <1>0
  <2> QED BY <1>2, <2>1 DEF Free, Stops
<1>7. CASE part = NULL
  <2>1. Readings(s) = {}
    BY <1>0, <1>2, <1>3, <1>7, UnreadableColon
  <2>2. r.host = NULL
    BY <1>5, <1>7 DEF Remainder
  <2> QED BY <2>1, <2>2 DEF Says
<1>8. CASE part # NULL
  <2>1. r = [host |-> first, port |-> part] /\ r.host # NULL
    <3> HIDE DEF part, first
    <3> QED BY <1>4, <1>5, <1>8 DEF Remainder
  <2>2. PortAt(s, k + 1, FALSE)
    BY <1>0, <1>2, <1>3, <1>8 DEF PortAt
  <2>3. AddressAt(s, 1, FALSE, r)
    <3>1. k \in 1..Len(s) /\ 1 <= k - 1
      BY <1>0
    <3> QED BY <1>2, <2>1, <2>2, <3>1 DEF AddressAt
  <2> HIDE DEF r, part, first
  <2> QED BY <1>5, <1>6, <2>1, <2>3, SaysNobody DEF r
<1> QED BY <1>7, <1>8

\* in the host,
LEMMA HostSays ==
    ASSUME NEW s \in Chars, NEW k, NEW u, NEW p, InHost(s, Len(s), k, u, p)
    PROVE  Says(s, p)
<1> DEFINE part == Piece(s, k + 1, Len(s))  r == Remainder(p)
<1>0. /\ Len(s) \in Nat /\ Len(s) \in 0..Len(s) /\ k \in 1..Len(s)
      /\ k + 1 \in 1..(Len(s) + 1) /\ k - 1 \in 0..Len(s)
      /\ (Len(s) < k + 1 <=> k = Len(s))
  BY LenProperties DEF Chars, InHost
<1>1. p = Knows(part, NULL, u, NULL, TRUE)
  BY DEF InHost
<1>2. s[k] = "@" /\ UserAt(s, k - 1, u) /\ Free(s, k + 1, Len(s), Stops)
  BY DEF InHost
<1>3. part = NULL <=> k = Len(s)
  BY <1>0, PieceIs
<1>4. /\ p.part = part /\ p.first = NULL /\ p.host = NULL /\ p.bad = FALSE
      /\ p.username = u.username /\ p.password = u.password
  <2> HIDE DEF part
  <2> QED BY <1>1 DEF Knows
<1>5. r = [host |-> part, port |-> NULL] \/ (part = NULL /\ r.host = NULL)
  <2> HIDE DEF part
  <2> QED BY <1>4 DEF Remainder
<1>6. r.host # NULL => AddressAt(s, k + 1, TRUE, r)
  <2> SUFFICES ASSUME r.host # NULL PROVE AddressAt(s, k + 1, TRUE, r)
    OBVIOUS
  <2>1. r = [host |-> part, port |-> NULL] /\ part # NULL
    <3> HIDE DEF part, r
    <3> QED BY <1>5
  <2>2. k + 1 <= Len(s)
    BY <1>0, <1>3, <2>1
  <2> HIDE DEF r
  <2> QED BY <1>2, <2>1, <2>2 DEF AddressAt
<1>7. r.host = NULL => ~\E a : AddressAt(s, k + 1, TRUE, a)
  <2> SUFFICES ASSUME r.host = NULL, NEW a, AddressAt(s, k + 1, TRUE, a) PROVE FALSE
    OBVIOUS
  <2>1. part = NULL
    <3> HIDE DEF part, r
    <3> QED BY <1>5
  <2>2. k + 1 <= Len(s)
    BY <1>0, AddressIs
  <2> QED BY <1>0, <1>3, <2>1, <2>2
<1> HIDE DEF r, part
<1> QED BY <1>0, <1>2, <1>4, <1>6, <1>7, SaysUser DEF r

\* or in the port.
LEMMA PortSays ==
    ASSUME NEW s \in Chars, NEW k, NEW h, NEW u, NEW p, InPort(s, Len(s), k, h, u, p)
    PROVE  Says(s, p)
<1> DEFINE part == Piece(s, h + 1, Len(s))  host == Piece(s, k + 1, h - 1)  r == Remainder(p)
<1>0. /\ Len(s) \in Nat /\ Len(s) \in 0..Len(s) /\ k \in 1..Len(s) /\ h \in (k + 1)..Len(s)
      /\ k + 1 \in 1..(Len(s) + 1) /\ h - 1 \in 0..Len(s) /\ k + 1 <= h - 1 /\ ~(h - 1 < k + 1)
  BY LenProperties DEF Chars, InPort
<1>1. p = Knows(part, NULL, u, host, TRUE)
  BY DEF InPort
<1>2. /\ s[k] = "@" /\ UserAt(s, k - 1, u) /\ s[h] = ":" /\ Free(s, k + 1, h - 1, Stops)
      /\ Free(s, h + 1, Len(s), Stops)
  BY DEF InPort
<1>3. host # NULL
  BY <1>0, PieceIs
<1>4. /\ p.part = part /\ p.first = NULL /\ p.host = host /\ p.bad = FALSE
      /\ p.username = u.username /\ p.password = u.password
  <2> HIDE DEF part, host
  <2> QED BY <1>1 DEF Knows
<1>5. r = [host |-> host, port |-> part]
  <2> HIDE DEF part, host
  <2> QED BY <1>3, <1>4 DEF Remainder
<1>6. AddressAt(s, k + 1, TRUE, r)
  <2>1. PortAt(s, h + 1, TRUE)
    BY <1>2 DEF PortAt
  <2> QED BY <1>0, <1>2, <1>5, <2>1 DEF AddressAt
<1>7. r.host # NULL
  <2> HIDE DEF host, part
  <2> QED BY <1>3, <1>5
<1> HIDE DEF r, part, host
<1> QED BY <1>0, <1>2, <1>4, <1>6, <1>7, SaysUser DEF r

\* One pass over a text finds the only reading it has, or that it has none.
LEMMA PassReads ==
    ASSUME NEW s \in Chars
    PROVE  Says(s, Scanned(s)[Len(s)])
<1> DEFINE p == Scanned(s)[Len(s)]
<1>1. ScannedTo(s, Len(s), p)
  <2>1. Len(s) \in 0..Len(s)
    BY LenProperties DEF Chars
  <2> QED BY <2>1, AllScanned
<1> SUFFICES Says(s, p)
  OBVIOUS
<1> HIDE DEF p
<1>2. CASE Unreadable(s, p)
  BY <1>2 DEF Unreadable, Says
<1>3. CASE InFirst(s, Len(s), p)
  BY <1>3, FirstSays
<1>4. CASE \E k \in 1..Len(s) : InSecond(s, Len(s), k, p)
  BY <1>4, SecondSays
<1>5. CASE \E k \in 1..Len(s) : \E u : InHost(s, Len(s), k, u, p)
  BY <1>5, HostSays
<1>6. CASE \E k, h \in 1..Len(s) : \E u : InPort(s, Len(s), k, h, u, p)
  BY <1>6, PortSays
<1> QED BY <1>1, <1>2, <1>3, <1>4, <1>5, <1>6 DEF ScannedTo

-----------------------------------------------------------------------------
(* The proxy settings are what the url says *)

\* The parts of a user are texts.
LEMMA UserType ==
    ASSUME NEW s \in Chars, NEW j \in 0..Len(s), NEW u, UserAt(s, j, u)
    PROVE  u.username \in Chars /\ u.password \in Chars
<1>0. Len(s) \in Nat /\ NULL \in Chars /\ 1 \in 1..(Len(s) + 1)
  BY LenProperties, EmptySeq DEF Chars, NULL
<1>1. CASE u = [username |-> Piece(s, 1, j), password |-> NULL]
  <2>1. Piece(s, 1, j) \in Chars
    BY <1>0, PieceIs
  <2> QED BY <1>0, <1>1, <2>1
<1>2. ASSUME NEW k \in 1..j, u = [username |-> Piece(s, 1, k - 1), password |-> Piece(s, k + 1, j)]
      PROVE  u.username \in Chars /\ u.password \in Chars
  <2>1. k - 1 \in 0..Len(s) /\ k + 1 \in 1..(Len(s) + 1)
    BY <1>0
  <2>2. Piece(s, 1, k - 1) \in Chars /\ Piece(s, k + 1, j) \in Chars
    BY <1>0, <2>1, PieceIs
  <2> QED BY <1>2, <2>2
<1> QED BY <1>1, <1>2 DEF UserAt

\* So is what the pass keeps of them.
LEMMA ScannedType ==
    ASSUME NEW s \in Chars, NEW p, ScannedTo(s, Len(s), p), ~(p.bad = TRUE)
    PROVE  p.username \in Chars /\ p.password \in Chars
<1>0. Len(s) \in Nat /\ NULL \in Chars
  BY LenProperties, EmptySeq DEF Chars, NULL
<1>1. ASSUME NEW part, NEW first, NEW host, p = Knows(part, first, Nobody, host, FALSE)
      PROVE  p.username \in Chars /\ p.password \in Chars
  BY <1>0, <1>1 DEF Knows, Nobody
<1>2. ASSUME NEW part, NEW first, NEW host, NEW u, NEW k \in 1..Len(s), UserAt(s, k - 1, u),
             p = Knows(part, first, u, host, TRUE)
      PROVE  p.username \in Chars /\ p.password \in Chars
  <2>1. k - 1 \in 0..Len(s)
    BY <1>0
  <2>2. u.username \in Chars /\ u.password \in Chars
    BY <1>2, <2>1, UserType
  <2> QED BY <1>2, <2>2 DEF Knows
<1>3. CASE InFirst(s, Len(s), p)
  BY <1>1, <1>3 DEF InFirst
<1>4. CASE \E k \in 1..Len(s) : InSecond(s, Len(s), k, p)
  BY <1>1, <1>4 DEF InSecond
<1>5. CASE \E k \in 1..Len(s) : \E u : InHost(s, Len(s), k, u, p)
  BY <1>2, <1>5 DEF InHost
<1>6. CASE \E k, h \in 1..Len(s) : \E u : InPort(s, Len(s), k, h, u, p)
  BY <1>2, <1>6 DEF InPort
<1> QED BY <1>3, <1>4, <1>5, <1>6 DEF ScannedTo, Unreadable

\* Decoding takes every escape as meant but %40.
LEMMA DecodedIsMeant ==
    ASSUME NEW t, ~Contains(t, "%40")
    PROVE  Decoded(t) = Meant(t)
<1> DEFINE meant == [Escape EXCEPT !["%40"] = "@"]
<1>1. DOMAIN meant = DOMAIN Escape /\ \A c \in DOMAIN Escape : c # "%40" => meant[c] = Escape[c]
  OBVIOUS
<1> HIDE DEF meant
<1>2. \A k \in DOMAIN t : t[k] # "%40"
  BY LenProperties DEF Contains
<1>3. \A k \in DOMAIN t : (IF t[k] \in DOMAIN Escape THEN Escape[t[k]] ELSE t[k])
                        = (IF t[k] \in DOMAIN meant THEN meant[t[k]] ELSE t[k])
  BY <1>1, <1>2
<1>4. Decoded(t) = [k \in DOMAIN t |-> IF t[k] \in DOMAIN meant THEN meant[t[k]] ELSE t[k]]
  BY <1>3 DEF Decoded
<1> QED BY <1>4 DEF Meant, meant

\* A text holds what is in its parts.
LEMMA ConcatHolds ==
    ASSUME NEW t \in Chars, NEW w \in Chars, NEW c, ~Contains(t \o w, c)
    PROVE  ~Contains(t, c) /\ ~Contains(w, c)
<1>0. /\ Len(t) \in Nat /\ Len(w) \in Nat /\ Len(t \o w) = Len(t) + Len(w)
      /\ \A k \in 1..(Len(t) + Len(w)) : (t \o w)[k] = IF k <= Len(t) THEN t[k] ELSE w[k - Len(t)]
  BY LenProperties, ConcatProperties DEF Chars
<1>1. \A k \in 1..Len(t \o w) : (t \o w)[k] # c
  BY DEF Contains
<1>2. ASSUME NEW k \in 1..Len(t), t[k] = c PROVE FALSE
  <2>1. k \in 1..Len(t \o w) /\ (t \o w)[k] = t[k]
    BY <1>0
  <2> QED BY <1>1, <1>2, <2>1
<1>3. ASSUME NEW k \in 1..Len(w), w[k] = c PROVE FALSE
  <2> DEFINE m == k + Len(t)
  <2>1. m \in 1..Len(t \o w) /\ m \in 1..(Len(t) + Len(w)) /\ ~(m <= Len(t)) /\ m - Len(t) = k
    BY <1>0
  <2> HIDE DEF m
  <2>2. (t \o w)[m] = w[k]
    BY <1>0, <2>1
  <2> QED BY <1>1, <1>3, <2>1, <2>2
<1> QED BY <1>2, <1>3 DEF Contains

\* A url is read as it is written, and refused when it says nothing.
LEMMA UrlAsWritten ==
    ASSUME NEW url \in [scheme : STRING, rest : Chars]
    PROVE  ReadAsWritten(url)
<1> DEFINE s == url.rest  p == Scanned(s)[Len(s)]  r == Remainder(p)  port == PortOf(r.port)
           got == parse_socks_url(url)
           Usable(q) == /\ url.scheme = "socks5h"
                        /\ Decodable(q.username) /\ Decodable(q.password)
                        /\ q.port # NULL => IsPort(atoi(q.port))
           rs == {q \in Readings(s) : Usable(q)}
           q0 == Said(p, r)
<1>0. s \in Chars
  OBVIOUS
<1>1. ScannedTo(s, Len(s), p) /\ Says(s, p)
  <2> HIDE DEF s
  <2>1. Len(s) \in 0..Len(s)
    BY <1>0, LenProperties DEF Chars
  <2> QED BY <1>0, <2>1, AllScanned, PassReads
<1>2. got = [ok |-> /\ url.scheme = "socks5h" /\ ~p.bad /\ r.host # NULL
                    /\ Decodable(p.username) /\ Decodable(p.password) /\ IsPort(port),
             username |-> Decoded(p.username), password |-> Decoded(p.password),
             host |-> r.host, port |-> port]
  BY DEF parse_socks_url
<1>3. /\ got.ok <=> /\ url.scheme = "socks5h" /\ ~p.bad /\ r.host # NULL
                    /\ Decodable(p.username) /\ Decodable(p.password) /\ IsPort(port)
      /\ got.username = Decoded(p.username) /\ got.password = Decoded(p.password)
      /\ got.host = r.host /\ got.port = port
  <2> HIDE DEF got, p, r, port
  <2> QED BY <1>2
<1>4. q0 = [username |-> p.username, password |-> p.password, host |-> r.host, port |-> r.port]
  BY DEF Said
<1> SUFFICES /\ got.ok <=> rs # {}
             /\ got.ok => \E q \in rs :
                   /\ got.host = q.host
                   /\ got.port = IF q.port = NULL THEN DefaultPort ELSE atoi(q.port)
                   /\ \/ Contains(q.username \o q.password, "%40")
                      \/ got.username = Meant(q.username) /\ got.password = Meant(q.password)
  BY DEF ReadAsWritten
<1>5. port = IF r.port = NULL THEN DefaultPort ELSE atoi(r.port)
  BY DEF PortOf
<1>6. IsPort(DefaultPort)
  BY DEF IsPort, DefaultPort
<1>7. p.bad = TRUE \/ p.bad = FALSE
  BY <1>1 DEF ScannedTo, InFirst, InSecond, InHost, InPort, Knows, Unreadable
<1> HIDE DEF s, p, r, port, got
<1>8. CASE p.bad = TRUE \/ r.host = NULL
  <2>1. Readings(s) = {}
    BY <1>1, <1>8 DEF Says, r
  <2>2. ~got.ok
    BY <1>3, <1>8
  <2> QED BY <2>1, <2>2
<1>9. CASE ~(p.bad = TRUE) /\ r.host # NULL
  <2>1. Readings(s) = {q0}
    BY <1>1, <1>9 DEF Says, r
  <2>2. Usable(q0) <=> /\ url.scheme = "socks5h" /\ Decodable(p.username) /\ Decodable(p.password)
                       /\ (r.port # NULL => IsPort(atoi(r.port)))
    BY <1>4
  <2>3. IsPort(port) <=> (r.port # NULL => IsPort(atoi(r.port)))
    BY <1>5, <1>6
  <2>4. got.ok <=> Usable(q0)
    BY <1>3, <1>7, <1>9, <2>2, <2>3
  <2> HIDE DEF Usable
  <2>5. got.ok <=> rs # {}
    BY <2>1, <2>4
  <2>6. got.ok => q0 \in rs
    BY <2>1, <2>4
  <2>7. p.username \in Chars /\ p.password \in Chars
    BY <1>0, <1>1, <1>9, ScannedType
  <2>8. \/ Contains(p.username \o p.password, "%40")
        \/ got.username = Meant(p.username) /\ got.password = Meant(p.password)
    BY <1>3, <2>7, ConcatHolds, DecodedIsMeant
  <2>9. q0.username = p.username /\ q0.password = p.password /\ q0.host = r.host /\ q0.port = r.port
    BY <1>4
  <2> HIDE DEF q0, rs
  <2> QED BY <1>3, <1>5, <2>5, <2>6, <2>8, <2>9
<1> QED BY <1>8, <1>9

\* A proxy url given to a program that ran, or that refused to, was read as it is written.
THEOREM ProxySaysUrl == Spec => []ProxyAsWritten
<1>1. ASSUME job \in Jobs PROVE ProxyAsWritten
  <2>1. job.url \in [scheme : STRING, rest : Seq(STRING)]
    BY <1>1, ConfigAssumption
  <2>2. job.url \in [scheme : STRING, rest : Chars]
    BY <2>1 DEF Chars
  <2>3. ReadAsWritten(job.url)
    BY <2>2, UrlAsWritten
  <2> QED BY <2>3 DEF ProxyAsWritten
<1>2. Typed => ProxyAsWritten
  BY <1>1 DEF Typed, Loads
<1> QED BY <1>2, TypedInvariant, PTL

-----------------------------------------------------------------------------
(* That the start comes to an end *)

\* How far main() is from its end: places to go, what is to be done at this place,
\* and words to be read.
Stage ==
    CASE pc = "FILE" -> 13 [] pc = "ARGV" -> 12 [] pc \in {"ACCEPTED", "REFUSED"} -> 11
      [] pc \in {"LOAD_STDIN", "FOPEN"} -> 10 [] pc = "FREAD" -> 9 [] pc = "NEEDS" -> 8
      [] pc = "LIB_INIT" -> 7 [] pc = "ID" -> 6 [] pc = "NEW" -> 5 [] pc = "OPTS" -> 4
      [] pc = "CONNECT" -> 3 [] pc = "LOOP" -> 2 [] pc = "CLEANUP" -> 1
      [] pc \in {"DONE", "CRASHED"} -> 0
ToDo ==
    CASE pc \in Configuring -> Len(lines)
      [] pc = "LOAD_STDIN"  -> 2 * (input.length - pos) + (IF message THEN 0 ELSE 1)
      [] pc = "OPTS"        -> Cardinality(DueCalls)
      [] OTHER              -> 0
Distance == <<Stage, <<ToDo, Len(words)>>>>

\* Distances are compared place by place.
Less == {p \in Nat \X Nat : p[1] < p[2]}
Distances == Nat \X (Nat \X Nat)
Nearer == LexPairOrdering(Less, LexPairOrdering(Less, Less, Nat, Nat), Nat, Nat \X Nat)

\* There is no way of coming nearer for ever.
THEOREM NearerEnds == IsWellFoundedOn(Nearer, Distances)
<1>1. IsWellFoundedOn(Less, Nat)
  BY NatLessThanWellFounded DEF OpToRel, Less
<1>2. IsWellFoundedOn(LexPairOrdering(Less, Less, Nat, Nat), Nat \X Nat)
  BY <1>1, WFLexPairOrdering
<1> QED BY <1>1, <1>2, WFLexPairOrdering DEF Nearer, Distances

\* What is nearer: an earlier number is smaller, and those before it are the same.
LEMMA IsNearer ==
    ASSUME NEW a \in Nat, NEW b \in Nat, NEW c \in Nat,
           NEW x \in Nat, NEW y \in Nat, NEW z \in Nat,
           \/ x < a
           \/ x = a /\ y < b
           \/ x = a /\ y = b /\ z < c
    PROVE  <<<<x, <<y, z>>>>, <<a, <<b, c>>>>>> \in Nearer
<1>1. \/ <<x, a>> \in Less
      \/ x = a /\ <<y, b>> \in Less
      \/ x = a /\ y = b /\ <<z, c>> \in Less
  BY DEF Less
<1> HIDE DEF Less
<1>2. \/ <<x, a>> \in Less
      \/ x = a /\ <<<<y, z>>, <<b, c>>>> \in LexPairOrdering(Less, Less, Nat, Nat)
  BY <1>1 DEF LexPairOrdering
<1> DEFINE R == LexPairOrdering(Less, Less, Nat, Nat)
<1>3. <<x, a>> \in Less \/ (x = a /\ <<<<y, z>>, <<b, c>>>> \in R)
  BY <1>2
<1> HIDE DEF R
<1>4. <<<<x, <<y, z>>>>, <<a, <<b, c>>>>>> \in LexPairOrdering(Less, R, Nat, Nat \X Nat)
  BY <1>3 DEF LexPairOrdering
<1> QED BY <1>4 DEF Nearer, R

\* The words that are left are words, whatever the lines are made of.
Texts == lines \in Seq(Seq(STRING)) /\ words \in Seq(STRING)

LEMMA PieceOfWords ==
    ASSUME NEW w \in Seq(STRING), NEW m \in 1..3, NEW n \in Nat, n <= Len(w)
    PROVE  /\ SubSeq(w, m, n) \in Seq(STRING)
           /\ Len(SubSeq(w, m, n)) = IF m <= n THEN n - m + 1 ELSE 0
<1>1. \A k \in m..n : w[k] \in STRING
  BY ElementOfSeq, LenProperties
<1> QED BY <1>1, SubSeqProperties

LEMMA WordsOfLine ==
    ASSUME NEW line \in Seq(STRING)
    PROVE  LineWords(line) \in Seq(STRING)
<1> DEFINE n == IF Len(line) < 2 THEN Len(line) ELSE 2
<1>1. n \in Nat /\ n <= Len(line)
  BY LenProperties
<1>2. SubSeq(line, 1, n) \in Seq(STRING)
  BY <1>1, PieceOfWords
<1>3. <<>> \in Seq(STRING)
  OBVIOUS
<1> QED BY <1>2, <1>3 DEF LineWords

\* An option takes itself and its value from the words, or ends the reading.
LEMMA OptionTakes ==
    client_config_line_proc =>
        \/ pc' = "REFUSED" /\ words' = words
        \/ /\ pc' = pc /\ words # <<>> /\ (opt \in WithValue => Len(words) > 1)
           /\ words' = SubSeq(words, IF opt \in WithValue THEN 3 ELSE 2, Len(words))
BY DEF client_config_line_proc, TextOption, NumberOption, FlagOption, SourceOption,
       SourceTextOption, IdOption, TopicOption, FilterOption, WillTopicOption, VersionOption,
       ProxyOption, HelpOption, BadOption, Take, Refuse, Applies

LEMMA OptionShortens ==
    ASSUME client_config_line_proc, Texts
    PROVE  /\ words' \in Seq(STRING)
           /\ pc' = "REFUSED" \/ (pc' = pc /\ Len(words') < Len(words))
<1>1. CASE pc' = "REFUSED" /\ words' = words
  BY <1>1 DEF Texts
<1>2. CASE /\ pc' = pc /\ words # <<>> /\ (opt \in WithValue => Len(words) > 1)
           /\ words' = SubSeq(words, IF opt \in WithValue THEN 3 ELSE 2, Len(words))
  <2> DEFINE m == IF opt \in WithValue THEN 3 ELSE 2
  <2>1. words \in Seq(STRING) /\ Len(words) \in Nat /\ Len(words) > 0
    BY <1>2, LenProperties, EmptySeq DEF Texts
  <2>2. m \in 1..3 /\ m >= 2 /\ words' = SubSeq(words, m, Len(words))
    BY <1>2
  <2> HIDE DEF m
  <2>3. /\ words' \in Seq(STRING)
        /\ Len(words') = IF m <= Len(words) THEN Len(words) - m + 1 ELSE 0
    BY <2>1, <2>2, PieceOfWords
  <2>4. Len(words') < Len(words)
    BY <2>1, <2>2, <2>3
  <2> QED BY <1>2, <2>3, <2>4
<1> QED BY <1>1, <1>2, OptionTakes

\* What is read of the file is never more than the size that was taken.
Unread == (pc = "FOPEN" => pos = 0) /\ (pc = "FREAD" => pos <= msglen)
Ahead == Texts /\ Unread

LEMMA AheadInit == Init => Ahead
<1> SUFFICES ASSUME Init PROVE Ahead
  OBVIOUS
<1>1. lines \in Seq(Seq(STRING)) /\ <<>> \in Seq(STRING)
  BY ConfigAssumption DEF Init, ConfigInit
<1>2. words = <<>> /\ pc = "FILE"
  BY DEF Init, ConfigInit
<1> QED BY <1>1, <1>2 DEF Ahead, Texts, Unread

LEMMA AheadStep == Typed /\ Ahead /\ [Next]_vars => Ahead'
<1> SUFFICES ASSUME Typed, Ahead, [Next]_vars PROVE Ahead'
  OBVIOUS
<1> DEFINE W == Seq(STRING)
<1>0. /\ lines \in Seq(W) /\ words \in W /\ Unread
      /\ job \in Jobs /\ pos \in Nat /\ msglen \in Nat
      /\ (pc = "ACCEPTED" => pos = 0) /\ input.length \in Nat
  <2>1. MaxFile \in Nat
    BY StartAssumption
  <2>2. /\ pos \in 0..MaxFile /\ msglen \in 0..MaxFile /\ input.length \in 0..MaxFile
        /\ (pc = "ACCEPTED" => pos = 0) /\ job \in Jobs
    BY DEF Typed, Machine, Loads
  <2> QED BY <2>1, <2>2 DEF Ahead, Texts
<1> HIDE DEF W
<1>1. CASE Configure
  <2>1. pc' \notin {"FOPEN", "FREAD"}
    BY <1>1, ConfigureMoves DEF Configuring
  <2>2. CASE client_config_line_proc
    BY <2>1, <2>2, OptionMoves, OptionShortens DEF Ahead, Texts, Unread
  <2>3. CASE NextLine \/ NextArgument
    <3>1. Head(lines) \in W /\ lines' \in Seq(W)
      BY <1>0, <2>3, HeadTailProperties DEF NextLine, NextArgument
    <3>2. words' \in W
      <4>1. CASE NextLine
        BY <3>1, <4>1, WordsOfLine DEF NextLine, W
      <4>2. CASE NextArgument
        BY <1>0, <3>1, <4>2, ConcatProperties DEF NextArgument, W
      <4> QED BY <2>3, <4>1, <4>2
    <3> QED BY <2>1, <3>1, <3>2 DEF Ahead, Texts, Unread, W
  <2>4. CASE CommandLine
    <3>1. job.argv \in Seq(W)
      BY <1>0, ConfigAssumption DEF W
    <3> QED BY <1>0, <2>1, <2>4, <3>1 DEF CommandLine, Ahead, Texts, Unread, W
  <2>5. CASE Checks
    BY <1>0, <2>1, <2>5 DEF Checks, Refuse, Ahead, Texts, Unread, W
  <2> QED BY <1>1, <2>2, <2>3, <2>4, <2>5 DEF Configure, client_config_load
<1>2. CASE Next /\ ~Configure
  <2>1. UNCHANGED <<lines, words>>
    BY <1>2 DEF Next, Main, client_config_cleanup, Accepted, load_stdin, load_file, ReadFile,
       Needs, lib_init, client_id_generate, mosquitto_new, client_opts_set, client_connect,
       ConnectFails, LoopEnds, lib_cleanup, FileChanges, GoTo, Exit, GiveUp, configVars
  <2>2. Unread'
    <3>1. CASE Accepted
      BY <1>0, <3>1 DEF Accepted, GoTo, startVars, loadVars, Unread
    <3>2. CASE load_file
      BY <1>0, <3>2 DEF load_file, GoTo, Exit, Unread
    <3>3. CASE ReadFile
      <4>1. Least(msglen, input.length) <= msglen
        BY <1>0 DEF Least
      <4>2. pos' <= msglen /\ msglen' = msglen /\ pc' \in {"FREAD", "NEEDS"}
        BY <1>0, <3>3, <4>1 DEF ReadFile, GoTo, configVars, Unread
      <4> QED BY <4>2 DEF Unread
    <3>4. CASE FileChanges
      BY <1>0, <3>4 DEF FileChanges, configVars, Unread
    <3>5. CASE ~Accepted /\ ~load_file /\ ~ReadFile /\ ~FileChanges
      <4>1. pc' \notin {"FOPEN", "FREAD"}
        BY <1>2, <3>5 DEF Next, Main, client_config_cleanup, load_stdin, Needs, lib_init,
           client_id_generate, mosquitto_new, client_opts_set, client_connect, ConnectFails,
           LoopEnds, lib_cleanup, GoTo, Exit, GiveUp, configVars
      <4> QED BY <4>1 DEF Unread
    <3> QED BY <3>1, <3>2, <3>3, <3>4, <3>5
  <2> QED BY <2>1, <2>2 DEF Ahead, Texts
<1>3. CASE UNCHANGED vars
  BY <1>3, <1>0 DEF vars, configVars, startVars, loadVars, Ahead, Texts, Unread, W
<1> QED BY <1>1, <1>2, <1>3

\* A distance is made of natural numbers.
LEMMA DueFinite ==
    /\ IsFiniteSet(DueCalls) /\ Cardinality(DueCalls) \in Nat /\ DueCalls \subseteq 1..9
<1>1. DueCalls \subseteq 1..9
  BY DEF DueCalls, Calls
<1>2. 1 \in Int /\ 9 \in Int
  OBVIOUS
<1>3. IsFiniteSet(1..9)
  BY <1>2, FS_Interval
<1> QED BY <1>1, <1>3, FS_Subset, FS_CardinalityType

LEMMA DistanceType ==
    Typed /\ Texts => Stage \in 0..13 /\ ToDo \in Nat /\ Len(words) \in Nat
<1> SUFFICES ASSUME Typed, Texts PROVE Stage \in 0..13 /\ ToDo \in Nat /\ Len(words) \in Nat
  OBVIOUS
<1>1. Stage \in 0..13
  BY DEF Typed, InOrder, Places, Stage
<1>2. Len(words) \in Nat /\ Len(lines) \in Nat
  BY LenProperties DEF Texts
<1>3. ToDo \in Nat
  <2>1. CASE pc \in Configuring
    BY <1>2, <2>1 DEF ToDo, Configuring
  <2>2. CASE pc = "LOAD_STDIN"
    <3>1. MaxFile \in Nat /\ input.length \in 0..MaxFile /\ pos \in 0..input.length
      BY <2>2, StartAssumption DEF Typed, Machine, Loads
    <3>2. 2 * (input.length - pos) \in Nat
      BY <3>1
    <3>3. ToDo = 2 * (input.length - pos) + (IF message THEN 0 ELSE 1)
      BY <2>2 DEF ToDo, Configuring
    <3> QED BY <3>2, <3>3
  <2>3. CASE pc = "OPTS"
    BY <2>3, DueFinite DEF ToDo, Configuring
  <2>4. CASE pc \notin Configuring \cup {"LOAD_STDIN", "OPTS"}
    BY <2>4 DEF ToDo
  <2> QED BY <2>1, <2>2, <2>3, <2>4
<1> QED BY <1>1, <1>2, <1>3

\* main() comes nearer when it goes on to a later place, and where it stays at one,
\* by what it does there.
Forward ==
    \/ Stage' < Stage
    \/ Stage' = Stage /\ ToDo' < ToDo
    \/ Stage' = Stage /\ ToDo' = ToDo /\ Len(words') < Len(words)

LEMMA ConfigureForward == ASSUME Typed, Texts, Configure PROVE Forward
<1>1. CASE client_config_line_proc
  <2>1. pc \in Configuring /\ lines' = lines
    BY <1>1, OptionMoves
  <2>2. pc' = "REFUSED" \/ (pc' = pc /\ Len(words') < Len(words))
    BY <1>1, OptionShortens
  <2>3. CASE pc' = "REFUSED"
    BY <2>1, <2>3 DEF Forward, Stage, Configuring
  <2>4. CASE pc' = pc /\ Len(words') < Len(words)
    BY <2>1, <2>4 DEF Forward, Stage, ToDo, Configuring
  <2> QED BY <2>2, <2>3, <2>4
<1>2. CASE NextLine \/ NextArgument
  <2>1. /\ pc \in Configuring /\ pc' = pc /\ lines # <<>> /\ lines' = Tail(lines)
    BY <1>2 DEF NextLine, NextArgument, Configuring
  <2>2. Len(lines') = Len(lines) - 1 /\ Len(lines) \in Nat
    BY <2>1, HeadTailProperties, LenProperties DEF Texts
  <2>3. ToDo = Len(lines) /\ ToDo' = Len(lines')
    BY <2>1 DEF ToDo, Configuring
  <2>4. Stage' = Stage
    BY <2>1 DEF Stage
  <2>5. ToDo' < ToDo
    BY <2>2, <2>3
  <2> QED BY <2>4, <2>5 DEF Forward
<1>3. CASE CommandLine
  BY <1>3 DEF CommandLine, Forward, Stage
<1>4. CASE Checks
  BY <1>4 DEF Checks, Refuse, Forward, Stage
<1> QED BY <1>1, <1>2, <1>3, <1>4 DEF Configure, client_config_load

\* load_stdin() reads something, or for the first time, unless reading fails after
\* the first bytes; load_file() reads all or never will.
LEMMA LoadForward ==
    ASSUME Typed, Unread, load_stdin \/ ReadFile, ~Endless
    PROVE  Forward
<1>0. /\ Block \in Nat \ {0} /\ MaxFile \in Nat /\ input.length \in 0..MaxFile
      /\ pos \in 0..MaxFile /\ msglen \in 0..MaxFile /\ message \in BOOLEAN
  BY StartAssumption DEF Typed, Machine
<1>1. CASE load_stdin
  <2> DEFINE rlen == Least(Block, input.length - pos)
  <2>1. pc = "LOAD_STDIN" /\ pos \in 0..input.length
    BY <1>1 DEF load_stdin, Typed, Loads
  <2>2. rlen \in Nat /\ rlen <= Block /\ rlen <= input.length - pos
    BY <1>0, <2>1 DEF Least
  <2>3. \/ pc' \in {"DONE", "CRASHED", "NEEDS"}
        \/ /\ pc' = pc /\ pos' = pos + rlen /\ message' = TRUE /\ input' = input
           /\ ~(pos + rlen = 0 /\ message) /\ (rlen = Block \/ input.fails)
    <3>1. CASE pos + rlen = 0 /\ message
      BY <1>1, <3>1 DEF load_stdin, Exit
    <3>2. CASE ~(pos + rlen = 0 /\ message)
      <4>1. CASE rlen < Block /\ ~input.fails
        BY <1>1, <3>2, <4>1 DEF load_stdin, Exit, GoTo
      <4>2. CASE ~(rlen < Block /\ ~input.fails)
        BY <1>1, <1>0, <2>2, <3>2, <4>2 DEF load_stdin, Exit, configVars
      <4> QED BY <4>1, <4>2
    <3> QED BY <3>1, <3>2
  <2> HIDE DEF rlen
  <2>4. CASE pc' \in {"DONE", "CRASHED", "NEEDS"}
    BY <2>1, <2>4 DEF Forward, Stage
  <2>5. CASE /\ pc' = pc /\ pos' = pos + rlen /\ message' = TRUE /\ input' = input
             /\ ~(pos + rlen = 0 /\ message) /\ (rlen = Block \/ input.fails)
    <3>1. /\ ToDo = 2 * (input.length - pos) + (IF message THEN 0 ELSE 1)
          /\ ToDo' = 2 * (input.length - (pos + rlen))
      BY <1>0, <2>1, <2>2, <2>5 DEF ToDo, Configuring
    <3>2. rlen > 0 \/ ~message
      <4>1. CASE rlen = Block
        BY <1>0, <4>1
      <4>2. CASE input.fails
        BY <1>0, <2>1, <2>2, <2>5, <4>2 DEF Endless
      <4> QED BY <2>5, <4>1, <4>2
    <3>3. ToDo' < ToDo
      BY <1>0, <2>1, <2>2, <3>1, <3>2
    <3> QED BY <2>1, <2>5, <3>3 DEF Forward, Stage
  <2> QED BY <2>3, <2>4, <2>5
<1>2. CASE ReadFile
  <2>1. pc = "FREAD" /\ ~input.fails /\ input.length >= msglen /\ pos <= msglen
    BY <1>2, <1>0 DEF ReadFile, Endless, Unread
  <2>2. pos' = msglen
    BY <1>2, <1>0, <2>1 DEF ReadFile, Least
  <2>3. pc' = "NEEDS"
    BY <1>2, <2>2 DEF ReadFile, FileLoaded, GoTo
  <2> QED BY <2>1, <2>3 DEF Forward, Stage
<1> QED BY <1>1, <1>2

\* A call that was made is not due any more.
LEMMA OptsForward == ASSUME Typed, client_opts_set PROVE Forward
<1>1. PICK k \in DueCalls :
         \/ /\ Tell(Calls[k])
            /\ IF DueCalls = {k} THEN GoTo("CONNECT") ELSE UNCHANGED configVars
         \/ GiveUp(1)
  BY DEF client_opts_set
<1>2. pc = "OPTS"
  BY DEF client_opts_set
<1>3. CASE GiveUp(1)
  BY <1>2, <1>3 DEF GiveUp, Exit, Forward, Stage
<1>4. CASE Tell(Calls[k]) /\ DueCalls = {k} /\ GoTo("CONNECT")
  BY <1>2, <1>4 DEF GoTo, Forward, Stage
<1>5. CASE Tell(Calls[k]) /\ UNCHANGED configVars
  <2>1. cfg' = cfg /\ pc' = pc
    BY <1>5 DEF configVars
  <2>2. \A call : Due(call)' <=> Due(call)
    BY <2>1 DEF Due, HasCA
  <2>3. /\ told \in Seq(Entries) /\ Entry(Calls[k]) \in Entries
        /\ told' = Append(told, Entry(Calls[k]))
    BY <1>1, <1>5, CallsKnown DEF Tell, Entry, Entries, DueCalls, Typed, ToldInv
  <2>4. /\ \A i \in DOMAIN told : i \in DOMAIN told' /\ told'[i] = told[i]
        /\ Len(told) + 1 \in DOMAIN told' /\ told'[Len(told) + 1] = Entry(Calls[k])
    BY <2>3, AppendProperties, LenProperties
  <2>5. \A call : Told(call) => Told(call)'
    BY <2>4 DEF Told
  <2>6. Told(Calls[k])'
    BY <2>4 DEF Told, Entry
  <2>7. DueCalls' \subseteq DueCalls /\ k \notin DueCalls'
    BY <2>2, <2>5, <2>6 DEF DueCalls
  <2>8. DueCalls' \subseteq DueCalls \ {k}
    BY <2>7
  <2>9. /\ Cardinality(DueCalls \ {k}) = Cardinality(DueCalls) - 1
        /\ IsFiniteSet(DueCalls \ {k})
    BY <1>1, DueFinite, FS_RemoveElement
  <2>10. Cardinality(DueCalls') <= Cardinality(DueCalls \ {k})
    BY <2>8, <2>9, FS_Subset
  <2>11. Cardinality(DueCalls') \in Nat /\ Cardinality(DueCalls) \in Nat
    BY <2>8, <2>9, DueFinite, FS_Subset, FS_CardinalityType
  <2>12. ToDo = Cardinality(DueCalls) /\ ToDo' = Cardinality(DueCalls')
    BY <1>2, <2>1 DEF ToDo, Configuring
  <2> QED BY <1>2, <2>1, <2>9, <2>10, <2>11, <2>12 DEF Forward, Stage
<1> QED BY <1>1, <1>3, <1>4, <1>5

\* Every step of main() but an endless read comes nearer to its end.
LEMMA MainForward == ASSUME Typed, Ahead, Main, ~Endless PROVE Forward
<1>1. CASE \/ client_config_cleanup \/ Accepted \/ load_file \/ Needs \/ lib_init
           \/ client_id_generate \/ mosquitto_new \/ client_connect \/ LoopEnds \/ lib_cleanup
  BY <1>1 DEF client_config_cleanup, NoMemory, Accepted, load_file, Needs, lib_init,
     client_id_generate, mosquitto_new, client_connect, ConnectFails, LoopEnds, lib_cleanup,
     GoTo, Exit, GiveUp, Forward, Stage
<1> QED BY <1>1, ConfigureForward, LoadForward, OptsForward DEF Main, Ahead

\* Every step of main() brings it nearer to its end, and no change of the file takes it
\* further away, unless a read is endless: so by NearerEnds it takes no more than finitely
\* many steps, however long the files, the command line and the input are.
THEOREM EveryStepCounts ==
    Spec => [][/\ Main => Endless \/ <<Distance', Distance>> \in Nearer
               /\ FileChanges => Distance' = Distance]_vars
<1> DEFINE Counts == /\ Main => Endless \/ <<Distance', Distance>> \in Nearer
                     /\ FileChanges => Distance' = Distance
<1>1. ASSUME Typed, Ahead, Typed', Ahead', Main, ~Endless
      PROVE  <<Distance', Distance>> \in Nearer
  <2>1. Stage \in Nat /\ ToDo \in Nat /\ Len(words) \in Nat
    BY <1>1, DistanceType DEF Ahead
  <2>2. Stage' \in 0..13 /\ ToDo' \in Nat /\ Len(words)' \in Nat
    <3>1. (Typed /\ Texts => Stage \in 0..13 /\ ToDo \in Nat /\ Len(words) \in Nat)'
      BY DistanceType, PTL
    <3> QED BY <1>1, <3>1 DEF Ahead
  <2>3. Forward
    BY <1>1, MainForward
  <2>4. Stage' \in Nat /\ Len(words') \in Nat
    BY <2>2
  <2> HIDE DEF Stage, ToDo
  <2>5. <<<<Stage', <<ToDo', Len(words')>>>>, <<Stage, <<ToDo, Len(words)>>>>>> \in Nearer
    BY <2>1, <2>2, <2>3, <2>4, IsNearer DEF Forward
  <2> QED BY <2>5 DEF Distance
<1>2. FileChanges => Distance' = Distance
  BY DEF FileChanges, configVars, Distance, Stage, ToDo, Configuring
<1>3. Typed /\ Ahead /\ Typed' /\ Ahead' => Counts
  BY <1>1, <1>2
<1> HIDE DEF Counts
<1>4. Spec => [](Typed /\ Ahead)
  BY AheadInit, AheadStep, TypedInvariant, PTL DEF Spec
<1>5. Spec => [][Counts]_vars
  BY <1>3, <1>4, PTL DEF Spec
<1> QED BY <1>5 DEF Counts
=============================================================================
