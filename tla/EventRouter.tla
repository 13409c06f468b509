----------------------------- MODULE EventRouter -----------------------------
(***************************************************************************)
(* The routing chain of UartCmdRxThread: which System V message queue, if  *)
(* any, a complete event goes to.                                          *)
(*                                                                         *)
(* An event is reduced to the bytes somebody decides on:                   *)
(*   evt     rx_packet[1], the HCI event code (0xFF: vendor specific)      *)
(*   code    bytes 4,3: the event opcode of a vendor event                 *)
(*   status  byte 5                                                        *)
(*   arg     bytes 7,6: the command a VS_COMMAND_STATUS answers, or a      *)
(*           connection handle, or whatever the event holds there          *)
(*   x       what else the chain or Central reads of this kind of event:   *)
(*           LINK_TERMINATED    byte 8, the reason                         *)
(*           DEVICE_INFORMATION UUIDMatch, or the byte the last failing    *)
(*                              comparison of the UUID ended on            *)
(*           WRITE_REQUEST      the class of its payload, see WriteQueue   *)
(***************************************************************************)
EXTENDS Naturals

VENDOR == \hFF

VS_GAP_DEVICE_INIT_DONE         == \h0600
VS_GAP_DEVICE_DISCOVERY         == \h0601
VS_GAP_ADVERT_DATA_UPDATE_DONE  == \h0602
VS_GAP_MAKE_DISCOVERABLE_DONE   == \h0603
VS_GAP_LINK_ESTABLISHED         == \h0605
VS_GAP_LINK_TERMINATED          == \h0606
VS_GAP_LINK_PARAMETER_UPDATE    == \h0607
VS_GAP_DEVICE_INFORMATION       == \h060D
VS_COMMAND_STATUS               == \h067F
EVENT_VS_ATT_EXCHANGE_MTU_REQUEST       == \h0502
EVENT_VS_ATT_READ_BY_TYPE_REQUEST       == \h0508
VS_TI_ATT_READ_BY_TYPE_RESPONSE         == \h0509
EVENT_VS_ATT_READ_REQUEST               == \h050A
EVENT_VS_ATT_READ_BY_GROUP_TYPE_REQUEST == \h0510
EVENT_VS_ATT_WRITE_REQUEST              == \h0512
VS_ATT_WRITE_RESPONSE_EVENT             == \h0513
EVENT_VS_ATT_PREPARE_WRITE_REQUEST      == \h0516
EVENT_VS_ATT_HANDLE_VALUE_NOTIFICATION  == \h051B

Queues == {"COMMANDRESP", "WRITE_RSP", "PING_PKT_RSP",
           "PIPE_0", "PIPE_1", "PIPE_2", "PIPE_3"}
NoQueue == "none"

\* Events that go to Central (and to whoever else reads CommandRespQ).
ToCommandResp ==
    { EVENT_VS_ATT_READ_BY_TYPE_REQUEST, EVENT_VS_ATT_READ_BY_GROUP_TYPE_REQUEST,
      EVENT_VS_ATT_READ_REQUEST, EVENT_VS_ATT_EXCHANGE_MTU_REQUEST,
      VS_GAP_DEVICE_INFORMATION, VS_GAP_LINK_ESTABLISHED, VS_GAP_DEVICE_DISCOVERY,
      VS_TI_ATT_READ_BY_TYPE_RESPONSE }

\* A command status goes by the command it answers: some are only printed.
PrintedStatus == {\hFDFD, \hFD13, \hFDB6, \hFE30, \hFDFC, \hFDFE, \hFE06, \hFE07}

\* Mutants of StatusQueue: FE04's status printed like FE06's; every status
\* taken for the answer to a write.
StatusScanPrinted(op) == IF op \in PrintedStatus \cup {\hFE04} THEN NoQueue
                         ELSE "COMMANDRESP"
StatusToWriter(op) == IF op \in PrintedStatus THEN NoQueue ELSE "WRITE_RSP"

StatusQueue(op) == IF op \in {\hFD9B, \hFD92} THEN "WRITE_RSP"
                   ELSE IF op \in PrintedStatus THEN NoQueue
                   ELSE "COMMANDRESP"

\* Pipe_<n>_Id for the low byte of the connection handle.
PipeQueue(handle) ==
    CASE handle % 256 = 0 -> "PIPE_0"
      [] handle % 256 = 1 -> "PIPE_1"
      [] handle % 256 = 2 -> "PIPE_2"
      [] handle % 256 = 3 -> "PIPE_3"
      [] OTHER            -> NoQueue

\* The payload of a write request: "01" in bytes 13-14, 5 or 9 in byte 11,
\* "PB".."PE" in bytes 13,14,31,32, handle 0x0003 in bytes 12,11, or none.
Write01    == 1
WriteSetup == 2
WritePing  == 3
WriteData  == 4
WriteOther == 5
WriteQueue(e) == CASE e.x \in {Write01, WriteSetup} -> "COMMANDRESP"
                   [] e.x = WritePing               -> "PING_PKT_RSP"
                   [] e.x = WriteData               -> PipeQueue(e.arg)
                   [] OTHER                         -> NoQueue

IsWrite(e) == /\ e.evt = VENDOR
              /\ e.code \in {EVENT_VS_ATT_WRITE_REQUEST, EVENT_VS_ATT_PREPARE_WRITE_REQUEST}
              /\ e.arg \notin {\hFC06, \hFC21}

\* The else-if chain.  Whatever is not vendor specific, and the answers to the
\* HCI extension commands FC06 and FC21, are printed only.
Route(e) ==
    CASE e.evt # VENDOR \/ e.arg \in {\hFC06, \hFC21} -> NoQueue
      [] e.evt = VENDOR /\ e.arg \notin {\hFC06, \hFC21} ->
           CASE e.code \in ToCommandResp         -> "COMMANDRESP"
             [] e.code = VS_COMMAND_STATUS       -> StatusQueue(e.arg)
             [] e.code = VS_GAP_LINK_TERMINATED  ->
                    IF e.x = \h3E THEN "COMMANDRESP" ELSE NoQueue
             [] e.code = EVENT_VS_ATT_HANDLE_VALUE_NOTIFICATION -> PipeQueue(e.arg)
             [] IsWrite(e)                       -> WriteQueue(e)
             [] OTHER                            -> NoQueue
=============================================================================
