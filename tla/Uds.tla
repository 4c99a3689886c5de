-------------------------------- MODULE Uds --------------------------------
(* The diagnostic server (src/src/uds.c, uds.h): main_uds_polling, the       *)
(* parsing of a request, the services, the response and the timer that locks *)
(* security access.                                                          *)
(*                                                                           *)
(* One call of main_uds_polling is three steps: "receive" (lines 231-241,    *)
(* 266-285), "serve" (243-245, 288-318) and "timer" (262).  Between them the *)
(* transport layer puts a received message where receive_network_layer       *)
(* finds it (inbox) and sends what send_network_layer left in Tx_buf         *)
(* (reply).  A response fits a single frame, so that send_network_layer      *)
(* always takes it, in place of one that is still there.                     *)
(*                                                                           *)
(* A service is refused for the first of its checks that fails.  The checks  *)
(* that read NULL && ... are never true and are left out.                    *)
EXTENDS Sequences, Timers

CONSTANTS
    SEC_TIMER,                  \* polls for which security access is locked (250)
    LOAD_BLOCK_NUMBER,          \* blocks of a download or an upload (4)
    SEC_ACCESS_FAILED_CNT_MAX,  \* wrong keys that lock it (3)
    Requests,                   \* what a client may send
    ReadResults,                \* whether a read of the memory succeeds (mem_dev_t)
    StackAreas                  \* what get_addr_and_size may store

ASSUME SecTimerAssumption == SEC_TIMER \in Nat
ASSUME LoadAssumption == LOAD_BLOCK_NUMBER \in 1 .. 255
ASSUME FailedAssumption == SEC_ACCESS_FAILED_CNT_MAX \in 1 .. 254
ASSUME ReadAssumption == ReadResults \subseteq BOOLEAN

(* An area of the memory is its start_addr and its size; RESET_LOAD sets     *)
(* both to zero.                                                             *)
NoArea == "NoArea"
ASSUME AreaAssumption == StackAreas # {} /\ NoArea \notin StackAreas

SESSION_CONTROL == "session_control"
SECURITY_ACCESS == "security_access"
ROUTINE_CONTROL == "routine_control"
REQUEST_DOWNLOAD == "request_download"
REQUEST_UPLOAD == "request_upload"
TRANSFER_DATA == "transfer_data"
REQUEST_TRANSFER_EXIT == "request_transfer_exit"
ECU_RESET == "ecu_reset"
UNKOWN_SERVICE == "unkown"      \* 0xff, whose p_func is NULL

Services == {SESSION_CONTROL, SECURITY_ACCESS, ROUTINE_CONTROL, REQUEST_DOWNLOAD,
             REQUEST_UPLOAD, TRANSFER_DATA, REQUEST_TRANSFER_EXIT, ECU_RESET}
Listed == Services \union {UNKOWN_SERVICE}

Byte == 0 .. 255
Nrcs == {"SFNS", "IMLOIF", "CNC", "RSE", "ROOR", "SAD", "IK", "ENOA", "RTDNE",
         "UDNA", "GPF", "WBSC", "UNRC"}
Responses == [SID : Listed, nrc : Nrcs \union {"PR"}, arg : Byte]

(* Of a request the server reads the first byte, the SID, and up to three    *)
(* bytes after it, args; len counts all of them.                             *)
ASSUME RequestsAssumption ==
    \A r \in Requests : /\ r.SID \in Listed \union {"other"}
                        /\ r.len \in Nat \ {0}
                        /\ r.args \in Seq(Byte)
                        /\ Len(r.args) = IF r.len < 4 THEN r.len - 1 ELSE 3

EXTENDED_SESSION == 3
REQ_SEED == 1
SEND_KEY == 2
HARD_RESET == 1
Seed == 123                     \* gen_seed
Key(seed) == 4735               \* calc_key: 123 | 0x1234

(* area is what was stored as start_addr and size, and offset counts the     *)
(* blocks by which start_addr has advanced from there.                       *)
Loaders == [status : {"LOAD_IDLE", "LOADING", "LOAD_COMPLETED"},
            direction : {"DOWNLOAD", "UPLOAD"},
            area : StackAreas \union {NoArea}, offset : Nat, block_number : Byte]
Accesses == [status : {"WAIT_CLIENT_SEED", "WAIT_CLIENT_KEY"}, seed : {0, Seed},
             failed_cnt : 0 .. SEC_ACCESS_FAILED_CNT_MAX]

VARIABLES
    type,       \* session.type
    args,       \* the service data in session.tp_rcv_buf
    ser,        \* session.ser.A_PDU: SID, which also stands for p_func, and len
    sec_lev,
    sec,        \* session.sec_timer
    access,     \* sec_access_args
    loader,
    running,    \* FALSE after mcu.reset and after a call of p_func NULL
    inbox,
    reply,
    pc

session == <<type, sec_lev, sec, access, loader>>
vars == <<session, args, ser, running, inbox, reply, pc>>

TypeOK ==
    /\ type \in 0 .. EXTENDED_SESSION
    /\ args \in [1 .. 3 -> Byte]
    /\ ser \in [SID : Listed, len : Nat]
    /\ sec_lev \in {"lev_1", "lev_2"}
    /\ sec \in Timer(SEC_TIMER)
    /\ access \in Accesses
    /\ loader \in Loaders
    /\ running \in BOOLEAN
    /\ inbox \in Seq(Requests) /\ Len(inbox) <= 1
    /\ reply \in Seq(Responses) /\ Len(reply) <= 1
    /\ pc \in {"receive", "serve", "timer"}

(* RESET_LOAD leaves the direction as it is.                                 *)
ResetLoad(l) == [l EXCEPT !.status = "LOAD_IDLE", !.area = NoArea, !.offset = 0,
                          !.block_number = 0]

Init ==
    /\ type = 0
    /\ args = [i \in 1 .. 3 |-> 0]
    /\ ser = [SID |-> UNKOWN_SERVICE, len |-> 0]
    /\ sec_lev = "lev_1"
    /\ sec = Stopped
    /\ access = [status |-> "WAIT_CLIENT_SEED", seed |-> 0, failed_cnt |-> 0]
    /\ loader = [status |-> "LOAD_IDLE", direction |-> "DOWNLOAD", area |-> NoArea,
                 offset |-> 0, block_number |-> 0]
    /\ running = TRUE
    /\ inbox = <<>>
    /\ reply = <<>>
    /\ pc = "receive"

-----------------------------------------------------------------------------
Step(from, to) == running /\ pc = from /\ pc' = to

NoRequest ==
    /\ Step("receive", "timer")
    /\ inbox = <<>>
    /\ UNCHANGED <<session, args, ser, running, inbox, reply>>

(* data_parse: a request that is shorter than the last one leaves bytes of   *)
(* it in the buffer, and one for a service that is not listed leaves p_func  *)
(* and the A_PDU of the last one.                                            *)
ReceiveRequest ==
    /\ Step("receive", "serve")
    /\ inbox # <<>>
    /\ LET r == inbox[1] IN
       /\ args' = [i \in 1 .. 3 |-> IF i <= Len(r.args) THEN r.args[i] ELSE args[i]]
       /\ ser' = IF r.SID \in Listed THEN [SID |-> r.SID, len |-> r.len] ELSE ser
    /\ inbox' = <<>>
    /\ UNCHANGED <<session, running, reply>>

-----------------------------------------------------------------------------
Serve(service) == Step("serve", "timer") /\ ser.SID = service /\ UNCHANGED <<args, ser, inbox>>

Respond(nrc, arg) == reply' = <<[SID |-> ser.SID, nrc |-> nrc, arg |-> arg]>>
Refuse(nrc) == Respond(nrc, 0) /\ UNCHANGED running
Accept(arg) == Respond("PR", arg) /\ UNCHANGED running

(* A check is a pair: the condition under which the service is refused, and  *)
(* the code that says so.                                                    *)
Passes(checks) == \A i \in DOMAIN checks : ~checks[i][1]
Fails(checks) ==
    \E i \in DOMAIN checks : /\ checks[i][1]
                             /\ \A j \in 1 .. i - 1 : ~checks[j][1]
                             /\ Refuse(checks[i][2])

(* p_func is NULL: the program ends.                                         *)
NoService == Serve(UNKOWN_SERVICE) /\ running' = FALSE /\ UNCHANGED <<session, reply>>

SessionControl ==
    LET checks == << <<args[1] > EXTENDED_SESSION, "SFNS">>,
                     <<ser.len # 2, "IMLOIF">>,
                     <<loader.status # "LOAD_IDLE", "CNC">> >>
    IN
    /\ Serve(SESSION_CONTROL)
    /\ \/ Fails(checks) /\ UNCHANGED type
       \/ Passes(checks) /\ type' = args[1] /\ Accept(args[1])
    /\ UNCHANGED <<sec_lev, sec, access, loader>>

-----------------------------------------------------------------------------
(* security_access, a disjunct for each state of its static variable.        *)
(* The fault: the lock is not looked at.                                     *)
AccessChecksUnlocked == << <<sec_lev = "lev_2", "CNC">> >>
AccessChecks == << <<Timing(sec), "RTDNE">>, <<sec_lev = "lev_2", "CNC">> >>

RefuseAccess ==
    /\ Serve(SECURITY_ACCESS)
    /\ Fails(AccessChecks)
    /\ UNCHANGED session

SendSeed ==
    LET checks == << <<args[1] = SEND_KEY, "RSE">>,
                     <<args[1] # REQ_SEED, "SFNS">>,
                     <<ser.len # 2, "IMLOIF">>,
                     <<loader.status # "LOAD_IDLE", "CNC">> >>
    IN
    /\ Serve(SECURITY_ACCESS)
    /\ Passes(AccessChecks) /\ access.status = "WAIT_CLIENT_SEED"
    /\ \/ Fails(checks) /\ UNCHANGED access
       \/ /\ Passes(checks)
          /\ access' = [access EXCEPT !.status = "WAIT_CLIENT_KEY", !.seed = Seed]
          /\ Accept(REQ_SEED)
    /\ sec' = Stopped
    /\ UNCHANGED <<type, sec_lev, loader>>

(* The fault: a key is taken from a request of any length.                   *)
KeyChecksAnyLength == << <<args[1] = REQ_SEED, "RSE">>,
                         <<args[1] # SEND_KEY, "SFNS">>,
                         <<loader.status # "LOAD_IDLE", "CNC">> >>
KeyChecks == << <<args[1] = REQ_SEED, "RSE">>,
                <<args[1] # SEND_KEY, "SFNS">>,
                <<ser.len # 4, "IMLOIF">>,
                <<loader.status # "LOAD_IDLE", "CNC">> >>

RefuseKey ==
    /\ Serve(SECURITY_ACCESS)
    /\ Passes(AccessChecks) /\ access.status = "WAIT_CLIENT_KEY"
    /\ Fails(KeyChecks)
    /\ access' = [access EXCEPT !.status = "WAIT_CLIENT_SEED"]
    /\ sec' = Stopped
    /\ UNCHANGED <<type, sec_lev, loader>>

RcvKey == args[2] * 256 + args[3]
ExpectedKey == IF access.seed = 0 THEN 0 ELSE Key(access.seed)

(* Once the count of wrong keys is at its limit, one key may be tried each   *)
(* time.  The fault: the count starts anew.                                  *)
FailedAnew == IF access.failed_cnt >= SEC_ACCESS_FAILED_CNT_MAX
              THEN 1 ELSE access.failed_cnt + 1
Failed == (IF access.failed_cnt >= SEC_ACCESS_FAILED_CNT_MAX
           THEN access.failed_cnt - 1 ELSE access.failed_cnt) + 1

VerifyKey ==
    /\ Serve(SECURITY_ACCESS)
    /\ Passes(AccessChecks) /\ access.status = "WAIT_CLIENT_KEY"
    /\ Passes(KeyChecks)
    /\ \/ /\ RcvKey = ExpectedKey
          /\ sec_lev' = "lev_2"
          /\ sec' = Stopped
          /\ access' = [status |-> "WAIT_CLIENT_SEED", seed |-> 0, failed_cnt |-> 0]
          /\ Accept(SEND_KEY)
       \/ /\ RcvKey # ExpectedKey
          /\ access' = [status |-> "WAIT_CLIENT_SEED", seed |-> 0,
                        failed_cnt |-> Failed]
          /\ IF Failed >= SEC_ACCESS_FAILED_CNT_MAX
             THEN sec' = SEC_TIMER /\ Refuse("ENOA")
             ELSE sec' = Stopped /\ Refuse("IK")
          /\ UNCHANGED sec_lev
    /\ UNCHANGED <<type, loader>>

SecurityAccess == RefuseAccess \/ SendSeed \/ RefuseKey \/ VerifyKey

(* routine_control is not implemented.                                       *)
RoutineControl == Serve(ROUTINE_CONTROL) /\ Refuse("UNRC") /\ UNCHANGED session

-----------------------------------------------------------------------------
(* The fault: a load needs no key.                                           *)
LoadChecksNoKey == << <<ser.len # 11, "IMLOIF">> >>
LoadChecks == << <<sec_lev = "lev_1", "SAD">>, <<ser.len # 11, "IMLOIF">> >>

(* get_addr_and_size stores the addresses of its two local buffers, and not  *)
(* what it has copied into them: which area that is depends on where the     *)
(* stack is, and not on the request.                                         *)
GetAddrAndSize(l, area) == [l EXCEPT !.area = area, !.offset = 0]

(* request_download and request_upload store the area before they look at    *)
(* anything else: also a request that is refused replaces the area of the    *)
(* load under way.  The device accepts any area (mcu_dev.c:21-46).           *)
RequestLoad(service, direction) ==
    /\ Serve(service)
    /\ \E area \in StackAreas :
         LET stored == GetAddrAndSize(loader, area) IN
         \/ Fails(LoadChecks) /\ loader' = stored
         \/ /\ Passes(LoadChecks) /\ loader.status = "LOAD_IDLE"
            /\ loader' = [stored EXCEPT !.status = "LOADING", !.direction = direction,
                                        !.block_number = LOAD_BLOCK_NUMBER]
            /\ Accept(LOAD_BLOCK_NUMBER)
         \/ /\ Passes(LoadChecks) /\ loader.status # "LOAD_IDLE"
            /\ loader' = ResetLoad(stored)
            /\ Refuse("UDNA")
    /\ UNCHANGED <<type, sec_lev, sec, access>>

RequestDownload == RequestLoad(REQUEST_DOWNLOAD, "DOWNLOAD")
RequestUpload == RequestLoad(REQUEST_UPLOAD, "UPLOAD")

(* A block is taken, whether it can be read or not.  The fault: the address  *)
(* stays where it is.                                                        *)
BlockTakenInPlace(l) == [l EXCEPT !.block_number = @ - 1]
BlockTaken(l) == [l EXCEPT !.block_number = @ - 1, !.offset = @ + 1]

(* What the last block does to the loader.  The fault: nothing.              *)
CompletedNever(l) == l
Completed(l) == IF l.block_number = 0 THEN [l EXCEPT !.status = "LOAD_COMPLETED"] ELSE l

(* transfer_data: a download is refused, and a block of an upload is read.   *)
(* block_sequence_counter is static and always 0; block_number is not 0      *)
(* while LOADING (LoadAccounting).                                           *)
TransferData ==
    LET checks == << <<ser.len # 2, "IMLOIF">>,
                     <<args[1] # 0, "WBSC">>,
                     <<loader.direction = "DOWNLOAD", "ROOR">> >>
        next == BlockTaken(loader)
    IN
    /\ Serve(TRANSFER_DATA)
    /\ loader.status = "LOADING"
    /\ \/ Fails(checks) /\ loader' = Completed(loader)
       \/ /\ Passes(checks) /\ loader.block_number > 0
          /\ \E ok \in ReadResults :
               IF ok THEN loader' = Completed(next) /\ Accept(next.block_number)
               ELSE loader' = Completed(ResetLoad(next)) /\ Refuse("GPF")
    /\ UNCHANGED <<type, sec_lev, sec, access>>

RequestTransferExit ==
    /\ Serve(REQUEST_TRANSFER_EXIT)
    /\ loader.status = "LOAD_COMPLETED"
    /\ IF ser.len # 2 THEN Refuse("IMLOIF") /\ UNCHANGED loader
       ELSE loader' = ResetLoad(loader) /\ Accept(4)
    /\ UNCHANGED <<type, sec_lev, sec, access>>

(* The transfer services out of their turn.                                  *)
TransferOutOfSequence ==
    /\ \/ Serve(TRANSFER_DATA) /\ loader.status # "LOADING"
       \/ Serve(REQUEST_TRANSFER_EXIT) /\ loader.status # "LOAD_COMPLETED"
    /\ loader' = ResetLoad(loader)
    /\ Refuse("RSE")
    /\ UNCHANGED <<type, sec_lev, sec, access>>

(* The response goes out, and then mcu.reset ends the program.               *)
EcuReset ==
    /\ Serve(ECU_RESET)
    /\ IF ser.len # 2 THEN Refuse("IMLOIF")
       ELSE Respond("PR", HARD_RESET) /\ running' = FALSE
    /\ UNCHANGED session

StartSer ==
    \/ NoService
    \/ SessionControl
    \/ SecurityAccess
    \/ RoutineControl
    \/ RequestDownload \/ RequestUpload
    \/ TransferData \/ RequestTransferExit \/ TransferOutOfSequence
    \/ EcuReset

TimerCtrl ==
    /\ Step("timer", "receive")
    /\ sec' = Tick(sec)
    /\ UNCHANGED <<type, sec_lev, access, loader, args, ser, running, inbox, reply>>

MainUdsPolling == NoRequest \/ ReceiveRequest \/ StartSer \/ TimerCtrl

-----------------------------------------------------------------------------
(* The transport layer: a message comes in, also over one that was not read, *)
(* and the response goes out.                                                *)
Request(r) == inbox' = <<r>> /\ UNCHANGED <<session, args, ser, running, reply, pc>>

Transmit ==
    /\ reply # <<>>
    /\ reply' = <<>>
    /\ UNCHANGED <<session, args, ser, running, inbox, pc>>

Next == MainUdsPolling \/ (\E r \in Requests : Request(r)) \/ Transmit

Spec == Init /\ [][Next]_vars

(* The main loop calls main_uds_polling forever.                             *)
FairSpec == Spec /\ WF_vars(MainUdsPolling)
-----------------------------------------------------------------------------
(* A load is under way, or done and not yet closed, only for a client that   *)
(* has unlocked the server (uds.c:648, 710).                                 *)
LoadNeedsUnlock == loader.status # "LOAD_IDLE" => sec_lev = "lev_2"

(* The blocks that remain follow the state of the load: some while it is     *)
(* under way, none otherwise.  Whatever was asked in between, the next read  *)
(* is within the area that the last load request stored, accepted or         *)
(* refused, and never at address zero (uds.c:69-74, 645-692, 707-754,        *)
(* 781-830).                                                                 *)
LoadAccounting ==
    /\ loader.status = "LOADING" <=> loader.block_number > 0
    /\ loader.status = "LOADING" => loader.area # NoArea
    /\ loader.offset + loader.block_number <= LOAD_BLOCK_NUMBER

(* The server locks itself only with as many wrong keys as are allowed, and  *)
(* while it is locked no seed is out that a key could answer                 *)
(* (uds.c:462, 570-601).                                                     *)
LockMeansFailed ==
    Timing(sec) => /\ access.failed_cnt = SEC_ACCESS_FAILED_CNT_MAX
                   /\ access.status = "WAIT_CLIENT_SEED"
                   /\ sec_lev = "lev_1"
=============================================================================
