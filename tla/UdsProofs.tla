----------------------------- MODULE UdsProofs -----------------------------
(* Proofs about the diagnostic server, for every set of requests and every   *)
(* value of the constants.                                                   *)
EXTENDS UdsHistory, TLAPS

(* The safety invariants are inductive together: LoadNeedsUnlock holds       *)
(* because no service takes the server back to lev_1, and LockMeansFailed    *)
(* because only VerifyKey counts and only it locks.                          *)
IInv == TypeOK /\ LoadNeedsUnlock /\ LoadAccounting /\ LockMeansFailed

USE DEF SESSION_CONTROL, SECURITY_ACCESS, ROUTINE_CONTROL, REQUEST_DOWNLOAD,
        REQUEST_UPLOAD, TRANSFER_DATA, REQUEST_TRANSFER_EXIT, ECU_RESET,
        UNKOWN_SERVICE, EXTENDED_SESSION, REQ_SEED, SEND_KEY, HARD_RESET, Seed,
        Stopped, Timing, Timer

-----------------------------------------------------------------------------
(* What the server answers with is a response.                               *)
LEMMA ResponseType ==
    ASSUME TypeOK, NEW nrc \in Nrcs \union {"PR"}, NEW arg \in Byte, Respond(nrc, arg)
    PROVE  reply' \in Seq(Responses) /\ Len(reply') <= 1
  BY DEF TypeOK, Respond, Responses

(* A refusal is one, whichever check failed.                                 *)
LEMMA FailsType ==
    ASSUME TypeOK, NEW checks, Fails(checks),
           \A i \in DOMAIN checks : checks[i][2] \in Nrcs
    PROVE  /\ reply' \in Seq(Responses) /\ Len(reply') <= 1
           /\ running' = running
<1>1. PICK i \in DOMAIN checks : Refuse(checks[i][2])
  BY DEF Fails
<1>2. checks[i][2] \in Nrcs /\ 0 \in Byte
  BY DEF Byte
<1> QED BY <1>1, <1>2, ResponseType DEF Refuse

(* A list of checks passes when none of its conditions holds.                *)
LEMMA PassesTwo ==
    ASSUME NEW a, NEW b, NEW p, NEW q, Passes(<< <<a, p>>, <<b, q>> >>)
    PROVE  ~a /\ ~b
  BY DEF Passes

LEMMA PassesThree ==
    ASSUME NEW a, NEW b, NEW c, NEW p, NEW q, NEW r,
           Passes(<< <<a, p>>, <<b, q>>, <<c, r>> >>)
    PROVE  ~a /\ ~b /\ ~c
  BY DEF Passes

LEMMA PassesFour ==
    ASSUME NEW a, NEW b, NEW c, NEW d, NEW p, NEW q, NEW r, NEW s,
           Passes(<< <<a, p>>, <<b, q>>, <<c, r>>, <<d, s>> >>)
    PROVE  ~a /\ ~b /\ ~c /\ ~d
  BY DEF Passes

(* One that fails has a condition that holds.                                *)
LEMMA FailsTwo ==
    ASSUME NEW a, NEW b, NEW p, NEW q, Fails(<< <<a, p>>, <<b, q>> >>)
    PROVE  a \/ b
  BY DEF Fails

(* The part of the state that no service touches.                            *)
LEMMA ServeType ==
    ASSUME TypeOK, NEW s, Serve(s)
    PROVE  /\ args' \in [1 .. 3 -> Byte]
           /\ ser' \in [SID : Listed, len : Nat]
           /\ inbox' \in Seq(Requests) /\ Len(inbox') <= 1
           /\ pc' \in {"receive", "serve", "timer"}
           /\ running \in BOOLEAN
  BY DEF TypeOK, Serve, Step

LEMMA ArgumentType == TypeOK => args[1] \in 0 .. 255
<1> SUFFICES ASSUME TypeOK PROVE args[1] \in 0 .. 255 OBVIOUS
<1>1. args \in [1 .. 3 -> 0 .. 255] BY DEF TypeOK, Byte
<1>2. 1 \in 1 .. 3 OBVIOUS
<1> QED BY <1>1, <1>2

(* The initial state.                                                        *)
LEMMA InitIInv == Init => IInv
<1> SUFFICES ASSUME Init PROVE IInv OBVIOUS
<1>1. TypeOK
  BY SecTimerAssumption, FailedAssumption
  DEF Init, TypeOK, Byte, Listed, Services, Loaders, Accesses
<1>2. LoadNeedsUnlock /\ LoadAccounting /\ LockMeansFailed
  BY LoadAssumption DEF Init, LoadNeedsUnlock, LoadAccounting, LockMeansFailed
<1> QED BY <1>1, <1>2 DEF IInv

-----------------------------------------------------------------------------
(* A service keeps the invariant.                                            *)
LEMMA NoServiceKeeps == ASSUME IInv, NoService PROVE IInv'
  BY ServeType DEF IInv, NoService, TypeOK, session, LoadNeedsUnlock, LoadAccounting,
     LockMeansFailed

LEMMA SessionControlKeeps == ASSUME IInv, SessionControl PROVE IInv'
<1> DEFINE checks == << <<args[1] > EXTENDED_SESSION, "SFNS">>,
                        <<ser.len # 2, "IMLOIF">>,
                        <<loader.status # "LOAD_IDLE", "CNC">> >>
<1>1. CASE Fails(checks) /\ UNCHANGED type
  <2>1. \A i \in DOMAIN checks : checks[i][2] \in Nrcs
    BY DEF Nrcs
  <2> HIDE DEF checks
  <2> QED BY <1>1, <2>1, FailsType, ServeType
          DEF IInv, SessionControl, TypeOK, LoadNeedsUnlock, LoadAccounting, LockMeansFailed
<1>2. CASE Passes(checks) /\ type' = args[1] /\ Accept(args[1])
  <2>0. ~(args[1] > EXTENDED_SESSION)
    BY <1>2, PassesThree, Zenon
  <2>1. args[1] \in 0 .. 3
    BY <2>0, ArgumentType DEF IInv
  <2>2. reply' \in Seq(Responses) /\ Len(reply') <= 1
    BY <1>2, <2>1, ResponseType DEF Accept, Byte, IInv
  <2> QED BY <1>2, <2>1, <2>2, ServeType
          DEF IInv, SessionControl, Accept, TypeOK, LoadNeedsUnlock, LoadAccounting,
              LockMeansFailed
<1> QED BY <1>1, <1>2 DEF SessionControl

(* What a refusal leaves is enough for the invariant.                        *)
LEMMA RefusalKeeps ==
    ASSUME IInv, NEW s, Serve(s), NEW checks, Fails(checks),
           \A i \in DOMAIN checks : checks[i][2] \in Nrcs,
           UNCHANGED <<type, sec_lev, sec, access, loader>>
    PROVE  IInv'
  BY FailsType, ServeType
  DEF IInv, TypeOK, LoadNeedsUnlock, LoadAccounting, LockMeansFailed

LEMMA RefuseAccessKeeps == ASSUME IInv, RefuseAccess PROVE IInv'
<1>1. \A i \in DOMAIN AccessChecks : AccessChecks[i][2] \in Nrcs
  BY DEF Nrcs, AccessChecks
<1> QED BY <1>1, RefusalKeeps DEF RefuseAccess, session

(* Security access goes on only while it is not locked and not yet granted.  *)
LEMMA AccessOpen ==
    ASSUME Passes(AccessChecks)
    PROVE  ~Timing(sec) /\ ~(sec_lev = "lev_2")
  BY PassesTwo, Zenon DEF AccessChecks

(* The steps of security access that leave sec_lev and the loader alone and  *)
(* do not lock.                                                              *)
LEMMA AccessStepKeeps ==
    ASSUME IInv, NEW s, Serve(s), Passes(AccessChecks), access' \in Accesses,
           reply' \in Seq(Responses), Len(reply') <= 1, running' = running,
           sec' = Stopped, UNCHANGED <<type, sec_lev, loader>>
    PROVE  IInv'
<1>1. TypeOK'
  BY ServeType, SecTimerAssumption DEF IInv, TypeOK
<1> QED BY <1>1 DEF IInv, LoadNeedsUnlock, LoadAccounting, LockMeansFailed

LEMMA SendSeedKeeps == ASSUME IInv, SendSeed PROVE IInv'
<1> DEFINE checks == << <<args[1] = SEND_KEY, "RSE">>,
                        <<args[1] # REQ_SEED, "SFNS">>,
                        <<ser.len # 2, "IMLOIF">>,
                        <<loader.status # "LOAD_IDLE", "CNC">> >>
<1>0. access \in Accesses BY DEF IInv, TypeOK
<1>1. CASE Fails(checks) /\ UNCHANGED access
  <2>1. \A i \in DOMAIN checks : checks[i][2] \in Nrcs
    BY DEF Nrcs
  <2> HIDE DEF checks
  <2> QED BY <1>0, <1>1, <2>1, FailsType, AccessStepKeeps DEF SendSeed, IInv
<1>2. CASE /\ access' = [access EXCEPT !.status = "WAIT_CLIENT_KEY", !.seed = Seed]
           /\ Accept(REQ_SEED)
  <2>1. access' \in Accesses
    BY <1>0, <1>2 DEF Accesses
  <2>2. reply' \in Seq(Responses) /\ Len(reply') <= 1
    BY <1>2, ResponseType DEF Accept, Byte, IInv
  <2> QED BY <1>2, <2>1, <2>2, AccessStepKeeps DEF SendSeed, Accept
<1> QED BY <1>1, <1>2 DEF SendSeed

LEMMA RefuseKeyKeeps == ASSUME IInv, RefuseKey PROVE IInv'
<1>1. \A i \in DOMAIN KeyChecks : KeyChecks[i][2] \in Nrcs
  BY DEF Nrcs, KeyChecks
<1>2. access' \in Accesses
  BY DEF IInv, TypeOK, RefuseKey, Accesses
<1> QED BY <1>1, <1>2, FailsType, AccessStepKeeps DEF RefuseKey, IInv

(* The count of wrong keys never passes its limit.                           *)
LEMMA FailedType ==
    ASSUME TypeOK
    PROVE  /\ Failed \in 0 .. SEC_ACCESS_FAILED_CNT_MAX
           /\ Failed >= SEC_ACCESS_FAILED_CNT_MAX => Failed = SEC_ACCESS_FAILED_CNT_MAX
<1>1. access.failed_cnt \in 0 .. SEC_ACCESS_FAILED_CNT_MAX
  BY DEF TypeOK, Accesses
<1> QED BY <1>1, FailedAssumption DEF Failed

LEMMA VerifyKeyKeeps == ASSUME IInv, VerifyKey PROVE IInv'
<1>1. CASE RcvKey = ExpectedKey
  <2>1. /\ sec_lev' = "lev_2" /\ sec' = Stopped /\ UNCHANGED <<type, loader>>
        /\ access' = [status |-> "WAIT_CLIENT_SEED", seed |-> 0, failed_cnt |-> 0]
        /\ Accept(SEND_KEY) /\ Serve(SECURITY_ACCESS)
    BY <1>1 DEF VerifyKey
  <2>2. access' \in Accesses
    BY <2>1, FailedAssumption DEF Accesses
  <2>3. reply' \in Seq(Responses) /\ Len(reply') <= 1 /\ running' = running
    BY <2>1, ResponseType DEF Accept, Byte, IInv
  <2>4. TypeOK'
    BY <2>1, <2>2, <2>3, ServeType, SecTimerAssumption DEF IInv, TypeOK
  <2> QED BY <2>1, <2>4 DEF IInv, LoadNeedsUnlock, LoadAccounting, LockMeansFailed
<1>2. CASE RcvKey # ExpectedKey
  <2>0. /\ UNCHANGED <<sec_lev, type, loader>> /\ Serve(SECURITY_ACCESS)
        /\ access' = [status |-> "WAIT_CLIENT_SEED", seed |-> 0,
                      failed_cnt |-> Failed]
        /\ Passes(AccessChecks)
    BY <1>2 DEF VerifyKey
  <2>1. access' \in Accesses
    BY <2>0, FailedType DEF Accesses, IInv
  <2>2. ASSUME NEW nrc \in Nrcs, Refuse(nrc)
        PROVE  reply' \in Seq(Responses) /\ Len(reply') <= 1 /\ running' = running
    BY <2>2, ResponseType DEF Refuse, Byte, IInv
  <2>3. CASE Failed >= SEC_ACCESS_FAILED_CNT_MAX
    <3>1. sec' = SEC_TIMER /\ Refuse("ENOA")
      BY <1>2, <2>3 DEF VerifyKey
    <3>2. "ENOA" \in Nrcs BY DEF Nrcs
    <3>3. TypeOK'
      BY <2>0, <2>1, <2>2, <3>1, <3>2, ServeType, SecTimerAssumption DEF IInv, TypeOK
    <3>4. sec_lev = "lev_1"
      BY <2>0, AccessOpen DEF IInv, TypeOK
    <3>5. access'.failed_cnt = SEC_ACCESS_FAILED_CNT_MAX
          /\ access'.status = "WAIT_CLIENT_SEED"
      BY <2>0, <2>3, FailedType DEF IInv
    <3> QED BY <2>0, <3>3, <3>4, <3>5
            DEF IInv, LoadNeedsUnlock, LoadAccounting, LockMeansFailed
  <2>4. CASE ~(Failed >= SEC_ACCESS_FAILED_CNT_MAX)
    <3>1. sec' = Stopped /\ Refuse("IK")
      BY <1>2, <2>4 DEF VerifyKey
    <3>2. "IK" \in Nrcs BY DEF Nrcs
    <3> QED BY <2>0, <2>1, <2>2, <3>1, <3>2, AccessStepKeeps
  <2> QED BY <2>3, <2>4
<1> QED BY <1>1, <1>2

-----------------------------------------------------------------------------
(* The services that change no more than the loader: it is enough that the   *)
(* load stays in step and that an idle one is not taken up without a key.    *)
LEMMA LoaderStepKeeps ==
    ASSUME IInv, NEW s, Serve(s), UNCHANGED <<type, sec_lev, sec, access>>,
           reply' \in Seq(Responses), Len(reply') <= 1, running' \in BOOLEAN,
           loader' \in Loaders, LoadAccounting', LoadNeedsUnlock'
    PROVE  IInv'
<1>1. TypeOK'
  BY ServeType DEF IInv, TypeOK
<1> QED BY <1>1 DEF IInv, LockMeansFailed

(* What the loader is made of, and what RESET_LOAD makes of it.              *)
LEMMA LoaderType ==
    ASSUME TypeOK
    PROVE  /\ loader \in Loaders
           /\ loader.offset \in Nat /\ loader.block_number \in 0 .. 255
           /\ loader.status \in {"LOAD_IDLE", "LOADING", "LOAD_COMPLETED"}
  BY DEF TypeOK, Loaders, Byte

LEMMA ResetType ==
    ASSUME NEW l \in Loaders
    PROVE  /\ ResetLoad(l) \in Loaders
           /\ ResetLoad(l).status = "LOAD_IDLE"
           /\ ResetLoad(l).offset = 0 /\ ResetLoad(l).block_number = 0
<1>1. 0 \in Byte /\ 0 \in Nat
  BY DEF Byte
<1> QED BY <1>1 DEF Loaders, ResetLoad

LEMMA ResetKeeps ==
    ASSUME IInv, loader' = ResetLoad(loader)
    PROVE  loader' \in Loaders /\ LoadAccounting' /\ LoadNeedsUnlock'
<1>1. loader \in Loaders BY LoaderType DEF IInv
<1> QED BY <1>1, ResetType, LoadAssumption DEF LoadAccounting, LoadNeedsUnlock

LEMMA RoutineControlKeeps == ASSUME IInv, RoutineControl PROVE IInv'
<1>1. reply' \in Seq(Responses) /\ Len(reply') <= 1
  BY ResponseType DEF RoutineControl, Refuse, Byte, Nrcs, IInv
<1> QED BY <1>1, LoaderType, LoaderStepKeeps
        DEF RoutineControl, Refuse, session, IInv, LoadAccounting, LoadNeedsUnlock, TypeOK

(* What a load request makes of the loader: the area and the address are     *)
(* new, also if the request is refused.                                      *)
LEMMA StoredType ==
    ASSUME NEW l \in Loaders, NEW area \in StackAreas
    PROVE  /\ GetAddrAndSize(l, area) \in Loaders
           /\ GetAddrAndSize(l, area).status = l.status
           /\ GetAddrAndSize(l, area).block_number = l.block_number
           /\ GetAddrAndSize(l, area).area = area
           /\ GetAddrAndSize(l, area).offset = 0
  BY DEF Loaders, GetAddrAndSize

(* And of the loader if it is accepted.                                      *)
LEMMA AcceptedType ==
    ASSUME NEW l \in Loaders, NEW direction \in {"DOWNLOAD", "UPLOAD"}
    PROVE  LET new == [l EXCEPT !.status = "LOADING", !.direction = direction,
                               !.block_number = LOAD_BLOCK_NUMBER] IN
           /\ new \in Loaders /\ new.status = "LOADING"
           /\ new.block_number = LOAD_BLOCK_NUMBER
           /\ new.area = l.area /\ new.offset = l.offset
<1>1. LOAD_BLOCK_NUMBER \in Byte
  BY LoadAssumption DEF Byte
<1> QED BY <1>1 DEF Loaders

LEMMA RequestLoadKeeps ==
    ASSUME IInv, NEW s, NEW direction \in {"DOWNLOAD", "UPLOAD"},
           RequestLoad(s, direction)
    PROVE  IInv'
<1>0. /\ Serve(s) /\ UNCHANGED <<type, sec_lev, sec, access>>
      /\ loader \in Loaders /\ loader.offset \in Nat
      /\ loader.block_number \in 0 .. 255
      /\ sec_lev \in {"lev_1", "lev_2"} /\ running \in BOOLEAN
  BY LoaderType DEF RequestLoad, IInv, TypeOK
<1>1. PICK area \in StackAreas :
        LET stored == GetAddrAndSize(loader, area) IN
        \/ Fails(LoadChecks) /\ loader' = stored
        \/ /\ Passes(LoadChecks) /\ loader.status = "LOAD_IDLE"
           /\ loader' = [stored EXCEPT !.status = "LOADING", !.direction = direction,
                                       !.block_number = LOAD_BLOCK_NUMBER]
           /\ Accept(LOAD_BLOCK_NUMBER)
        \/ /\ Passes(LoadChecks) /\ loader.status # "LOAD_IDLE"
           /\ loader' = ResetLoad(stored)
           /\ Refuse("UDNA")
  BY DEF RequestLoad
<1> DEFINE stored == GetAddrAndSize(loader, area)
<1>2. /\ stored \in Loaders /\ stored.status = loader.status
      /\ stored.block_number = loader.block_number
      /\ stored.area = area /\ stored.offset = 0 /\ area # NoArea
  BY <1>0, StoredType, AreaAssumption
<1>3. CASE Fails(LoadChecks) /\ loader' = stored
  <2>1. \A i \in DOMAIN LoadChecks : LoadChecks[i][2] \in Nrcs
    BY DEF Nrcs, LoadChecks
  <2> HIDE DEF stored
  <2>3. loader' \in Loaders /\ LoadAccounting' /\ LoadNeedsUnlock'
    BY <1>0, <1>2, <1>3, LoadAssumption DEF IInv, LoadAccounting, LoadNeedsUnlock
  <2>4. reply' \in Seq(Responses) /\ Len(reply') <= 1 /\ running' = running
    BY <1>3, <2>1, FailsType DEF IInv
  <2> QED BY <1>0, <2>3, <2>4, LoaderStepKeeps
<1>4. CASE /\ Passes(LoadChecks)
           /\ loader' = [stored EXCEPT !.status = "LOADING", !.direction = direction,
                                       !.block_number = LOAD_BLOCK_NUMBER]
           /\ Accept(LOAD_BLOCK_NUMBER)
  <2> HIDE DEF stored
  <2>1. ~(sec_lev = "lev_1")
    BY <1>4, PassesTwo, Zenon DEF LoadChecks
  <2>2. LOAD_BLOCK_NUMBER \in Byte
    BY LoadAssumption DEF Byte
  <2>3. /\ loader' \in Loaders /\ loader'.status = "LOADING"
        /\ loader'.block_number = LOAD_BLOCK_NUMBER
        /\ loader'.area = area /\ loader'.offset = 0
    BY <1>2, <1>4, AcceptedType
  <2>4. LoadAccounting' /\ LoadNeedsUnlock'
    BY <1>0, <1>2, <2>1, <2>3, LoadAssumption DEF LoadAccounting, LoadNeedsUnlock
  <2>5. reply' \in Seq(Responses) /\ Len(reply') <= 1 /\ running' = running
    BY <1>4, <2>2, ResponseType DEF Accept, IInv
  <2> QED BY <1>0, <2>3, <2>4, <2>5, LoaderStepKeeps
<1>5. CASE loader' = ResetLoad(stored) /\ Refuse("UDNA")
  <2> HIDE DEF stored
  <2>1. reply' \in Seq(Responses) /\ Len(reply') <= 1 /\ running' = running
    BY <1>5, ResponseType DEF Refuse, Byte, Nrcs, IInv
  <2>2. loader' \in Loaders /\ LoadAccounting' /\ LoadNeedsUnlock'
    BY <1>2, <1>5, ResetType, LoadAssumption DEF LoadAccounting, LoadNeedsUnlock
  <2> QED BY <1>0, <2>1, <2>2, LoaderStepKeeps
<1> QED BY <1>1, <1>3, <1>4, <1>5

(* The last block completes the load.                                        *)
LEMMA CompletedType ==
    ASSUME NEW l \in Loaders
    PROVE  /\ Completed(l) \in Loaders
           /\ Completed(l).area = l.area /\ Completed(l).offset = l.offset
           /\ Completed(l).block_number = l.block_number
           /\ Completed(l).status = IF l.block_number = 0 THEN "LOAD_COMPLETED"
                                    ELSE l.status
  BY DEF Loaders, Completed

(* A block is taken from the load.                                           *)
LEMMA TakenType ==
    ASSUME NEW l \in Loaders, l.block_number > 0
    PROVE  /\ BlockTaken(l) \in Loaders
           /\ BlockTaken(l).status = l.status /\ BlockTaken(l).area = l.area
           /\ BlockTaken(l).block_number = l.block_number - 1
           /\ BlockTaken(l).offset = l.offset + 1
<1>1. l.block_number \in 0 .. 255 /\ l.offset \in Nat
  BY DEF Loaders, Byte
<1>2. l.block_number - 1 \in 0 .. 255 /\ l.offset + 1 \in Nat
  BY <1>1
<1> QED BY <1>2 DEF Loaders, Byte, BlockTaken

LEMMA TransferDataKeeps == ASSUME IInv, TransferData PROVE IInv'
<1> DEFINE checks == << <<ser.len # 2, "IMLOIF">>,
                        <<args[1] # 0, "WBSC">>,
                        <<loader.direction = "DOWNLOAD", "ROOR">> >>
           next == BlockTaken(loader)
<1>0. /\ Serve(TRANSFER_DATA) /\ UNCHANGED <<type, sec_lev, sec, access>>
      /\ loader.status = "LOADING"
      /\ loader \in Loaders /\ loader.offset \in Nat
      /\ loader.block_number \in 0 .. 255
      /\ running \in BOOLEAN
  BY LoaderType DEF TransferData, IInv, TypeOK
<1>1. CASE Fails(checks) /\ loader' = Completed(loader)
  <2>1. \A i \in DOMAIN checks : checks[i][2] \in Nrcs
    BY DEF Nrcs
  <2>2. loader' \in Loaders /\ LoadAccounting' /\ LoadNeedsUnlock'
    BY <1>0, <1>1, CompletedType DEF IInv, LoadAccounting, LoadNeedsUnlock
  <2>3. reply' \in Seq(Responses) /\ Len(reply') <= 1 /\ running' = running
    <3> HIDE DEF checks
    <3> QED BY <1>1, <2>1, FailsType DEF IInv
  <2> QED BY <1>0, <2>2, <2>3, LoaderStepKeeps
<1>2. CASE /\ loader.block_number > 0
           /\ \E ok \in ReadResults :
                IF ok THEN loader' = Completed(next) /\ Accept(next.block_number)
                ELSE loader' = Completed(ResetLoad(next)) /\ Refuse("GPF")
  <2>0. loader.block_number - 1 \in 0 .. 255 /\ loader.offset + 1 \in Nat
    BY <1>0, <1>2
  <2>1. /\ next \in Loaders /\ next.status = "LOADING" /\ next.area = loader.area
        /\ next.block_number = loader.block_number - 1
        /\ next.offset = loader.offset + 1
    BY <1>0, <1>2, TakenType
  <2> HIDE DEF next
  <2>2. CASE loader' = Completed(next) /\ Accept(next.block_number)
    <3>1. /\ loader' \in Loaders
          /\ loader'.area = loader.area /\ loader'.offset = loader.offset + 1
          /\ loader'.block_number = loader.block_number - 1
          /\ loader'.status = IF loader'.block_number = 0 THEN "LOAD_COMPLETED"
                              ELSE "LOADING"
      BY <2>1, <2>2, CompletedType
    <3>2. LoadAccounting' /\ LoadNeedsUnlock'
      BY <1>0, <1>2, <3>1, LoadAssumption DEF IInv, LoadAccounting, LoadNeedsUnlock
    <3>3. reply' \in Seq(Responses) /\ Len(reply') <= 1 /\ running' = running
      BY <2>0, <2>1, <2>2, ResponseType DEF Accept, Byte, IInv
    <3> QED BY <1>0, <3>1, <3>2, <3>3, LoaderStepKeeps
  <2>3. CASE loader' = Completed(ResetLoad(next)) /\ Refuse("GPF")
    <3>1. /\ loader' \in Loaders
          /\ loader'.offset = 0 /\ loader'.block_number = 0
          /\ loader'.status = "LOAD_COMPLETED"
      BY <2>1, <2>3, CompletedType, ResetType
    <3>2. LoadAccounting' /\ LoadNeedsUnlock'
      BY <1>0, <3>1, LoadAssumption DEF IInv, LoadAccounting, LoadNeedsUnlock
    <3>3. reply' \in Seq(Responses) /\ Len(reply') <= 1 /\ running' = running
      BY <2>3, ResponseType DEF Refuse, Byte, Nrcs, IInv
    <3> QED BY <1>0, <3>1, <3>2, <3>3, LoaderStepKeeps
  <2> QED BY <1>2, <2>2, <2>3
<1> QED BY <1>1, <1>2 DEF TransferData

LEMMA RequestTransferExitKeeps == ASSUME IInv, RequestTransferExit PROVE IInv'
<1>0. /\ Serve(REQUEST_TRANSFER_EXIT) /\ UNCHANGED <<type, sec_lev, sec, access>>
      /\ loader \in Loaders /\ running \in BOOLEAN
  BY LoaderType DEF RequestTransferExit, IInv, TypeOK
<1>1. CASE Refuse("IMLOIF") /\ UNCHANGED loader
  <2>1. reply' \in Seq(Responses) /\ Len(reply') <= 1 /\ running' = running
    BY <1>1, ResponseType DEF Refuse, Byte, Nrcs, IInv
  <2>2. LoadAccounting' /\ LoadNeedsUnlock'
    BY <1>0, <1>1 DEF IInv, LoadAccounting, LoadNeedsUnlock
  <2> QED BY <1>0, <1>1, <2>1, <2>2, LoaderStepKeeps
<1>2. CASE loader' = ResetLoad(loader) /\ Accept(4)
  <2>1. reply' \in Seq(Responses) /\ Len(reply') <= 1 /\ running' = running
    BY <1>2, ResponseType DEF Accept, Byte, IInv
  <2> QED BY <1>0, <1>2, <2>1, ResetKeeps, LoaderStepKeeps
<1> QED BY <1>1, <1>2 DEF RequestTransferExit

LEMMA TransferOutOfSequenceKeeps == ASSUME IInv, TransferOutOfSequence PROVE IInv'
<1>1. PICK s : Serve(s)
  BY DEF TransferOutOfSequence
<1>2. reply' \in Seq(Responses) /\ Len(reply') <= 1
      /\ running' = running /\ running \in BOOLEAN
  BY ResponseType DEF TransferOutOfSequence, Refuse, Byte, Nrcs, IInv, TypeOK
<1> QED BY <1>1, <1>2, ResetKeeps, LoaderStepKeeps DEF TransferOutOfSequence

LEMMA EcuResetKeeps == ASSUME IInv, EcuReset PROVE IInv'
<1>1. Serve(ECU_RESET) /\ UNCHANGED <<type, sec_lev, sec, access, loader>>
  BY DEF EcuReset, session
<1>2. (Refuse("IMLOIF") \/ Respond("PR", HARD_RESET)) /\ running' \in BOOLEAN
  BY DEF EcuReset, Refuse, IInv, TypeOK
<1>4. reply' \in Seq(Responses) /\ Len(reply') <= 1
  <2>1. "IMLOIF" \in Nrcs /\ 0 \in Byte /\ HARD_RESET \in Byte
    BY DEF Nrcs, Byte
  <2> QED BY <1>2, <2>1, ResponseType DEF Refuse, IInv
<1>3. LoadAccounting' /\ LoadNeedsUnlock' /\ loader' \in Loaders
  BY <1>1, LoaderType DEF IInv, LoadAccounting, LoadNeedsUnlock
<1> QED BY <1>1, <1>2, <1>3, <1>4, LoaderStepKeeps

-----------------------------------------------------------------------------
(* The steps of the main loop that serve nothing, and those of the transport *)
(* layer.                                                                    *)
LEMMA ReceiveKeeps == ASSUME IInv, NoRequest \/ ReceiveRequest PROVE IInv'
<1>0. UNCHANGED <<session, running, reply>> /\ pc' \in {"serve", "timer"}
  BY DEF NoRequest, ReceiveRequest, Step
<1>1. args' \in [1 .. 3 -> Byte] /\ ser' \in [SID : Listed, len : Nat]
      /\ inbox' \in Seq(Requests) /\ Len(inbox') <= 1
  <2>1. CASE NoRequest
    BY <2>1 DEF NoRequest, IInv, TypeOK
  <2>2. CASE ReceiveRequest
    <3> DEFINE r == inbox[1]
    <3>1. inbox \in Seq(Requests) /\ inbox # <<>>
      BY <2>2 DEF ReceiveRequest, IInv, TypeOK
    <3>2. r \in Requests
      BY <3>1
    <3>3. r.args \in Seq(Byte) /\ r.len \in Nat
      BY <3>2, RequestsAssumption
    <3>4. /\ args' = [i \in 1 .. 3 |-> IF i <= Len(r.args) THEN r.args[i] ELSE args[i]]
          /\ ser' = IF r.SID \in Listed THEN [SID |-> r.SID, len |-> r.len] ELSE ser
          /\ inbox' = <<>>
      BY <2>2 DEF ReceiveRequest
    <3>5. args \in [1 .. 3 -> Byte] /\ ser \in [SID : Listed, len : Nat]
      BY DEF IInv, TypeOK
    <3> HIDE DEF r
    <3>6. ASSUME NEW i \in 1 .. 3
          PROVE  (IF i <= Len(r.args) THEN r.args[i] ELSE args[i]) \in Byte
      <4>1. CASE i <= Len(r.args)
        <5>1. i \in 1 .. Len(r.args)
          BY <3>3, <4>1
        <5> QED BY <3>3, <4>1, <5>1
      <4>2. CASE ~(i <= Len(r.args))
        BY <3>5, <4>2
      <4> QED BY <4>1, <4>2
    <3> QED BY <3>3, <3>4, <3>5, <3>6
  <2> QED BY <2>1, <2>2
<1> QED BY <1>0, <1>1 DEF IInv, TypeOK, session, LoadNeedsUnlock, LoadAccounting,
                          LockMeansFailed

LEMMA TimerCtrlKeeps == ASSUME IInv, TimerCtrl PROVE IInv'
<1>1. sec' \in -1 .. SEC_TIMER /\ (sec' # -1 => sec # -1)
  BY SecTimerAssumption DEF IInv, TypeOK, TimerCtrl, Tick
<1>2. TypeOK'
  BY <1>1 DEF IInv, TypeOK, TimerCtrl, Step
<1> QED BY <1>1, <1>2 DEF IInv, TimerCtrl, LoadNeedsUnlock, LoadAccounting, LockMeansFailed

LEMMA TransportKeeps ==
    ASSUME IInv, (\E r \in Requests : Request(r)) \/ Transmit
    PROVE  IInv'
<1>1. TypeOK'
  <2>1. CASE Transmit
    BY <2>1 DEF Transmit, IInv, TypeOK, session
  <2>2. CASE \E r \in Requests : Request(r)
    BY <2>2 DEF Request, IInv, TypeOK, session
  <2> QED BY <2>1, <2>2
<1> QED BY <1>1 DEF Request, Transmit, session, IInv, LoadNeedsUnlock, LoadAccounting,
                    LockMeansFailed

(* The invariant is inductive.                                               *)
LEMMA IInvStep == IInv /\ [Next]_vars => IInv'
<1> SUFFICES ASSUME IInv, [Next]_vars PROVE IInv' OBVIOUS
<1>1. CASE NoRequest \/ ReceiveRequest
  BY <1>1, ReceiveKeeps
<1>2. CASE StartSer
  <2>1. CASE NoService BY <2>1, NoServiceKeeps
  <2>2. CASE SessionControl BY <2>2, SessionControlKeeps
  <2>3. CASE SecurityAccess
    BY <2>3, RefuseAccessKeeps, SendSeedKeeps, RefuseKeyKeeps, VerifyKeyKeeps
    DEF SecurityAccess
  <2>4. CASE RoutineControl BY <2>4, RoutineControlKeeps
  <2>5. CASE RequestDownload BY <2>5, RequestLoadKeeps DEF RequestDownload
  <2>6. CASE RequestUpload BY <2>6, RequestLoadKeeps DEF RequestUpload
  <2>7. CASE TransferData BY <2>7, TransferDataKeeps
  <2>8. CASE RequestTransferExit BY <2>8, RequestTransferExitKeeps
  <2>9. CASE TransferOutOfSequence BY <2>9, TransferOutOfSequenceKeeps
  <2>10. CASE EcuReset BY <2>10, EcuResetKeeps
  <2> QED BY <1>2, <2>1, <2>2, <2>3, <2>4, <2>5, <2>6, <2>7, <2>8, <2>9, <2>10
          DEF StartSer
<1>3. CASE TimerCtrl BY <1>3, TimerCtrlKeeps
<1>4. CASE (\E r \in Requests : Request(r)) \/ Transmit BY <1>4, TransportKeeps
<1>5. CASE UNCHANGED vars
  BY <1>5 DEF vars, session, IInv, TypeOK, LoadNeedsUnlock, LoadAccounting,
              LockMeansFailed
<1> QED BY <1>1, <1>2, <1>3, <1>4, <1>5 DEF Next, MainUdsPolling

(* The session keeps to its types (uds.c:132-167).                           *)
THEOREM UdsTypeCorrect == Spec => []TypeOK
<1>1. IInv => TypeOK BY DEF IInv
<1> QED BY <1>1, InitIInv, IInvStep, PTL DEF Spec

(* No load without a key, the counters of a load in step with its state, and *)
(* no lock without the wrong keys that earn it (uds.c:454-877).              *)
THEOREM SessionSafe == Spec => [](LoadNeedsUnlock /\ LoadAccounting /\ LockMeansFailed)
<1>1. IInv => LoadNeedsUnlock /\ LoadAccounting /\ LockMeansFailed BY DEF IInv
<1> QED BY <1>1, InitIInv, IInvStep, PTL DEF Spec

(* No request, served or refused, at any point of a load, leaves it under    *)
(* way without blocks to read, or brings the next read beyond the area that  *)
(* the last load request stored (uds.c:69-74, 645-692, 781-830).             *)
THEOREM LoadAccountingHolds == Spec => []LoadAccounting
<1>1. (LoadNeedsUnlock /\ LoadAccounting /\ LockMeansFailed) => LoadAccounting OBVIOUS
<1> QED BY <1>1, SessionSafe, PTL

-----------------------------------------------------------------------------
(* The lock and the attempts over time.  While the server is locked, what is *)
(* left of sec_timer and the polls since make up SEC_TIMER, and afterwards   *)
(* that many have passed; the wrong keys answered with IK are among those    *)
(* that failed_cnt counts, as long as there is something to attempt.         *)
LockTime == /\ sinceLock \in Nat
            /\ Timing(sec) => sinceLock + sec = SEC_TIMER
            /\ ~Timing(sec) => sinceLock >= SEC_TIMER
Attempts == /\ wrongKeys \in Nat
            /\ wrongKeys < SEC_ACCESS_FAILED_CNT_MAX
            /\ sec_lev = "lev_1" => wrongKeys <= access.failed_cnt
HInv == IInv /\ LockTime /\ Attempts

Wrong == Answered(SECURITY_ACCESS, {"IK"})
Locks == Answered(SECURITY_ACCESS, {"ENOA"})
Judged == Answered(SECURITY_ACCESS, {"IK", "ENOA"})

(* A step that judges no key and does not touch the timer.                   *)
Quiet == /\ sec' = sec /\ sec_lev' = sec_lev
         /\ access'.failed_cnt = access.failed_cnt
         /\ ~Wrong /\ ~Locks /\ ~Judged

LEMMA InitHInv == Init /\ ObserveInit => HInv
<1> SUFFICES ASSUME Init, ObserveInit PROVE HInv OBVIOUS
<1>1. LockTime /\ Attempts
  BY SecTimerAssumption, FailedAssumption
  DEF Init, ObserveInit, LockTime, Attempts, Expired
<1> QED BY <1>1, InitIInv DEF HInv

(* An answer with another code, or of another service, judges no key.        *)
LEMMA OtherCode ==
    ASSUME NEW checks, Fails(checks),
           \A i \in DOMAIN checks : checks[i][2] \notin {"IK", "ENOA"}
    PROVE  ~Wrong /\ ~Locks /\ ~Judged
<1>1. PICK i \in DOMAIN checks : Refuse(checks[i][2])
  BY DEF Fails
<1>2. reply' # <<>> => reply'[1].nrc = checks[i][2]
  BY <1>1 DEF Refuse, Respond
<1> QED BY <1>2 DEF Wrong, Locks, Judged, Answered

LEMMA OtherService ==
    ASSUME pc # "serve" \/ ser.SID # SECURITY_ACCESS
    PROVE  ~Wrong /\ ~Locks /\ ~Judged
  BY DEF Wrong, Locks, Judged, Answered

(* Refusing access before a key is looked at is quiet, and so is a seed.     *)
LEMMA AccessQuiet ==
    ASSUME IInv, RefuseAccess \/ SendSeed \/ RefuseKey
    PROVE  Quiet
<1>0. access \in Accesses BY DEF IInv, TypeOK
<1>1. CASE RefuseAccess
  <2>1. \A i \in DOMAIN AccessChecks : AccessChecks[i][2] \notin {"IK", "ENOA"}
    BY DEF AccessChecks
  <2> QED BY <1>1, <2>1, OtherCode DEF RefuseAccess, Quiet, session
<1>2. CASE SendSeed
  <2> DEFINE checks == << <<args[1] = SEND_KEY, "RSE">>,
                          <<args[1] # REQ_SEED, "SFNS">>,
                          <<ser.len # 2, "IMLOIF">>,
                          <<loader.status # "LOAD_IDLE", "CNC">> >>
  <2>1. sec' = sec /\ sec_lev' = sec_lev
    BY <1>2, AccessOpen DEF SendSeed
  <2>2. CASE Fails(checks) /\ UNCHANGED access
    <3>1. \A i \in DOMAIN checks : checks[i][2] \notin {"IK", "ENOA"}
      OBVIOUS
    <3> HIDE DEF checks
    <3> QED BY <2>1, <2>2, <3>1, OtherCode DEF Quiet
  <2>3. CASE /\ access' = [access EXCEPT !.status = "WAIT_CLIENT_KEY", !.seed = Seed]
             /\ Accept(REQ_SEED)
    <3>1. access'.failed_cnt = access.failed_cnt
      BY <1>0, <2>3 DEF Accesses
    <3>2. reply'[1].nrc = "PR"
      BY <2>3 DEF Accept, Respond
    <3> QED BY <2>1, <3>1, <3>2 DEF Quiet, Wrong, Locks, Judged, Answered
  <2> QED BY <1>2, <2>2, <2>3 DEF SendSeed
<1>3. CASE RefuseKey
  <2>1. \A i \in DOMAIN KeyChecks : KeyChecks[i][2] \notin {"IK", "ENOA"}
    BY DEF KeyChecks
  <2>2. sec' = sec /\ sec_lev' = sec_lev
    BY <1>3, AccessOpen DEF RefuseKey
  <2>3. access'.failed_cnt = access.failed_cnt
    BY <1>0, <1>3 DEF Accesses, RefuseKey
  <2> QED BY <1>3, <2>1, <2>2, <2>3, OtherCode DEF RefuseKey, Quiet
<1> QED BY <1>1, <1>2, <1>3

(* So is every step but VerifyKey and the one that counts the timer down.    *)
LEMMA QuietSteps ==
    ASSUME IInv, [Next]_vars, ~VerifyKey, ~TimerCtrl
    PROVE  Quiet
<1>1. CASE SecurityAccess
  BY <1>1, AccessQuiet DEF SecurityAccess
<1>2. CASE StartSer /\ ~SecurityAccess
  <2>1. ser.SID # SECURITY_ACCESS
    BY <1>2 DEF StartSer, NoService, SessionControl, RoutineControl, RequestDownload,
                RequestUpload, RequestLoad, TransferData, RequestTransferExit,
                TransferOutOfSequence, EcuReset, Serve
  <2>2. UNCHANGED <<sec_lev, sec, access>>
    BY <1>2 DEF StartSer, NoService, SessionControl, RoutineControl, RequestDownload,
                RequestUpload, RequestLoad, TransferData, RequestTransferExit,
                TransferOutOfSequence, EcuReset, session
  <2> QED BY <2>1, <2>2, OtherService DEF Quiet
<1>3. CASE NoRequest \/ ReceiveRequest
  BY <1>3, OtherService DEF NoRequest, ReceiveRequest, Step, session, Quiet
<1>4. CASE (\E r \in Requests : Request(r)) \/ Transmit \/ UNCHANGED vars
  <2>1. UNCHANGED <<sec_lev, sec, access, pc>>
    BY <1>4 DEF Request, Transmit, vars, session
  <2>2. pc # "serve" \/ pc' # "timer"
    BY <2>1
  <2> QED BY <2>1, <2>2 DEF Quiet, Wrong, Locks, Judged, Answered
<1> QED BY <1>1, <1>2, <1>3, <1>4 DEF Next, MainUdsPolling

(* What VerifyKey does to the count of wrong keys and to the lock.           *)
LEMMA Verdicts ==
    ASSUME IInv, VerifyKey
    PROVE  /\ pc = "serve" /\ pc' = "timer"
           /\ sec = Stopped /\ sec_lev = "lev_1"
           /\ \/ sec_lev' = "lev_2" /\ sec' = Stopped /\ ~Wrong /\ ~Locks
              \/ /\ sec_lev' = sec_lev /\ sec' = SEC_TIMER /\ ~Wrong /\ Locks
                 /\ access'.failed_cnt = SEC_ACCESS_FAILED_CNT_MAX
              \/ /\ sec_lev' = sec_lev /\ sec' = Stopped /\ Wrong /\ ~Locks
                 /\ access'.failed_cnt = access.failed_cnt + 1
                 /\ access'.failed_cnt < SEC_ACCESS_FAILED_CNT_MAX
<1>1. /\ pc = "serve" /\ pc' = "timer" /\ ser.SID = SECURITY_ACCESS
      /\ sec = Stopped /\ sec_lev = "lev_1"
  BY AccessOpen DEF VerifyKey, Serve, Step, IInv, TypeOK
<1>2. CASE RcvKey = ExpectedKey
  <2>1. sec_lev' = "lev_2" /\ sec' = Stopped /\ Accept(SEND_KEY)
    BY <1>2 DEF VerifyKey
  <2>2. reply'[1].nrc = "PR"
    BY <2>1 DEF Accept, Respond
  <2> QED BY <1>1, <2>1, <2>2 DEF Wrong, Locks, Answered
<1>3. CASE RcvKey # ExpectedKey
  <2>1. sec_lev' = sec_lev /\ access'.failed_cnt = Failed
    BY <1>3 DEF VerifyKey
  <2>2. CASE Failed >= SEC_ACCESS_FAILED_CNT_MAX
    <3>1. sec' = SEC_TIMER /\ Refuse("ENOA")
      BY <1>3, <2>2 DEF VerifyKey
    <3>2. reply' # <<>> /\ reply'[1].nrc = "ENOA"
      BY <3>1 DEF Refuse, Respond
    <3>3. Failed = SEC_ACCESS_FAILED_CNT_MAX
      BY <2>2, FailedType DEF IInv
    <3> QED BY <1>1, <2>1, <3>1, <3>2, <3>3 DEF Wrong, Locks, Answered
  <2>3. CASE ~(Failed >= SEC_ACCESS_FAILED_CNT_MAX)
    <3>1. sec' = Stopped /\ Refuse("IK")
      BY <1>3, <2>3 DEF VerifyKey
    <3>2. reply' # <<>> /\ reply'[1].nrc = "IK"
      BY <3>1 DEF Refuse, Respond
    <3>3. Failed = access.failed_cnt + 1 /\ Failed < SEC_ACCESS_FAILED_CNT_MAX
      <4>1. access.failed_cnt \in 0 .. SEC_ACCESS_FAILED_CNT_MAX
        BY DEF IInv, TypeOK, Accesses
      <4> QED BY <2>3, <4>1, FailedAssumption DEF Failed
    <3> QED BY <1>1, <2>1, <3>1, <3>2, <3>3 DEF Wrong, Locks, Answered
  <2> QED BY <2>2, <2>3
<1> QED BY <1>2, <1>3

LEMMA HInvStep == HInv /\ [Next /\ Observe]_observed => HInv'
<1> SUFFICES ASSUME HInv, [Next /\ Observe]_observed PROVE HInv' OBVIOUS
<1>0. IInv /\ IInv' /\ [Next]_vars
  BY IInvStep DEF HInv, observed
<1>1. sec \in -1 .. SEC_TIMER /\ sinceLock \in Nat /\ wrongKeys \in Nat
      /\ access.failed_cnt \in Nat
  BY <1>0 DEF HInv, IInv, TypeOK, LockTime, Attempts, Accesses
<1>2. CASE UNCHANGED observed
  BY <1>0, <1>2 DEF observed, vars, session, HInv, LockTime, Attempts
<1>3. CASE Next /\ Observe
  <2>1. wrongKeys' = IF Wrong THEN wrongKeys + 1 ELSE wrongKeys
    BY <1>3 DEF Observe, Wrong
  <2>2. sinceLock' = IF Locks THEN 0
                     ELSE IF pc = "timer" /\ pc' = "receive" /\ sinceLock < Expired
                     THEN sinceLock + 1 ELSE sinceLock
    BY <1>3 DEF Observe, Locks
  <2>3. CASE VerifyKey
    <3>1. LockTime'
      BY <1>0, <1>1, <2>2, <2>3, Verdicts, SecTimerAssumption DEF HInv, LockTime
    <3>2. Attempts'
      BY <1>0, <1>1, <2>1, <2>3, Verdicts, FailedAssumption DEF HInv, Attempts
    <3> QED BY <1>0, <3>1, <3>2 DEF HInv
  <2>4. CASE TimerCtrl
    <3>1. /\ pc = "timer" /\ pc' = "receive" /\ sec' = Tick(sec)
          /\ UNCHANGED <<sec_lev, access>> /\ ~Wrong /\ ~Locks
      BY <2>4, OtherService DEF TimerCtrl, Step
    <3>2. LockTime'
      BY <1>1, <2>2, <3>1, SecTimerAssumption DEF HInv, LockTime, Tick, Expired
    <3>3. Attempts'
      BY <1>1, <2>1, <3>1 DEF HInv, Attempts
    <3> QED BY <1>0, <3>2, <3>3 DEF HInv
  <2>5. CASE ~VerifyKey /\ ~TimerCtrl
    <3>1. Quiet
      BY <1>0, <2>5, QuietSteps
    <3>2. ~(pc = "timer" /\ pc' = "receive")
      BY <1>3, <2>5
      DEF Next, MainUdsPolling, NoRequest, ReceiveRequest, StartSer, NoService,
          SessionControl, SecurityAccess, RefuseAccess, SendSeed, RefuseKey,
          RoutineControl, RequestDownload, RequestUpload, RequestLoad, TransferData,
          RequestTransferExit, TransferOutOfSequence, EcuReset, Serve, Step, Request,
          Transmit
    <3>3. LockTime' /\ Attempts'
      BY <1>1, <2>1, <2>2, <3>1, <3>2 DEF HInv, LockTime, Attempts, Quiet
    <3> QED BY <1>0, <3>3 DEF HInv
  <2> QED BY <2>3, <2>4, <2>5
<1> QED BY <1>2, <1>3

(* A key is judged only after the last lock has run out.                     *)
LEMMA JudgedLate ==
    ASSUME HInv, Next, Judged \/ sec_lev' # sec_lev
    PROVE  sinceLock >= SEC_TIMER
<1>0. IInv /\ [Next]_vars
  BY DEF HInv
<1>1. CASE VerifyKey
  BY <1>0, <1>1, Verdicts DEF HInv, LockTime
<1>2. CASE TimerCtrl
  BY <1>2, OtherService DEF TimerCtrl, Step
<1>3. CASE ~VerifyKey /\ ~TimerCtrl
  BY <1>0, <1>3, QuietSteps DEF Quiet
<1> QED BY <1>1, <1>2, <1>3

(* For every number of allowed attempts, fewer wrong keys than that go       *)
(* without locking the server over its whole life (uds.c:570-600).           *)
THEOREM WrongKeysLockHolds == HistorySpec => []WrongKeysLock
<1>1. HInv => WrongKeysLock
  BY DEF HInv, Attempts, WrongKeysLock
<1> QED BY <1>1, InitHInv, HInvStep, PTL DEF HistorySpec, HistoryInit, HistoryNext

(* Whatever a client sends and however long sec_timer runs, no key is judged *)
(* before the last lock has run out (uds.c:462-465, 592-594).                *)
THEOREM LockoutHonouredHolds == HistorySpec => LockoutHonoured
<1>1. HInv /\ [Next /\ Observe]_observed =>
        [Judged \/ sec_lev' # sec_lev => sinceLock >= SEC_TIMER]_observed
  BY JudgedLate
<1>2. HistorySpec => []HInv
  BY InitHInv, HInvStep, PTL DEF HistorySpec, HistoryInit, HistoryNext
<1>3. HistorySpec => [][Judged \/ sec_lev' # sec_lev => sinceLock >= SEC_TIMER]_observed
  BY <1>1, <1>2, PTL DEF HistorySpec, HistoryInit, HistoryNext
<1> QED BY <1>3 DEF LockoutHonoured, Judged

-----------------------------------------------------------------------------
(* The request that is being served and the buffer.  The last conjunct is    *)
(* what keeps a request for an unlisted service, which runs the last service *)
(* again, from being taken for a key: security access waits for one only     *)
(* while the last A_PDU has the length of a request for a seed.              *)
AskedType == /\ asked.args \in Seq(Byte)
             /\ asked.len >= 4 => Len(asked.args) = 3
AskedServed ==
    pc = "serve" /\ asked.SID \in Listed =>
        /\ ser = [SID |-> asked.SID, len |-> asked.len]
        /\ \A i \in 1 .. Len(asked.args) : i <= 3 => args[i] = asked.args[i]
SeedIsOut == access.status = "WAIT_CLIENT_KEY" =>
                 seedOut /\ access.seed = Seed /\ sec_lev = "lev_1"
KeyIsAsked ==
    access.status = "WAIT_CLIENT_KEY" /\ ser.SID = SECURITY_ACCESS /\ ser.len = 4 =>
        pc = "serve" /\ asked.SID = SECURITY_ACCESS
WInv == IInv /\ AskedType /\ AskedServed /\ SeedIsOut /\ KeyIsAsked

LEMMA InitWInv == Init /\ ObserveInit => WInv
<1> SUFFICES ASSUME Init, ObserveInit PROVE WInv OBVIOUS
<1>1. AskedType /\ AskedServed /\ SeedIsOut /\ KeyIsAsked
  BY DEF Init, ObserveInit, AskedType, AskedServed, SeedIsOut, KeyIsAsked
<1> QED BY <1>1, InitIInv DEF WInv

(* A step that serves nothing, and takes no request.                         *)
LEMMA IdleTold ==
    ASSUME WInv, IInv', UNCHANGED <<asked, seedOut, access, sec_lev, ser, args>>,
           pc' = "serve" <=> pc = "serve"
    PROVE  WInv'
  BY DEF WInv, AskedType, AskedServed, SeedIsOut, KeyIsAsked

(* A request is taken.                                                       *)
LEMMA ReceiveTold ==
    ASSUME WInv, ReceiveRequest, Observe
    PROVE  WInv'
<1> DEFINE r == inbox[1]
<1>1. /\ pc = "receive" /\ pc' = "serve" /\ access' = access /\ sec_lev' = sec_lev
      /\ args' = [i \in 1 .. 3 |-> IF i <= Len(r.args) THEN r.args[i] ELSE args[i]]
      /\ ser' = IF r.SID \in Listed THEN [SID |-> r.SID, len |-> r.len] ELSE ser
      /\ asked' = r /\ seedOut' = seedOut
  BY DEF ReceiveRequest, Step, session, Observe, Answered
<1>2. r \in Requests
  BY DEF ReceiveRequest, WInv, IInv, TypeOK
<1>3. /\ r.args \in Seq(Byte) /\ r.len \in Nat
      /\ Len(r.args) = IF r.len < 4 THEN r.len - 1 ELSE 3
  BY <1>2, RequestsAssumption
<1> HIDE DEF r
<1>4. AskedType'
  BY <1>1, <1>3 DEF AskedType
<1>5. AskedServed'
  <2>1. ASSUME r.SID \in Listed, NEW i \in 1 .. Len(r.args), i <= 3
        PROVE  args'[i] = r.args[i]
    <3>1. i \in 1 .. 3 /\ i <= Len(r.args)
      BY <1>3, <2>1
    <3> QED BY <1>1, <3>1
  <2> QED BY <1>1, <2>1 DEF AskedServed
<1>6. SeedIsOut'
  BY <1>1 DEF WInv, SeedIsOut
<1>7. KeyIsAsked'
  BY <1>1 DEF WInv, KeyIsAsked
<1>8. IInv'
  BY ReceiveKeeps DEF WInv
<1> QED BY <1>4, <1>5, <1>6, <1>7, <1>8 DEF WInv

(* Security access answers it.                                               *)
LEMMA AccessTold ==
    ASSUME WInv, SecurityAccess, Observe
    PROVE  WInv'
<1>1. /\ pc = "serve" /\ pc' = "timer" /\ ser' = ser /\ args' = args
      /\ ser.SID = SECURITY_ACCESS
  BY DEF SecurityAccess, RefuseAccess, SendSeed, RefuseKey, VerifyKey, Serve, Step
<1>2. asked' = asked
  BY <1>1 DEF Observe
<1>3. AskedType' /\ AskedServed'
  BY <1>1, <1>2 DEF WInv, AskedType, AskedServed
<1>4. access.status \in {"WAIT_CLIENT_SEED", "WAIT_CLIENT_KEY"} /\ access \in Accesses
  BY DEF WInv, IInv, TypeOK, Accesses
<1>5. IInv'
  BY IInvStep DEF WInv, Next, MainUdsPolling, StartSer
<1>6. CASE access'.status # "WAIT_CLIENT_KEY"
  BY <1>3, <1>5, <1>6 DEF WInv, SeedIsOut, KeyIsAsked
<1>7. CASE access'.status = "WAIT_CLIENT_KEY"
  <2>1. ~VerifyKey /\ ~RefuseKey
    BY <1>4, <1>7 DEF VerifyKey, RefuseKey, Accesses
  <2>2. ~RefuseAccess
    <3>1. ASSUME RefuseAccess PROVE FALSE
      <4>1. access.status = "WAIT_CLIENT_KEY"
        BY <1>7, <3>1 DEF RefuseAccess, session
      <4>2. ~Timing(sec) /\ ~(sec_lev = "lev_2")
        BY <4>1 DEF WInv, SeedIsOut, IInv, LockMeansFailed
      <4>3. Timing(sec) \/ sec_lev = "lev_2"
        BY <3>1, FailsTwo, Zenon DEF RefuseAccess, AccessChecks
      <4> QED BY <4>2, <4>3
    <3> QED BY <3>1
  <2>3. CASE SendSeed
    <3> DEFINE checks == << <<args[1] = SEND_KEY, "RSE">>,
                            <<args[1] # REQ_SEED, "SFNS">>,
                            <<ser.len # 2, "IMLOIF">>,
                            <<loader.status # "LOAD_IDLE", "CNC">> >>
    <3>1. /\ Passes(checks) /\ Accept(REQ_SEED)
          /\ access' = [access EXCEPT !.status = "WAIT_CLIENT_KEY", !.seed = Seed]
          /\ Passes(AccessChecks) /\ sec_lev' = sec_lev
      BY <1>7, <2>3 DEF SendSeed
    <3>2. ~(ser.len # 2)
      BY <3>1, PassesFour, Zenon
    <3>3. sec_lev' = "lev_1"
      BY <3>1, AccessOpen DEF WInv, IInv, TypeOK
    <3>4. reply' = <<[SID |-> SECURITY_ACCESS, nrc |-> "PR", arg |-> REQ_SEED]>>
      BY <1>1, <3>1 DEF Accept, Respond
    <3>5. seedOut'
      BY <1>1, <3>4 DEF Observe, Answered
    <3>6. access'.seed = Seed
      BY <1>4, <3>1 DEF Accesses
    <3> QED BY <1>1, <1>3, <1>5, <3>2, <3>3, <3>5, <3>6 DEF WInv, SeedIsOut, KeyIsAsked
  <2> QED BY <2>1, <2>2, <2>3 DEF SecurityAccess
<1> QED BY <1>6, <1>7

(* Another service answers it.                                               *)
LEMMA ServiceTold ==
    ASSUME WInv, StartSer, ~SecurityAccess, Observe
    PROVE  WInv'
<1>1. /\ pc = "serve" /\ pc' = "timer" /\ ser' = ser /\ args' = args
      /\ ser.SID # SECURITY_ACCESS /\ UNCHANGED <<access, sec_lev>>
  BY DEF StartSer, NoService, SessionControl, RoutineControl, RequestDownload,
         RequestUpload, RequestLoad, TransferData, RequestTransferExit,
         TransferOutOfSequence, EcuReset, Serve, Step, session
<1>2. asked' = asked /\ seedOut' = seedOut
  BY <1>1 DEF Observe, Answered
<1>3. IInv'
  BY IInvStep DEF WInv, Next, MainUdsPolling
<1> QED BY <1>1, <1>2, <1>3 DEF WInv, AskedType, AskedServed, SeedIsOut, KeyIsAsked

LEMMA WInvStep == WInv /\ [Next /\ Observe]_observed => WInv'
<1> SUFFICES ASSUME WInv, [Next /\ Observe]_observed PROVE WInv' OBVIOUS
<1>0. IInv'
  BY IInvStep DEF WInv, observed
<1>1. CASE UNCHANGED observed
  BY <1>0, <1>1, IdleTold DEF observed, vars, session
<1>2. CASE Next /\ Observe
  <2>1. CASE ReceiveRequest
    BY <1>2, <2>1, ReceiveTold
  <2>2. CASE SecurityAccess
    BY <1>2, <2>2, AccessTold
  <2>3. CASE StartSer /\ ~SecurityAccess
    BY <1>2, <2>3, ServiceTold
  <2>4. CASE NoRequest \/ TimerCtrl \/ (\E r \in Requests : Request(r)) \/ Transmit
    <3>1. /\ UNCHANGED <<access, sec_lev, ser, args>>
          /\ (pc' = "serve") <=> (pc = "serve")
          /\ pc # "serve" \/ pc' # "timer"
          /\ pc # "receive" \/ pc' # "serve"
      BY <2>4 DEF NoRequest, TimerCtrl, Request, Transmit, Step, session
    <3>2. UNCHANGED <<asked, seedOut>>
      BY <1>2, <3>1 DEF Observe, Answered
    <3> QED BY <1>0, <3>1, <3>2, IdleTold
  <2> QED BY <1>2, <2>1, <2>2, <2>3, <2>4 DEF Next, MainUdsPolling
<1> QED BY <1>1, <1>2

(* The key that unlocks is the request's own.                                *)
LEMMA UnlockedBy ==
    ASSUME WInv, Next, sec_lev' # sec_lev
    PROVE  /\ sec_lev' = "lev_2" /\ seedOut
           /\ asked.SID = SECURITY_ACCESS /\ asked.len = 4
           /\ asked.args = <<SEND_KEY, Key(Seed) \div 256, Key(Seed) % 256>>
<1>1. VerifyKey /\ RcvKey = ExpectedKey
  BY QuietSteps DEF WInv, Quiet, VerifyKey, TimerCtrl
<1>2. /\ sec_lev' = "lev_2" /\ access.status = "WAIT_CLIENT_KEY" /\ pc = "serve"
      /\ ser.SID = SECURITY_ACCESS /\ Passes(KeyChecks)
  BY <1>1 DEF VerifyKey, Serve, Step
<1>3. ~(args[1] # SEND_KEY) /\ ~(ser.len # 4)
  BY <1>2, PassesFour, Zenon DEF KeyChecks
<1>4. seedOut /\ access.seed = Seed /\ asked.SID = SECURITY_ACCESS
  BY <1>2, <1>3 DEF WInv, SeedIsOut, KeyIsAsked
<1>5. /\ asked.len = 4
      /\ \A i \in 1 .. Len(asked.args) : i <= 3 => args[i] = asked.args[i]
  BY <1>2, <1>3, <1>4 DEF WInv, AskedServed, Listed, Services
<1>6. asked.args \in Seq(Byte) /\ Len(asked.args) = 3
  BY <1>5 DEF WInv, AskedType
<1>7. args[2] \in 0 .. 255 /\ args[3] \in 0 .. 255
  <2>1. args \in [1 .. 3 -> 0 .. 255] BY DEF WInv, IInv, TypeOK, Byte
  <2> QED BY <2>1
<1>8. args[2] * 256 + args[3] = 4735
  BY <1>1, <1>4 DEF RcvKey, ExpectedKey, Key
<1>9. args[2] = 18 /\ args[3] = 127
  <2> DEFINE x == args[2]
             y == args[3]
  <2>1. x \in 0 .. 255 /\ y \in 0 .. 255 /\ x * 256 + y = 4735
    BY <1>7, <1>8
  <2> HIDE DEF x, y
  <2>2. x = 18 /\ y = 127
    BY <2>1
  <2> QED BY <2>2 DEF x, y
<1>10. asked.args[1] = 2 /\ asked.args[2] = 18 /\ asked.args[3] = 127
  <2>1. \A i \in 1 .. 3 : args[i] = asked.args[i]
    BY <1>5, <1>6
  <2>2. args[1] = 2
    BY <1>3
  <2> QED BY <1>9, <2>1, <2>2
<1>11. asked.args = <<2, 18, 127>>
  BY <1>6, <1>10
<1>12. Key(Seed) \div 256 = 18 /\ Key(Seed) % 256 = 127
  BY DEF Key
<1> QED BY <1>2, <1>4, <1>5, <1>11, <1>12

(* Whatever requests a client sends and in whatever order, the server is     *)
(* unlocked only by the right key in a request of its own, right after the   *)
(* seed (uds.c:265-285, 478-606).                                            *)
THEOREM UnlockEarnedHolds == HistorySpec => UnlockEarned
<1> DEFINE Earned == sec_lev' # sec_lev =>
              /\ sec_lev' = "lev_2"
              /\ seedOut
              /\ asked.SID = SECURITY_ACCESS /\ asked.len = 4
              /\ asked.args = <<SEND_KEY, Key(Seed) \div 256, Key(Seed) % 256>>
<1>1. WInv /\ [Next /\ Observe]_observed => [Earned]_observed
  BY UnlockedBy
<1>2. HistorySpec => []WInv
  BY InitWInv, WInvStep, PTL DEF HistorySpec, HistoryInit, HistoryNext
<1> HIDE DEF Earned
<1>3. HistorySpec => [][Earned]_observed
  BY <1>1, <1>2, PTL DEF HistorySpec, HistoryInit, HistoryNext
<1> QED BY <1>3 DEF UnlockEarned, Earned

-----------------------------------------------------------------------------
(* The blocks of a load.  As long as no load request was refused, start_addr *)
(* has advanced by as many blocks of the area that was checked as were read, *)
(* and those that remain make up the rest of it.                             *)
BlocksOf(area, n) == [i \in 1 .. n |-> [area |-> area, block |-> i - 1]]

BlocksInv ==
    /\ loader.status = "LOADING" /\ undisturbed =>
         /\ loader.area = accepted
         /\ loader.offset + loader.block_number = LOAD_BLOCK_NUMBER
         /\ blocksRead = BlocksOf(accepted, loader.offset)
    /\ CompletedMeansAllRead

LEMMA BlocksType ==
    ASSUME NEW area, NEW n \in Nat
    PROVE  BlocksOf(area, n) \in Seq([area : {area}, block : Nat]) /\ Len(BlocksOf(area, n)) = n
<1>1. \A i \in 1 .. n : [area |-> area, block |-> i - 1] \in [area : {area}, block : Nat]
  OBVIOUS
<1> QED BY <1>1 DEF BlocksOf

LEMMA OneMoreBlock ==
    ASSUME NEW area, NEW n \in Nat
    PROVE  Append(BlocksOf(area, n), [area |-> area, block |-> n]) = BlocksOf(area, n + 1)
<1> DEFINE old == BlocksOf(area, n)
           new == BlocksOf(area, n + 1)
           more == Append(old, [area |-> area, block |-> n])
           Blocks == [area : {area}, block : Nat]
<1>1. old \in Seq(Blocks) /\ Len(old) = n
  BY BlocksType
<1>2. new \in Seq(Blocks) /\ Len(new) = n + 1
  BY BlocksType
<1>3. [area |-> area, block |-> n] \in Blocks OBVIOUS
<1>4. more \in Seq(Blocks) /\ Len(more) = n + 1
  <2> HIDE DEF old, Blocks
  <2> QED BY <1>1, <1>3
<1>5. ASSUME NEW i \in 1 .. n + 1 PROVE more[i] = new[i]
  <2>1. CASE i \in 1 .. n
    <3>1. more[i] = old[i]
      <4> HIDE DEF old, Blocks
      <4> QED BY <1>1, <1>3, <2>1
    <3>2. old[i] = [area |-> area, block |-> i - 1] BY <2>1 DEF BlocksOf
    <3>3. new[i] = [area |-> area, block |-> i - 1] BY DEF BlocksOf
    <3> QED BY <3>1, <3>2, <3>3
  <2>2. CASE i = n + 1
    <3>1. more[n + 1] = [area |-> area, block |-> n]
      <4> HIDE DEF old, Blocks
      <4> QED BY <1>1, <1>3
    <3>2. new[i] = [area |-> area, block |-> i - 1] BY DEF BlocksOf
    <3>3. i - 1 = n BY <2>2
    <3> QED BY <2>2, <3>1, <3>2, <3>3
  <2>3. i \in 1 .. n \/ i = n + 1 OBVIOUS
  <2> HIDE DEF more, new
  <2> QED BY <2>1, <2>2, <2>3
<1> HIDE DEF more, new, Blocks
<1>6. more \in [1 .. n + 1 -> Blocks] /\ new \in [1 .. n + 1 -> Blocks]
  BY <1>2, <1>4
<1>7. more = new BY <1>5, <1>6
<1> QED BY <1>7 DEF more, new

(* A step that accepts no load and reads no block.                           *)
NoBlock == ~LoadAnswered({"PR"}) /\ ~Answered(TRANSFER_DATA, {"PR"})

LEMMA NoBlockKeeps ==
    ASSUME BlocksInv, Observe, NoBlock,
           loader' = loader \/ loader'.status = "LOAD_IDLE" \/ LoadAnswered(Nrcs)
    PROVE  BlocksInv'
<1>1. /\ blocksRead' = blocksRead /\ accepted' = accepted
      /\ undisturbed' = (undisturbed /\ ~LoadAnswered(Nrcs))
  BY DEF Observe, NoBlock
<1>2. CASE LoadAnswered(Nrcs)
  BY <1>1, <1>2 DEF BlocksInv, CompletedMeansAllRead
<1>3. CASE loader'.status = "LOAD_IDLE"
  BY <1>3 DEF BlocksInv, CompletedMeansAllRead
<1>4. CASE loader' = loader
  BY <1>1, <1>4 DEF BlocksInv, CompletedMeansAllRead
<1> QED BY <1>2, <1>3, <1>4

LEMMA RefusedMeansNoBlock ==
    ASSUME NEW nrc, nrc # "PR", Refuse(nrc)
    PROVE  NoBlock
<1>1. reply'[1].nrc = nrc BY DEF Refuse, Respond
<1> QED BY <1>1 DEF NoBlock, LoadAnswered, Answered

LEMMA FailedMeansNoBlock ==
    ASSUME NEW checks, Fails(checks), \A i \in DOMAIN checks : checks[i][2] # "PR"
    PROVE  NoBlock
<1>1. PICK i \in DOMAIN checks : Refuse(checks[i][2]) BY DEF Fails
<1> QED BY <1>1, RefusedMeansNoBlock

(* A load request that is refused disturbs the load.                         *)
LEMMA RefusedLoad ==
    ASSUME NEW s \in {REQUEST_UPLOAD, REQUEST_DOWNLOAD}, Serve(s), NEW nrc \in Nrcs,
           Refuse(nrc)
    PROVE  LoadAnswered(Nrcs)
<1>1. reply' # <<>> /\ reply'[1].nrc = nrc BY DEF Refuse, Respond
<1>2. pc = "serve" /\ pc' = "timer" /\ ser.SID = s BY DEF Serve, Step
<1> QED BY <1>1, <1>2 DEF LoadAnswered, Answered

(* A request for a load begins one, or disturbs the one under way.           *)
LEMMA RequestLoadCounts ==
    ASSUME IInv, BlocksInv, Observe, NEW s \in {REQUEST_UPLOAD, REQUEST_DOWNLOAD},
           NEW direction \in {"DOWNLOAD", "UPLOAD"}, RequestLoad(s, direction)
    PROVE  BlocksInv'
<1>0. loader \in Loaders /\ Serve(s) BY LoaderType DEF IInv, RequestLoad
<1>1. CASE \E nrc \in Nrcs \ {"PR"} : Refuse(nrc)
  BY <1>0, <1>1, RefusedMeansNoBlock, RefusedLoad, NoBlockKeeps
<1>2. CASE Fails(LoadChecks)
  <2>1. \A i \in DOMAIN LoadChecks : LoadChecks[i][2] \in Nrcs \ {"PR"}
    BY DEF LoadChecks, Nrcs
  <2>2. PICK i \in DOMAIN LoadChecks : Refuse(LoadChecks[i][2])
    BY <1>2 DEF Fails
  <2> QED BY <1>1, <2>1, <2>2
<1>3. CASE Refuse("UDNA")
  <2>1. "UDNA" \in Nrcs \ {"PR"} BY DEF Nrcs
  <2> QED BY <1>1, <1>3, <2>1
<1>4. ASSUME NEW area \in StackAreas, Accept(LOAD_BLOCK_NUMBER),
             loader' = [GetAddrAndSize(loader, area)
                          EXCEPT !.status = "LOADING", !.direction = direction,
                                 !.block_number = LOAD_BLOCK_NUMBER]
      PROVE  BlocksInv'
  <2>1. LoadAnswered({"PR"})
    <3>1. reply' # <<>> /\ reply'[1].nrc = "PR" BY <1>4 DEF Accept, Respond
    <3>2. pc = "serve" /\ pc' = "timer" /\ ser.SID = s BY <1>0 DEF Serve, Step
    <3> QED BY <3>1, <3>2 DEF LoadAnswered, Answered
  <2>2. blocksRead' = <<>> /\ accepted' = loader'.area BY <2>1 DEF Observe
  <2>3. /\ loader'.status = "LOADING" /\ loader'.offset = 0
        /\ loader'.block_number = LOAD_BLOCK_NUMBER
    <3> DEFINE stored == GetAddrAndSize(loader, area)
    <3>1. stored \in Loaders /\ stored.offset = 0 BY <1>0, StoredType
    <3>2. loader' = [stored EXCEPT !.status = "LOADING", !.direction = direction,
                                   !.block_number = LOAD_BLOCK_NUMBER]
      BY <1>4
    <3> HIDE DEF stored
    <3> QED BY <3>1, <3>2, AcceptedType
  <2>4. <<>> = BlocksOf(accepted', 0)
    <3> DEFINE none == BlocksOf(accepted', 0)
               Blocks == [area : {accepted'}, block : Nat]
    <3>1. none \in Seq(Blocks) /\ Len(none) = 0
      BY BlocksType
    <3> HIDE DEF none, Blocks
    <3>2. none = <<>> BY <3>1
    <3> QED BY <3>2 DEF none
  <2>5. 0 + LOAD_BLOCK_NUMBER = LOAD_BLOCK_NUMBER BY LoadAssumption
  <2> QED BY <2>2, <2>3, <2>4, <2>5 DEF BlocksInv, CompletedMeansAllRead
<1> QED BY <1>2, <1>3, <1>4 DEF RequestLoad

(* A request for a block reads the next one, when the memory can be read.    *)
LEMMA TransferDataCounts ==
    ASSUME ReadResults \subseteq {TRUE}, IInv, BlocksInv, Observe, TransferData
    PROVE  BlocksInv'
<1> DEFINE checks == << <<ser.len # 2, "IMLOIF">>,
                        <<args[1] # 0, "WBSC">>,
                        <<loader.direction = "DOWNLOAD", "ROOR">> >>
           next == BlockTaken(loader)
<1>0. /\ loader \in Loaders /\ loader.block_number \in 0 .. 255 /\ loader.offset \in Nat
      /\ loader.status = "LOADING" /\ loader.block_number > 0
      /\ LOAD_BLOCK_NUMBER \in 1 .. 255
  BY LoaderType, LoadAssumption DEF TransferData, IInv, LoadAccounting
<1>1. CASE Fails(checks) /\ loader' = Completed(loader)
  <2>1. \A i \in DOMAIN checks : checks[i][2] # "PR" OBVIOUS
  <2>2. loader' = loader BY <1>0, <1>1 DEF Completed
  <2> HIDE DEF checks
  <2> QED BY <1>1, <2>1, <2>2, FailedMeansNoBlock, NoBlockKeeps
<1>2. CASE loader' = Completed(next) /\ Accept(next.block_number)
  <2>1. /\ next \in Loaders /\ next.status = "LOADING" /\ next.area = loader.area
        /\ next.block_number = loader.block_number - 1 /\ next.offset = loader.offset + 1
    BY <1>0, TakenType
  <2> HIDE DEF next
  <2>2. /\ loader'.block_number = loader.block_number - 1
        /\ loader'.area = loader.area /\ loader'.offset = loader.offset + 1
        /\ loader'.status = IF loader'.block_number = 0 THEN "LOAD_COMPLETED" ELSE "LOADING"
    BY <1>2, <2>1, CompletedType
  <2>3. /\ Answered(TRANSFER_DATA, {"PR"}) /\ ser.SID = TRANSFER_DATA
    BY <1>2 DEF TransferData, Serve, Step, Accept, Respond, Answered
  <2>4. ~LoadAnswered({"PR"}) /\ ~LoadAnswered(Nrcs)
    BY <2>3 DEF LoadAnswered, Answered
  <2>5. /\ undisturbed' => undisturbed
        /\ accepted' = accepted
        /\ blocksRead' = Append(blocksRead, [area |-> loader.area, block |-> loader.offset])
    BY <2>3, <2>4 DEF Observe
  <2>6. ASSUME undisturbed
        PROVE  /\ loader'.area = accepted'
               /\ loader'.offset + loader'.block_number = LOAD_BLOCK_NUMBER
               /\ blocksRead' = BlocksOf(accepted', loader'.offset)
    <3>1. /\ loader.area = accepted /\ blocksRead = BlocksOf(accepted, loader.offset)
          /\ loader.offset + loader.block_number = LOAD_BLOCK_NUMBER
      BY <1>0, <2>6 DEF BlocksInv
    <3>2. blocksRead' = BlocksOf(accepted, loader.offset + 1)
      BY <1>0, <2>5, <3>1, OneMoreBlock
    <3>3. loader'.offset + loader'.block_number = LOAD_BLOCK_NUMBER
      BY <1>0, <2>2, <3>1
    <3> QED BY <2>2, <2>5, <3>1, <3>2, <3>3
  <2>7. ASSUME undisturbed, loader'.block_number = 0
        PROVE  blocksRead' = BlocksOf(accepted', LOAD_BLOCK_NUMBER)
    <3>1. loader'.offset = LOAD_BLOCK_NUMBER BY <1>0, <2>2, <2>6, <2>7
    <3> QED BY <2>6, <2>7, <3>1
  <2>8. CompletedMeansAllRead'
    BY <2>2, <2>5, <2>7 DEF CompletedMeansAllRead, BlocksOf
  <2> QED BY <2>5, <2>6, <2>8 DEF BlocksInv
<1> QED BY <1>1, <1>2 DEF TransferData

LEMMA BlocksStep ==
    ASSUME ReadResults \subseteq {TRUE}, IInv, BlocksInv, Next, Observe
    PROVE  BlocksInv'
<1>0. loader \in Loaders BY LoaderType DEF IInv
<1>1. CASE RequestDownload \/ RequestUpload
  BY <1>1, RequestLoadCounts DEF RequestDownload, RequestUpload
<1>2. CASE TransferData
  BY <1>2, TransferDataCounts
<1>3. CASE RequestTransferExit
  <2>1. NoBlock
    BY <1>3 DEF RequestTransferExit, Serve, NoBlock, LoadAnswered, Answered
  <2>2. loader' = loader \/ loader' = ResetLoad(loader)
    BY <1>3 DEF RequestTransferExit
  <2> QED BY <1>0, <2>1, <2>2, ResetType, NoBlockKeeps
<1>4. CASE TransferOutOfSequence
  BY <1>0, <1>4, ResetType, RefusedMeansNoBlock, NoBlockKeeps DEF TransferOutOfSequence
<1>5. CASE NoService \/ SessionControl \/ SecurityAccess \/ RoutineControl \/ EcuReset
  <2>1. ser.SID \notin {REQUEST_UPLOAD, REQUEST_DOWNLOAD, TRANSFER_DATA} /\ loader' = loader
    BY <1>5 DEF NoService, SessionControl, SecurityAccess, RefuseAccess, SendSeed, RefuseKey,
       VerifyKey, RoutineControl, EcuReset, Serve, session
  <2>2. NoBlock BY <2>1 DEF NoBlock, LoadAnswered, Answered
  <2> QED BY <2>1, <2>2, NoBlockKeeps
<1>6. CASE NoRequest \/ ReceiveRequest \/ TimerCtrl
           \/ (\E r \in Requests : Request(r)) \/ Transmit
  <2>1. (pc # "serve" \/ pc' # "timer") /\ loader' = loader
    BY <1>6 DEF NoRequest, ReceiveRequest, TimerCtrl, Request, Transmit, Step, session
  <2>2. NoBlock BY <2>1 DEF NoBlock, LoadAnswered, Answered
  <2> QED BY <2>1, <2>2, NoBlockKeeps
<1> QED BY <1>1, <1>2, <1>3, <1>4, <1>5, <1>6 DEF Next, MainUdsPolling, StartSer

(* Under a memory whose reads succeed a load is completed only when each     *)
(* block of the area that was checked for it was read, once and in order,    *)
(* for any number of blocks and whatever a client asks in between but for a  *)
(* load request that is refused (uds.c:781-830).  Both exceptions are        *)
(* needed: FailedReadEndsLoad shows what a read that fails does, and a       *)
(* request that is refused stores an area of its own (uds.c:645).            *)
THEOREM CompletedMeansAllReadHolds ==
    ASSUME ReadResults \subseteq {TRUE}
    PROVE  HistorySpec => []CompletedMeansAllRead
<1>1. Init /\ ObserveInit => IInv /\ BlocksInv
  BY InitIInv DEF Init, ObserveInit, BlocksInv, CompletedMeansAllRead
<1>2. IInv /\ BlocksInv /\ [Next /\ Observe]_observed => (IInv /\ BlocksInv)'
  <2>1. [Next /\ Observe]_observed => [Next]_vars BY DEF observed
  <2>2. ASSUME BlocksInv, UNCHANGED observed PROVE BlocksInv'
    BY <2>2 DEF observed, vars, session, BlocksInv, CompletedMeansAllRead
  <2> QED BY <2>1, <2>2, IInvStep, BlocksStep
<1>3. BlocksInv => CompletedMeansAllRead BY DEF BlocksInv
<1> QED BY <1>1, <1>2, <1>3, PTL DEF HistorySpec, HistoryInit, HistoryNext
=============================================================================
