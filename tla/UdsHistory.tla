----------------------------- MODULE UdsHistory -----------------------------
(* The diagnostic server observed from outside: Uds with history variables   *)
(* for what was asked and answered, and the properties that relate the       *)
(* session to that history.                                                  *)
EXTENDS Uds

VARIABLES
    asked,      \* the request being served, or the last one served
    seedOut,    \* the last answer to security_access was a seed
    wrongKeys,  \* wrong keys answered with IK, that is without locking
    sinceLock,  \* polls since the server last locked itself
    accepted,   \* the area that was checked when the last load was accepted
    undisturbed, \* no load request was refused since then
    blocksRead  \* the blocks read since then, in order

observed == <<vars, asked, seedOut, wrongKeys, sinceLock, accepted, undisturbed,
              blocksRead>>

(* The count of polls stops at Expired, where no property tells values apart *)
Expired == SEC_TIMER + 1

Answered(service, nrcs) ==
    /\ pc = "serve" /\ pc' = "timer" /\ ser.SID = service
    /\ reply' # <<>> /\ reply'[1].nrc \in nrcs

LoadAnswered(nrcs) == Answered(REQUEST_UPLOAD, nrcs) \/ Answered(REQUEST_DOWNLOAD, nrcs)

ObserveInit ==
    /\ asked = [SID |-> UNKOWN_SERVICE, len |-> 0, args |-> <<>>]
    /\ seedOut = FALSE
    /\ wrongKeys = 0
    /\ sinceLock = Expired
    /\ accepted = NoArea
    /\ undisturbed = TRUE
    /\ blocksRead = <<>>

Observe ==
    /\ asked' = IF pc = "receive" /\ pc' = "serve" THEN inbox[1] ELSE asked
    /\ seedOut' = IF Answered(SECURITY_ACCESS, Nrcs \union {"PR"})
                  THEN reply'[1].nrc = "PR" /\ reply'[1].arg = REQ_SEED
                  ELSE seedOut
    /\ wrongKeys' = IF Answered(SECURITY_ACCESS, {"IK"}) THEN wrongKeys + 1 ELSE wrongKeys
    /\ sinceLock' = IF Answered(SECURITY_ACCESS, {"ENOA"}) THEN 0
                    ELSE IF pc = "timer" /\ pc' = "receive" /\ sinceLock < Expired
                    THEN sinceLock + 1 ELSE sinceLock
    /\ accepted' = IF LoadAnswered({"PR"}) THEN loader'.area ELSE accepted
    /\ undisturbed' = \/ LoadAnswered({"PR"})
                      \/ undisturbed /\ ~LoadAnswered(Nrcs)
    /\ blocksRead' = IF LoadAnswered({"PR"}) THEN <<>>
                     ELSE IF Answered(TRANSFER_DATA, {"PR"})
                     THEN Append(blocksRead, [area |-> loader.area, block |-> loader.offset])
                     ELSE blocksRead

HistoryInit == Init /\ ObserveInit
HistoryNext == Next /\ Observe
HistorySpec == HistoryInit /\ [][HistoryNext]_observed

(* The history follows every step, so that fairness of the main loop is      *)
(* fairness of the observed main loop.                                       *)
FairHistorySpec == HistorySpec /\ WF_observed(MainUdsPolling /\ Observe)

-----------------------------------------------------------------------------
(* The server is unlocked only by the right key, sent whole with the request *)
(* that is being served, right after the seed (uds.c:478-606).               *)
UnlockEarned ==
    [][sec_lev' # sec_lev =>
         /\ sec_lev' = "lev_2"
         /\ seedOut
         /\ asked.SID = SECURITY_ACCESS /\ asked.len = 4
         /\ asked.args = <<SEND_KEY, Key(Seed) \div 256, Key(Seed) % 256>>]_observed

(* After the server has locked itself no key is judged, right or wrong,      *)
(* before SEC_TIMER polls have passed (uds.c:462-465, 592-594).              *)
LockoutHonoured ==
    [][Answered(SECURITY_ACCESS, {"IK", "ENOA"}) \/ sec_lev' # sec_lev =>
         sinceLock >= SEC_TIMER]_observed

(* Over the whole life of the server fewer than SEC_ACCESS_FAILED_CNT_MAX    *)
(* wrong keys go without locking it: neither a new seed, nor a request in    *)
(* between, nor the end of a lock gives a client fresh attempts              *)
(* (uds.c:570-600).                                                          *)
WrongKeysLock == wrongKeys < SEC_ACCESS_FAILED_CNT_MAX

(* Under a memory whose reads succeed, a load is completed only when each    *)
(* block of the area that was checked for it was read, once and in order,    *)
(* whatever was asked in between but for a load request that was refused     *)
(* (uds.c:781-830).                                                          *)
CompletedMeansAllRead ==
    loader.status = "LOAD_COMPLETED" /\ undisturbed =>
      blocksRead = [i \in 1 .. LOAD_BLOCK_NUMBER |-> [area |-> accepted, block |-> i - 1]]

(* When a block cannot be read the load is over and must be requested again  *)
(* (the comment at uds.c:821).                                               *)
FailedReadEndsLoad ==
    [][Answered(TRANSFER_DATA, {"GPF"}) => loader'.status = "LOAD_IDLE"]_observed

(* A locked server can be accessed again some time (uds.c:321-324).          *)
LockoutEnds == Timing(sec) ~> (~Timing(sec) \/ ~running)
=============================================================================
