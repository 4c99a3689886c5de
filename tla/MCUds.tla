------------------------------- MODULE MCUds -------------------------------
(* Small instances of the diagnostic server for TLC.                         *)
EXTENDS UdsHistory

(* Where the stack is when a load is requested: always at the same place.    *)
OneArea == {"area"}

Range10 == <<0, 1, 1, 1, 1, 1, 1, 1, 1, 1>>

Req(service, bytes) ==
    [SID |-> service, len |-> Len(bytes) + 1,
     args |-> SubSeq(bytes, 1, IF Len(bytes) < 3 THEN Len(bytes) ELSE 3)]

RightKey == <<SEND_KEY, 18, 127>>

(* The ways into a server and out of it: well-formed requests, and for each  *)
(* check one that fails it.                                                  *)
AccessRequests == {Req(SECURITY_ACCESS, <<REQ_SEED>>),
                   Req(SECURITY_ACCESS, RightKey),
                   Req(SECURITY_ACCESS, <<SEND_KEY, 0, 0>>),
                   Req(SECURITY_ACCESS, <<SEND_KEY>>),
                   Req(SECURITY_ACCESS, <<3, 18, 127>>),
                   Req(SECURITY_ACCESS, <<>>)}
LoadRequests == {Req(REQUEST_UPLOAD, Range10), Req(REQUEST_UPLOAD, <<0>>),
                 Req(REQUEST_DOWNLOAD, Range10),
                 Req(TRANSFER_DATA, <<0>>), Req(TRANSFER_DATA, <<1>>),
                 Req(TRANSFER_DATA, <<0, 0>>),
                 Req(REQUEST_TRANSFER_EXIT, <<0>>), Req(REQUEST_TRANSFER_EXIT, <<>>)}
SessionRequests == {Req(SESSION_CONTROL, <<2>>), Req(SESSION_CONTROL, <<4>>),
                    Req(SESSION_CONTROL, <<>>), Req(ROUTINE_CONTROL, <<1>>),
                    Req(ECU_RESET, <<1>>), Req(ECU_RESET, <<>>)}
UnlistedRequests == {Req("other", <<2>>), Req("other", <<>>),
                     Req(UNKOWN_SERVICE, <<1>>)}

Unlock == {Req(SECURITY_ACCESS, <<REQ_SEED>>), Req(SECURITY_ACCESS, RightKey)}

(* Everything about security access, among requests of other services.       *)
AccessAndSession == AccessRequests \union SessionRequests \union UnlistedRequests
                      \union {Req(REQUEST_UPLOAD, Range10)}
(* Everything about loads, what it takes to be let in, and what locks the    *)
(* server.                                                                   *)
LockAndLoad ==
    (LoadRequests \ {Req(REQUEST_TRANSFER_EXIT, <<>>)})
      \union Unlock
      \union {Req(SECURITY_ACCESS, <<SEND_KEY, 0, 0>>), Req(SESSION_CONTROL, <<2>>)}
UnlockAndLoad == Unlock \union LoadRequests
                      \union {Req(SESSION_CONTROL, <<2>>), Req("other", <<2>>)}
Reliable == {TRUE}
=============================================================================
