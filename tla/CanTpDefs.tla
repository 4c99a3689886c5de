----------------------------- MODULE CanTpDefs -----------------------------
(* Vocabulary shared by the two halves of the CAN transport layer            *)
(* (src/src/can_tp.c, can_tp.h): frames, timers, results, segmentation.      *)
EXTENDS Integers, Sequences, Timers

CONSTANTS
    N_DATA_MAX,      \* bytes of a message buffer (120 in the code)
    FC_BS,           \* block size a receiver grants (4)
    SN_MOD,          \* sequence numbers of consecutive frames (16)
    TIMER_B_S,       \* ticks the sender waits for flow control (60)
    TIMER_B_R,       \* ticks the receiver may take to send it (450)
    TIMER_C_R,       \* ticks the receiver waits for a CF (60)
    TIMER_FC_STMIN,  \* STmin a receiver asks for (30)
    Ids,             \* CAN identifiers (N_AI_t)
    Msgs,            \* contents of messages
    DataBytes        \* values the first byte of a segment may have

ASSUME BufferAssumption == N_DATA_MAX \in 8 .. 4095
ASSUME BlockAssumption == FC_BS \in 2 .. 254
ASSUME SequenceAssumption == SN_MOD \in 2 .. 16
ASSUME TimerAssumption == /\ TIMER_B_S \in Nat
                          /\ TIMER_B_R \in Nat
                          /\ TIMER_C_R \in Nat
                          /\ TIMER_FC_STMIN \in 0 .. 127
ASSUME DataAssumption == DataBytes \subseteq 0 .. 255 /\ Msgs # {} /\ Ids # {}

CAN_FRAME_SIZE == 8
MAIN_NETWORK_LAYER_PERIOD == 2
FF_DATA == CAN_FRAME_SIZE - 2       \* data bytes of a first frame
CF_DATA == CAN_FRAME_SIZE - 1       \* data bytes of a consecutive or single frame

\* Flow states of a flow control frame; 3 .. 15 are reserved.
CTS == 0
WT == 1
OVFLW == 2
RESERVED == 3
FC_BS_BAX == 255
FC_STMIN_BAX == 128

FrameTypes == {"SF", "FF", "CF", "FC"}

SendResults == {"N_INVALID", "N_OK", "N_TIMEOUT_Bs", "N_INVALID_FS", "N_BUFFER_OVFLW"}
RcvResults == {"N_INVALID", "N_OK", "N_TIMEOUT_Cr", "N_WRONG_SN", "N_ERROR"}

(* The payload of a frame is the part of a message that starts at byte pos.  *)
(* A peer's message may be longer than N_DATA_MAX.                           *)
Data == [msg : Msgs, pos : 0 .. 4095]

(* A frame is its first byte, split in the type and the low half-byte        *)
(* (SF_DL, the high part of FF_DL, SN or FS), the next two bytes where the   *)
(* code reads them (FF_DL, BS, STmin), its identifier and its payload.       *)
Frame == [type : FrameTypes, lo : 0 .. 15, b1 : 0 .. 255, b2 : 0 .. 255,
          id : Ids, data : Data]

(* FF_DL as rcv_first_frame reads it, whatever the type of the frame is.     *)
FF_DL(f) == f.lo * 256 + f.b1

(* What is kept of a flow control frame, received or to be sent.             *)
FCParam == [is_valid : BOOLEAN, FS : 0 .. 15, BS : 0 .. 255, STmin : 0 .. 255]

(* The sequence number after sn, and two faulty variants: it does not wrap,  *)
(* or wraps to 1.                                                            *)
NextSNUnwrapped(sn) == sn + 1
NextSNFromOne(sn) == IF sn + 1 > SN_MOD - 1 THEN 1 ELSE sn + 1
NextSN(sn) == IF sn + 1 > SN_MOD - 1 THEN 0 ELSE sn + 1

(* A byte that is decremented, and the fault of forgetting it.               *)
DecByteNot(b) == b
DecByte(b) == IF b = 0 THEN 255 ELSE b - 1

(* The consecutive frames a message of a given length needs.                 *)
Consecutives(length) == (length - FF_DATA + CF_DATA - 1) \div CF_DATA
=============================================================================
