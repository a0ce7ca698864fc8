----------------------------- MODULE TunnelBase -----------------------------
(***************************************************************************)
(* What tunnel gateways and tunnel endpoints share: the sizes of a tunnel  *)
(* data message, the blocks a gateway is given and the fragments that      *)
(* tunnel data messages carry (src/src/core/tunnel/TunnelBase.h).          *)
(* Payloads are byte ranges: off and size of a fragment say which bytes of *)
(* the I2NP message msgID it carries.                                      *)
(***************************************************************************)
EXTENDS Naturals, Sequences

CONSTANTS
  TUNNEL_DATA_MAX_PAYLOAD_SIZE,
  I2NP_MAX_MESSAGE_SIZE,
  MsgIDs,               \* message IDs in use; 0 is "not presented"
  Lengths,              \* lengths of I2NP messages, with their header
  DeliveryTypes         \* which delivery instructions blocks have

\* "Self" is router delivery to the endpoint's own router.
TunnelDeliveryType == {"Local", "Tunnel", "Router", "Self"}

\* Flag byte, tunnel ID and router hash.
DeliveryInstructions(type) ==
  CASE type = "Local" -> 1
    [] type = "Tunnel" -> 1 + 4 + 32
    [] OTHER -> 1 + 32

FollowOnInstructions == 7       \* flag, message ID, size
FragmentInstructions == 6       \* message ID, size

ASSUME TunnelSizes ==
  /\ TUNNEL_DATA_MAX_PAYLOAD_SIZE \in Nat
  /\ TUNNEL_DATA_MAX_PAYLOAD_SIZE > DeliveryInstructions("Tunnel") + FragmentInstructions
  /\ I2NP_MAX_MESSAGE_SIZE \in Nat
  /\ MsgIDs \subseteq Nat
  /\ Lengths \subseteq Nat \ {0}
  /\ DeliveryTypes \subseteq TunnelDeliveryType

TunnelMessageBlock == [msgID: MsgIDs, len: Lengths, type: DeliveryTypes]

\* num 0 is a first fragment; one that is also the last is a whole message.
Fragment == [msgID: Nat, num: Nat, last: BOOLEAN, off: Nat, size: Nat,
             type: TunnelDeliveryType]
=============================================================================
