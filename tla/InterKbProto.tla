---------------------------- MODULE InterKbProto ----------------------------
(***************************************************************************)
(* The packets of the link between the halves (inter_kb_proto.h): what one *)
(* half packs and the other unpacks.  Payloads are sequences of bytes; a   *)
(* result is the number the function returns with what it leaves in *out.  *)
(***************************************************************************)
EXTENDS Integers, Sequences

Byte == 0..255

Version1 == 1   \* INTER_KB_PROTO_V1
MaxLen == 10    \* CONFIG_INTER_KB_COMM_PROTO_MAX_LEN

KeysType == 1
KbSettingsType == 2
BlStateType == 3
DataTypes == {KeysType, KbSettingsType, BlStateType}

\* KB_BITMAP_BYTECNT, the length of a slave's bitmap
BitmapLen(key_count) == (key_count + 7) \div 8

\* struct kb_settings_image is no shorter than its version and calibrations.
SettingsImageLeast(key_count) == 2 + 6 * key_count

\* inter_kb_proto_new: the packet and its length
New(data_type, data) ==
    CASE Len(data) > MaxLen -> [res |-> -1, packet |-> <<>>]
      [] Len(data) = 0      -> [res |-> -2, packet |-> <<>>]
      [] OTHER              -> [res |-> Len(data) + 2,
                                packet |-> <<Version1, data_type>> \o data]

Refused(code) == [res |-> code, data_type |-> 0, data |-> <<>>]

\* inter_kb_proto_parse: the length of the payload, its type and bytes
Parse(packet) ==
    CASE Len(packet) > MaxLen + 2       -> Refused(-1)
      [] Len(packet) < 2                -> Refused(-2)
      [] packet[1] # Version1           -> Refused(-4)
      [] packet[2] \notin DataTypes     -> Refused(-5)
      [] OTHER -> [res |-> Len(packet) - 2, data_type |-> packet[2],
                   data |-> SubSeq(packet, 3, Len(packet))]

-----------------------------------------------------------------------------
(***************************************************************************)
(* What New packs, Parse unpacks: no payload is cut, and none is refused   *)
(* by the receiver after the sender accepted it.                           *)
(***************************************************************************)
RoundTrip(data_type, data) ==
    New(data_type, data).res > 0 =>
        Parse(New(data_type, data).packet) =
            [res |-> Len(data), data_type |-> data_type, data |-> data]

\* The bitmap of up to 80 keys fits a packet; the settings of two keys do not,
\* so on_settings_update never reaches the slave.
FitsAsUsed(key_count) ==
    /\ key_count \in 1..80 => BitmapLen(key_count) \in 1..MaxLen
    /\ key_count >= 2 => SettingsImageLeast(key_count) > MaxLen

\* TLC evaluates it for short payloads and those around MaxLen.
ASSUME PacketsRoundTrip ==
    \A t \in DataTypes :
        /\ \A n \in 0..3 : \A data \in [1..n -> 0..2] : RoundTrip(t, data)
        /\ \A n \in {MaxLen - 1, MaxLen, MaxLen + 1} :
              RoundTrip(t, [i \in 1..n |-> i])
        /\ \A key_count \in 1..100 : FitsAsUsed(key_count)
=============================================================================
