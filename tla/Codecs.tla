------------------------------- MODULE Codecs -------------------------------
(***************************************************************************)
(* What both codecs promise their callers: whatever is written is read     *)
(* back.  The packets are those of packets/, the texts those of base64.rs. *)
(***************************************************************************)
EXTENDS Capture, Base64

CONSTANTS
  Samples,      \* packets
  SampleBytes,  \* sequences of bytes
  Widths        \* letters between two line breaks

ASSUME CodecAssumption ==
  /\ \A p \in Samples : IsPacket(p)
  /\ SampleBytes \subseteq Seq(0..255) /\ Widths \subseteq Nat \ {0}

(* A packet whose parts fit their counts and lengths is itself after the    *)
(* wire, and cut short is read as nothing or as itself, never as another    *)
(* (Packet::parse and the serialize of each packet).                        *)
PacketsRoundTrip == \A p \in Samples : RoundTrip(p)

(* Bytes are themselves after base64, with or without the line breaks of    *)
(* the controller's encoder (base64::encode, base64::decode).               *)
Base64RoundTrip ==
  \A data \in SampleBytes :
    /\ Decode(Encode(data)) = data
    /\ \A width \in Widths : Decode(Wrapped(Encode(data), width)) = data

(* Every packet survives the wire, and base64 survives line breaks.  That is *)
(* said of constants, so it is enough to ask it of one state: no traffic.    *)
CodecsRoundTrip == DOMAIN sent = {} => PacketsRoundTrip /\ Base64RoundTrip
=============================================================================
