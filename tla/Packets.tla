------------------------------- MODULE Packets -------------------------------
(***************************************************************************)
(* The six packets of the protocol and their bytes (packets/).  A packet   *)
(* has a kind, the fields of fixed width, by name, and what is of variable *)
(* length.  A parse that fails, for whatever reason, yields Undecodable.   *)
(***************************************************************************)
EXTENDS Wire

Undecodable == [kind |-> "undecodable"]

HeartbeatLayout ==
  [seq |-> <<3, 2>>, timestamp |-> <<5, 8>>, robot_state |-> <<13, 1>>,
   t0 |-> <<14, 8>>, t1 |-> <<22, 8>>, t2 |-> <<30, 8>>]
GamepadLayout ==
  [seq |-> <<3, 2>>, version |-> <<5, 1>>, id |-> <<6, 4>>, timestamp |-> <<10, 8>>,
   left_stick_x |-> <<18, 4>>, left_stick_y |-> <<22, 4>>,
   right_stick_x |-> <<26, 4>>, right_stick_y |-> <<30, 4>>,
   left_trigger |-> <<34, 4>>, right_trigger |-> <<38, 4>>,
   user |-> <<46, 1>>, gamepad_type |-> <<48, 1>>,
   touchpad_finger_1_x |-> <<49, 4>>, touchpad_finger_1_y |-> <<53, 4>>,
   touchpad_finger_2_x |-> <<57, 4>>, touchpad_finger_2_y |-> <<61, 4>>]
DiscoveryLayout ==
  [robocol_version |-> <<3, 1>>, peer_type |-> <<4, 1>>, seq |-> <<5, 2>>,
   sdk_build_month |-> <<7, 1>>, sdk_build_year |-> <<8, 2>>,
   sdk_major_version |-> <<10, 1>>, sdk_minor_version |-> <<11, 1>>]
KeepAliveLayout == [seq |-> <<3, 2>>, id |-> <<5, 1>>]
CommandLayout   == [seq |-> <<3, 2>>, timestamp |-> <<5, 8>>]
TelemetryLayout ==
  [seq |-> <<3, 2>>, timestamp |-> <<5, 8>>, robot_state |-> <<14, 1>>]

(* Enumerations: a byte that stands for no value is read as the default.    *)
Known(fields, f, values, default) ==
  [fields EXCEPT ![f] = IF @[1] \in values THEN @ ELSE <<default>>]
RobotState(fields)  == Known(fields, "robot_state", 0..4, 255)
PeerType(fields)    == Known(fields, "peer_type", 1..3, 0)
GamepadType(fields) == Known(fields, "gamepad_type", 1..4, 0)

(* Bit i of the buttons is set for the i-th button, counting from 0.        *)
Buttons ==
  <<"right_bumper", "left_bumper", "back", "start", "guide", "y", "x", "b", "a",
    "dpad_right", "dpad_left", "dpad_down", "dpad_up", "right_stick_button",
    "left_stick_button", "touchpad", "touchpad_finger_2", "touchpad_finger_1">>
ButtonsAt == 42
Bit == <<1, 2, 4, 8, 16, 32, 64, 128>>
Bitfield(pressed) ==
  LET Set(n, i) == IF n + i \in DOMAIN Buttons /\ Buttons[n + i] \in pressed THEN Bit[i] ELSE 0
      Octet(n)  == Set(n, 1) + Set(n, 2) + Set(n, 3) + Set(n, 4)
                     + Set(n, 5) + Set(n, 6) + Set(n, 7) + Set(n, 8)
  IN  <<Octet(24), Octet(16), Octet(8), Octet(0)>>
Pressed(bytes) ==
  {Buttons[n] : n \in {i \in DOMAIN Buttons :
                         (bytes[4 - (i - 1) \div 8] \div Bit[((i - 1) % 8) + 1]) % 2 = 1}}

-----------------------------------------------------------------------------
SerializeHeartbeat(p) ==
  Put(Filled(Header(1, 34 + Len(p.timezone_id)), HeartbeatLayout, p.fields),
      38, Str(1, p.timezone_id))
ParseHeartbeat(buf) ==
  LET tz == StrAt(buf, 38, 1)
  IN  IF Reaches(buf, HeartbeatLayout) /\ tz.next # Beyond
      THEN [kind |-> "heartbeat", fields |-> RobotState(Fields(buf, HeartbeatLayout)),
            timezone_id |-> tz.text]
      ELSE Undecodable

(* The type of a gamepad is written twice, at 47 and 48. *)
SerializeGamepad(p) ==
  Put(Put(Filled(Header(2, 60), GamepadLayout, p.fields),
          47, p.fields.gamepad_type), ButtonsAt, Bitfield(p.buttons))
ParseGamepad(buf) ==
  IF Reaches(buf, GamepadLayout)
  THEN [kind |-> "gamepad", fields |-> GamepadType(Fields(buf, GamepadLayout)),
        buttons |-> Pressed(Slice(buf, ButtonsAt, 4))]
  ELSE Undecodable

SerializeDiscovery(p) ==
  Filled(Put(Zeros(13), 0, <<3>> \o Bytes16(10)), DiscoveryLayout, p.fields)
ParseDiscovery(buf) ==
  IF Reaches(buf, DiscoveryLayout)
  THEN [kind |-> "discovery", fields |-> PeerType(Fields(buf, DiscoveryLayout))]
  ELSE Undecodable

SerializeKeepAlive(p) == Filled(Header(6, 1), KeepAliveLayout, p.fields)
ParseKeepAlive(buf) ==
  IF Reaches(buf, KeepAliveLayout)
  THEN [kind |-> "keepalive", fields |-> Fields(buf, KeepAliveLayout)]
  ELSE Undecodable

(* An acknowledgement repeats the name and carries no payload. *)
SerializeCommand(p) ==
  LET rest == Str(2, p.name) \o (IF p.acknowledged THEN <<>> ELSE Str(2, p.extra))
  IN  Put(Filled(Header(4, 9 + Len(rest)), CommandLayout, p.fields),
          13, <<IF p.acknowledged THEN 1 ELSE 0>> \o rest)
ParseCommand(buf) ==
  LET ack   == Slice(buf, 13, 1) # <<0>>
      name  == StrAt(buf, 14, 2)
      extra == IF ack THEN [text |-> <<>>, next |-> 0] ELSE StrAt(buf, name.next, 2)
  IN  IF name.next # Beyond /\ extra.next # Beyond
      THEN [kind |-> "command", fields |-> Fields(buf, CommandLayout),
            acknowledged |-> ack, name |-> name.text, extra |-> extra.text]
      ELSE Undecodable

-----------------------------------------------------------------------------
(* Telemetry: a tag, then a count and as many pairs of strings, then a      *)
(* count and as many numbers by name, in the order of their names.          *)
Before(a, b) ==
  \E i \in DOMAIN b : /\ \A j \in 1..(i - 1) : j \in DOMAIN a /\ a[j] = b[j]
                      /\ i \in DOMAIN a => a[i] < b[i]
StringPair(s) == Str(2, s[1]) \o Str(2, s[2])
NumberPairs(numbers) ==
  LET names   == DOMAIN numbers
      name(i) == CHOOSE k \in names : Cardinality({l \in names : Before(l, k)}) = i - 1
  IN  [i \in 1..Cardinality(names) |-> Str(2, name(i)) \o numbers[name(i)]]
Counted(entries) == <<Len(entries) % 256>> \o FlattenSeq(entries)     \* `as u8` wraps

SerializeTelemetry(p) ==
  LET rest == Str(1, p.tag) \o Counted([i \in DOMAIN p.strings |-> StringPair(p.strings[i])])
                \o Counted(NumberPairs(p.numbers))
  IN  Put(Put(Filled(Header(5, 10 + Len(rest)), TelemetryLayout, p.fields),
              13, <<IF p.is_sorted THEN 1 ELSE 0>>), 15, rest)

(* An entry adds to what was read, and moves on to where it ends.          *)
StringAt(buf, sofar) ==
  LET key == StrAt(buf, sofar.next, 2)  value == StrAt(buf, key.next, 2)
  IN  [read |-> Append(sofar.read, <<key.text, value.text>>), next |-> value.next]
NumberAt(buf, sofar) ==
  LET key  == StrAt(buf, sofar.next, 2)
      read == sofar.read
  IN  IF key.next = Beyond \/ ~Holds(buf, key.next, 4)
      THEN [read |-> read, next |-> Beyond]
      ELSE [read |-> [k \in DOMAIN read \cup {key.text} |->
                        IF k = key.text THEN Slice(buf, key.next, 4) ELSE read[k]],
            next |-> key.next + 4]

(* As many entries as the byte at off says. *)
StringsAt(buf, off) ==
  IF off = Beyond \/ ~Holds(buf, off, 1) THEN [read |-> <<>>, next |-> Beyond]
  ELSE LET upto[n \in 0..buf[off + 1]] ==
             IF n = 0 THEN [read |-> <<>>, next |-> off + 1] ELSE StringAt(buf, upto[n - 1])
       IN  upto[buf[off + 1]]
NumbersAt(buf, off) ==
  LET none == [k \in {} |-> <<>>]
  IN  IF off = Beyond \/ ~Holds(buf, off, 1) THEN [read |-> none, next |-> Beyond]
      ELSE LET upto[n \in 0..buf[off + 1]] ==
                 IF n = 0 THEN [read |-> none, next |-> off + 1] ELSE NumberAt(buf, upto[n - 1])
           IN  upto[buf[off + 1]]

ParseTelemetry(buf) ==
  LET tag     == StrAt(buf, 15, 1)
      strings == StringsAt(buf, tag.next)
      numbers == NumbersAt(buf, strings.next)
  IN  IF numbers.next = Beyond THEN Undecodable
      ELSE [kind |-> "telemetry", fields |-> RobotState(Fields(buf, TelemetryLayout)),
            is_sorted |-> Slice(buf, 13, 1) # <<0>>, tag |-> tag.text,
            strings |-> strings.read, numbers |-> numbers.read]

-----------------------------------------------------------------------------
Serialize(p) ==
  CASE p.kind = "heartbeat" -> SerializeHeartbeat(p)
    [] p.kind = "gamepad"   -> SerializeGamepad(p)
    [] p.kind = "discovery" -> SerializeDiscovery(p)
    [] p.kind = "command"   -> SerializeCommand(p)
    [] p.kind = "telemetry" -> SerializeTelemetry(p)
    [] p.kind = "keepalive" -> SerializeKeepAlive(p)

(* Packet::parse: the first byte says which. *)
Parse(buf) ==
  IF buf = <<>> THEN Undecodable
  ELSE CASE buf[1] = 1 -> ParseHeartbeat(buf)
         [] buf[1] = 2 -> ParseGamepad(buf)
         [] buf[1] = 3 -> ParseDiscovery(buf)
         [] buf[1] = 4 -> ParseCommand(buf)
         [] buf[1] = 5 -> ParseTelemetry(buf)
         [] buf[1] = 6 -> ParseKeepAlive(buf)
         [] OTHER      -> Undecodable

(* The packets there are: fields of their width, and text.                  *)
Texts == {s \in Seq(0..255) : Utf8(s)}
HasFields(fields, layout) ==
  /\ fields = [f \in DOMAIN layout |-> fields[f]]
  /\ \A f \in DOMAIN layout : fields[f] \in [1..layout[f][2] -> 0..255]
IsPacket(p) ==
  CASE p.kind = "heartbeat" ->
         /\ p = [kind |-> "heartbeat", fields |-> p.fields, timezone_id |-> p.timezone_id]
         /\ HasFields(p.fields, HeartbeatLayout) /\ RobotState(p.fields) = p.fields
         /\ p.timezone_id \in Texts
    [] p.kind = "gamepad" ->
         /\ p = [kind |-> "gamepad", fields |-> p.fields, buttons |-> p.buttons]
         /\ HasFields(p.fields, GamepadLayout) /\ GamepadType(p.fields) = p.fields
         /\ p.buttons \subseteq Range(Buttons)
    [] p.kind = "discovery" ->
         /\ p = [kind |-> "discovery", fields |-> p.fields]
         /\ HasFields(p.fields, DiscoveryLayout) /\ PeerType(p.fields) = p.fields
    [] p.kind = "keepalive" ->
         p = [kind |-> "keepalive", fields |-> p.fields] /\ HasFields(p.fields, KeepAliveLayout)
    [] p.kind = "command" ->
         /\ p = [kind |-> "command", fields |-> p.fields, acknowledged |-> p.acknowledged,
                 name |-> p.name, extra |-> p.extra]
         /\ HasFields(p.fields, CommandLayout) /\ p.acknowledged \in BOOLEAN
         /\ {p.name, p.extra} \subseteq Texts
    [] p.kind = "telemetry" ->
         /\ p = [kind |-> "telemetry", fields |-> p.fields, is_sorted |-> p.is_sorted,
                 tag |-> p.tag, strings |-> p.strings, numbers |-> p.numbers]
         /\ HasFields(p.fields, TelemetryLayout) /\ RobotState(p.fields) = p.fields
         /\ p.is_sorted \in BOOLEAN /\ p.tag \in Texts /\ p.strings \in Seq(Texts \X Texts)
         /\ IsFiniteSet(DOMAIN p.numbers) /\ DOMAIN p.numbers \subseteq Texts
         /\ p.numbers \in [DOMAIN p.numbers -> [1..4 -> 0..255]]
    [] OTHER -> FALSE

(* What the length prefixes and counts can hold; the payload of an           *)
(* acknowledgement is not sent.                                              *)
Encodable(p) ==
  CASE p.kind = "heartbeat" -> Len(p.timezone_id) < 256
    [] p.kind = "command"   -> /\ Len(p.name) < 65536 /\ Len(p.extra) < 65536
                               /\ p.acknowledged => p.extra = <<>>
    [] p.kind = "telemetry" ->
         /\ Len(p.tag) < 256 /\ Len(p.strings) < 256
         /\ Cardinality(DOMAIN p.numbers) < 256
         /\ \A k \in DOMAIN p.numbers : Len(k) < 65536
         /\ \A i \in DOMAIN p.strings : Len(p.strings[i][1]) < 65536 /\ Len(p.strings[i][2]) < 65536
    [] OTHER                -> TRUE

(* A packet survives the wire if its parts fit their length prefixes, and    *)
(* cut short it reads as nothing, or as itself.                              *)
RoundTrip(p) ==
  LET buf == Serialize(p)
  IN  Encodable(p) =>
        /\ Parse(buf) = p
        /\ \A n \in 0..Len(buf) : Parse(SubSeq(buf, 1, n)) \in {Undecodable, p}
=============================================================================
