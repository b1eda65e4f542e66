------------------------------ MODULE MCCapture ------------------------------
(* Captures of a stand-in controller and a driver station on one machine, of *)
(* a name server next to them, and every kind of packet and text for the     *)
(* codecs.                                                                    *)
EXTENDS Codecs

Ascii(s) == \A b \in Range(s) : b < 128

RcPort  == 20884
DsPort  == 5000
DnsPort == 53
Loopback == "lo"

Long(n)    == <<0, 0, 0, 0, 0, 0, 1, n>>
Float(n)   == <<191, n, 0, 255>>
SeqAt      == [seq |-> <<1, 2>>, timestamp |-> Long(3)]
Command(name, extra) ==
  [kind |-> "command", fields |-> SeqAt, acknowledged |-> FALSE,
   name |-> name, extra |-> extra]
AckOf(c) == [c EXCEPT !.acknowledged = TRUE, !.extra = <<>>]
Telemetry(strings, numbers) ==
  [kind |-> "telemetry", fields |-> [seq |-> <<0, 9>>, timestamp |-> Long(4), robot_state |-> <<2>>],
   is_sorted |-> TRUE, tag |-> <<>>, strings |-> strings, numbers |-> numbers]
NoNumbers == [k \in {} |-> <<>>]
Discovery(type) ==
  [kind |-> "discovery",
   fields |-> [robocol_version |-> <<124>>, peer_type |-> <<type>>, seq |-> <<2, 1>>,
               sdk_build_month |-> <<7>>, sdk_build_year |-> <<7, 234>>,
               sdk_major_version |-> <<11>>, sdk_minor_version |-> <<2>>]]
KeepAlive == [kind |-> "keepalive", fields |-> [seq |-> <<0, 5>>, id |-> <<9>>]]

(* "N" stands for CMD_NOTIFY, "n" for a request.                              *)
Notify == <<78>>
List(entries) == Command(Notify, entries)
FromRc(packet) == [version |-> 4, src |-> Loopback, dst |-> Loopback,
                   sport |-> RcPort, dport |-> DsPort, packet |-> packet]
ToRc(packet)   == [FromRc(packet) EXCEPT !.sport = DsPort, !.dport = RcPort]
SomeTraffic ==
  { FromRc(Telemetry(<<>>, NoNumbers)),
    FromRc(List(<<111, 111>>)), FromRc(List(<<115>>)), FromRc(List(<<111, 115, 111, 111, 111, 111>>)),
    ToRc(AckOf(List(<<111, 111>>))), ToRc(Command(<<110>>, <<1>>)),
    [ToRc(Discovery(1)) EXCEPT !.version = 6],
    [FromRc(KeepAlive) EXCEPT !.sport = DnsPort] }
Endpoints == {<<Loopback, RcPort>>}

-----------------------------------------------------------------------------
(* Packets for the codecs: every kind, ends of each range, and one more than *)
(* a count holds.                                                            *)
Heartbeat(state, tz) ==
  [kind |-> "heartbeat",
   fields |-> [seq |-> <<255, 255>>, timestamp |-> Long(1), robot_state |-> <<state>>,
               t0 |-> Long(2), t1 |-> Long(3), t2 |-> Long(4)],
   timezone_id |-> tz]
Gamepad(type, buttons) ==
  [kind |-> "gamepad", buttons |-> buttons,
   fields |-> [seq |-> <<0, 99>>, version |-> <<5>>, id |-> <<255, 255, 255, 254>>,
               timestamp |-> Long(7), left_stick_x |-> Float(1), left_stick_y |-> Float(2),
               right_stick_x |-> Float(3), right_stick_y |-> Float(4),
               left_trigger |-> Float(5), right_trigger |-> Float(6), user |-> <<2>>,
               gamepad_type |-> <<type>>, touchpad_finger_1_x |-> Float(7),
               touchpad_finger_1_y |-> Float(8), touchpad_finger_2_x |-> Float(9),
               touchpad_finger_2_y |-> Float(10)]]
Text(n)  == [i \in 1..n |-> 65]
Pairs(n) == [i \in 1..n |-> <<<<>>, <<>>>>]
SomePackets ==
  {m.packet : m \in SomeTraffic}
    \cup {Heartbeat(s, Text(n)) : s \in {255} \cup 0..4, n \in {0, 3, 255}}
    \cup {Gamepad(t, {b}) : t \in 0..4, b \in Range(Buttons)}
    \cup {Gamepad(0, {}), Gamepad(0, Range(Buttons))}
    \cup {Discovery(t) : t \in 0..3}
    \cup {Command(Text(300), Text(n)) : n \in {0, 255, 256}}
    \cup {Telemetry(Pairs(n), NoNumbers) : n \in {1, 60}}
    \cup {Telemetry(<<<<Text(2), Text(1)>>, <<Text(1), Text(2)>>>>,
                    [k \in {<<66>>, <<65, 66>>, <<65>>} |-> Float(k[1])])}

(* Bytes for base64: up to four, with line breaks anywhere.                  *)
Bytes64   == {0, 3, 77, 252, 255}
SomeBytes == BoundedSeq(Bytes64, 4)
=============================================================================
