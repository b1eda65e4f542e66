------------------------------- MODULE Capture -------------------------------
(***************************************************************************)
(* The capture decoder (capture/decode): a capture of the traffic between  *)
(* a driver station and a robot controller, decoded frame by frame into    *)
(* datagrams and packets, and what the report makes of them.               *)
(*                                                                         *)
(* The capture sees what crosses the wire as captures do: fragments in any *)
(* order, some twice, some not at all, and cut short if a frame is longer  *)
(* than the snap length.  The containers frames are stored in, link headers *)
(* and the layout of the report are left out; frames that are not UDP only *)
(* change a count that is printed.                                         *)
(***************************************************************************)
EXTENDS Packets, Reassembly

CONSTANTS
  None,
  Traffic,               \* what may be sent: [version, src, dst, sport, dport, packet]
  RcEndpoints,           \* the robot controllers' <<address, port>>
  Ports,                 \* --port: the port that is kept, 0 for any
  Mtu, SnapLens,         \* bytes of IP payload sent and captured in one frame
  Idents,                \* identifications of IP datagrams
  NotifyPrefix,          \* "CMD_NOTIFY"
  MaxSent, MaxCaptured   \* bounds: datagrams sent, frames captured

ASSUME CaptureAssumption ==
  /\ Mtu \in Nat /\ Mtu > 8 /\ Mtu % 8 = 0
  /\ {MaxSent, MaxCaptured} \cup SnapLens \subseteq Nat
  /\ \A m \in Traffic : /\ IsPacket(m.packet)
                        /\ \A n \in {m.sport, m.dport, 8 + Len(Serialize(m.packet))} :
                             n \in Nat /\ n < 65536

(* Telemetry only ever flows from a controller to a station (main.rs:145).  *)
ASSUME ControllerAssumption ==
  \A m \in Traffic :
    /\ m.packet.kind = "telemetry" => <<m.src, m.sport>> \in RcEndpoints
    /\ <<m.src, m.sport>> \in RcEndpoints => <<m.dst, m.dport>> \notin RcEndpoints

VARIABLES
  sent,        \* the datagrams on the wire: message -> identification
  snap,
  captured,    \* history: the fragments captured, <<message, number>>
  pending,     \* fragments waiting: key -> [chunks, total, ts]
  out          \* the datagrams decoded, in the order they were completed

captureVars == <<sent, snap, captured, pending, out>>

-----------------------------------------------------------------------------
(* The stations' side: UDP header, and fragments of at most Mtu bytes.      *)
Udp(m) ==
  LET payload == Serialize(m.packet)
  IN  Bytes16(m.sport) \o Bytes16(m.dport) \o Bytes16(8 + Len(payload)) \o <<0, 0>> \o payload
Body == [m \in Traffic |-> Udp(m)]

FragmentCount(m) == (Len(Body[m]) + Mtu - 1) \div Mtu
Clipped(s)       == SubSeq(s, 1, IF Len(s) < snap THEN Len(s) ELSE snap)
Fragment(m, j) ==
  [src |-> m.src, dst |-> m.dst, ident |-> sent[m], offset |-> Mtu * (j - 1),
   more |-> j < FragmentCount(m), of |-> m,
   body |-> Clipped(SubSeq(Body[m], Mtu * (j - 1) + 1,
                           IF j < FragmentCount(m) THEN Mtu * j ELSE Len(Body[m])))]

(* parse_udp: a length field that fits ends the payload. *)
ParseUdp(ts, f, body, fragmented, of) ==
  LET len == Number(Slice(body, 4, 2))
      end == IF len \in 8..Len(body) THEN len ELSE Len(body)
  IN  IF Len(body) < 8 THEN <<>>
      ELSE <<[ts |-> ts, src |-> f.src, dst |-> f.dst,
              sport |-> Number(Slice(body, 0, 2)), dport |-> Number(Slice(body, 2, 2)),
              packet |-> Parse(SubSeq(body, 9, end)), fragmented |-> fragmented,
              of |-> of]>>

(* handle_v6, and handle_v4 of a datagram in one piece. *)
CaptureWhole(m, ts) ==
  LET f == Fragment(m, 1)
  IN  /\ FragmentCount(m) = 1
      /\ out' = out \o ParseUdp(ts, f, f.body, FALSE, {m})
      /\ UNCHANGED pending

CaptureFragment(m, j, ts) ==
  LET f == Fragment(m, j)
      e == Entry(pending, f, ts)
  IN  /\ m.version = 4 /\ FragmentCount(m) > 1
      /\ pending' = Remaining(pending, f, e)
      /\ out' = IF Complete(e) THEN out \o ParseUdp(e.ts, f, Assembled(e), TRUE, Origins(e))
                ELSE out

(* IPv6 fragments carry another header in front of UDP's, and are ignored.  *)
CaptureIgnored(m) ==
  /\ m.version = 6 /\ FragmentCount(m) > 1
  /\ UNCHANGED <<pending, out>>

CaptureFrame(m, j) ==
  /\ Len(captured) < MaxCaptured
  /\ captured' = Append(captured, <<m, j>>)
  /\ LET ts == Len(captured) + 1
     IN  CaptureWhole(m, ts) \/ CaptureFragment(m, j, ts) \/ CaptureIgnored(m)
  /\ UNCHANGED <<sent, snap>>

CaptureInit ==
  /\ sent \in UNION {[S -> Idents] : S \in {T \in SUBSET Traffic : Cardinality(T) <= MaxSent}}
  /\ snap \in SnapLens
  /\ captured = <<>> /\ pending = [k \in {} |-> NoEntry(0)] /\ out = <<>>

CaptureNext == \E m \in DOMAIN sent : \E j \in 1..FragmentCount(m) : CaptureFrame(m, j)

CaptureSpec == CaptureInit /\ [][CaptureNext]_captureVars

-----------------------------------------------------------------------------
(* The report (main.rs, report.rs), over the datagrams on the port that is  *)
(* asked for, in the order of their first frames.                           *)
OnPort(port) ==
  {i \in DOMAIN out : IF port = 0 THEN out[i].packet # Undecodable
                      ELSE port \in {out[i].sport, out[i].dport}}
Upto(K, i) ==          \* those of K no later than i: sort_by is stable
  {j \in K : out[j].ts < out[i].ts \/ (out[j].ts = out[i].ts /\ j <= i)}
Robocol(port) ==
  LET K == OnPort(port)
  IN  [n \in 1..Cardinality(K) |-> out[CHOOSE i \in K : Cardinality(Upto(K, i)) = n]]

Source(d) == <<d.src, d.sport>>
IsTelemetry(d)    == d.packet.kind = "telemetry"
IsNotification(d) == d.packet.kind = "command" /\ IsPrefix(NotifyPrefix, d.packet.name)
(* Seeded fault: whoever telemetry was sent to. *)
InferRcReceivers(ds) == {<<d.dst, d.dport>> : d \in {x \in Range(ds) : IsTelemetry(x)}}
InferRc(ds) ==
  IF \E d \in Range(ds) : IsTelemetry(d)
  THEN {Source(d) : d \in {x \in Range(ds) : IsTelemetry(x)}}
  ELSE {Source(d) : d \in {x \in Range(ds) : IsNotification(x)}}

Direction(d, rc) ==
  IF Source(d) \in rc THEN "RC->DS"
  ELSE IF <<d.dst, d.dport>> \in rc THEN "DS->RC" ELSE "unlabelled"

(* Commands by name and direction; acknowledgements do not count.            *)
Requests(ds) ==
  {i \in DOMAIN ds : ds[i].packet.kind = "command" /\ ~ds[i].packet.acknowledged}
Row(ds, i) == <<ds[i].packet.name, Direction(ds[i], InferRc(ds))>>
Commands(ds) ==
  [r \in {Row(ds, i) : i \in Requests(ds)} |->
     Cardinality({i \in Requests(ds) : Row(ds, i) = r})]

(* OpMode lists (cmd.rs, observe_opmode_list).  An entry of a list is one    *)
(* byte here: an object with a name, a bare string, or anything else.  One   *)
(* entry that does not fit loses the whole list.                             *)
ObjectEntry == 111
StringEntry == 115
ParseOpModeList(extra) ==
  IF Range(extra) \subseteq {ObjectEntry} \/ Range(extra) \subseteq {StringEntry}
  THEN extra ELSE <<>>

OpModeLists(ds) ==
  {ds[i].packet.extra : i \in {j \in Requests(ds) : ds[j].packet.name = NotifyPrefix}}
(* Seeded fault: entries are added up over the lists.                        *)
JsonEntriesSummed(ds) == MapThenSumSet(Len, OpModeLists(ds))
JsonEntries(ds)   == Max({0} \cup {Len(l) : l \in OpModeLists(ds)})
ParsedEntries(ds) == Max({0} \cup {Len(ParseOpModeList(l)) : l \in OpModeLists(ds)})
ParseLoss(ds)     == ParsedEntries(ds) < JsonEntries(ds)

-----------------------------------------------------------------------------
(* What was decoded from the fragments of one datagram is that datagram,     *)
(* addresses, ports and packet; a frame cut short by the capture may make it *)
(* undecodable but never another packet.                                     *)
SentAs(d, m) ==
  /\ <<d.src, d.sport, d.dst, d.dport>> = <<m.src, m.sport, m.dst, m.dport>>
  /\ d.packet = m.packet
DecodedIsSent ==
  \A d \in Range(out), m \in DOMAIN sent :
    d.of = {m} => SentAs(d, m) \/ (snap < Mtu /\ d.packet = Undecodable)

(* Fragments of two datagrams with one identification are only put together  *)
(* if one of the datagrams left some behind: lost, captured twice, captured  *)
(* after the other's, or cut short.                                          *)
SameKey(m, n) == <<m.src, m.dst, sent[m]>> = <<n.src, n.dst, sent[n]>>
CapturedAt(m, j) == {k \in DOMAIN captured : captured[k] = <<m, j>>}
CapturedOf(m)    == UNION {CapturedAt(m, j) : j \in 1..FragmentCount(m)}
InOneGo(m, n) ==       \* all of m, once, before any of n
  /\ \A j \in 1..FragmentCount(m) : Cardinality(CapturedAt(m, j)) = 1
  /\ \A k \in CapturedOf(m), l \in CapturedOf(n) : k < l
OrderlyReuseIsHarmless ==
  snap >= Mtu =>
    \A d \in Range(out) : \A m, n \in d.of :
      m # n => \E x, y \in DOMAIN sent : /\ x # y /\ SameKey(x, m) /\ SameKey(y, m)
                                        /\ CapturedOf(x) # {} /\ CapturedOf(y) # {}
                                        /\ ~InOneGo(x, y) /\ ~InOneGo(y, x)

(* A datagram whose identification is its own is decoded if every fragment   *)
(* of it was captured, and counted no more often than its rarest fragment.   *)
CountsAreExact ==
  snap >= Mtu =>
    \A m \in DOMAIN sent :
      (m.version = 4 /\ \A n \in DOMAIN sent : SameKey(m, n) => m = n) =>
        LET decoded == Cardinality({i \in DOMAIN out : out[i].of = {m}})
            rarest  == Min({Cardinality(CapturedAt(m, j)) : j \in 1..FragmentCount(m)})
        IN  decoded <= rarest /\ (rarest > 0 => decoded > 0)

(* main.rs:145-148: once telemetry was seen, the endpoints labelled as robot *)
(* controllers are robot controllers, and no row counts a command of the     *)
(* other side, whatever mixed, doubled or foreign datagrams were captured.   *)
SentByRc(d) == Source(d) \in RcEndpoints
RcIsTheController ==
  \A port \in Ports :
    LET ds == Robocol(port)
        rc == InferRc(ds)
    IN  (\E d \in Range(ds) : IsTelemetry(d)) =>
          /\ rc \subseteq RcEndpoints
          /\ \A row \in DOMAIN Commands(ds) :
               row[2] # "unlabelled" =>
                 Commands(ds)[row] <=
                   Cardinality({i \in Requests(ds) :
                                  /\ ds[i].packet.name = row[1]
                                  /\ SentByRc(ds[i]) <=> row[2] = "RC->DS"})

(* The report warns of OpModes lost only if a list was, and always if each   *)
(* list captured was; a list that survives can hide the loss of a shorter.   *)
LossIsShown ==
  \A port \in Ports :
    LET lists == OpModeLists(Robocol(port))
        lost(l) == Len(ParseOpModeList(l)) < Len(l)
    IN  /\ ParseLoss(Robocol(port)) => \E l \in lists : lost(l)
        /\ lists # {} /\ (\A l \in lists : lost(l)) => ParseLoss(Robocol(port))
=============================================================================
