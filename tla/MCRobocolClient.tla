--------------------------- MODULE MCRobocolClient ---------------------------
(* Small instances of RobocolClient: what the application calls and what    *)
(* the network delivers, one choice per question asked of the client.       *)
EXTENDS RobocolClient

CONSTANTS a1, a2, s1, s2

OneStamp  == {1}
TwoStamps == {1, 2}
OneAddr   == <<a1>>
TwoAddrs  == <<a1, a2>>

Requests == {"REQUEST_ACTIVE", "REQUEST_CONFIGS", "REQUEST_OPMODES",
             "REQUEST_FRAME", "ACTIVATE", "RESTART"}
AllNames == Requests \cup {"INIT", "NOTE", "STREAM_CHANGE", "BEGIN", "CHUNK"}
NoExtra  == {""}

Op(op)         == [op |-> op]
SendOf(name)   == [op |-> "command", name |-> name, extra |-> ""]
Hello          == [kind |-> "discovery", busy |-> FALSE]
BusyReply      == [kind |-> "discovery", busy |-> TRUE]
Garbage        == [kind |-> "garbage"]
Alive(s)       == [kind |-> "heartbeat", state |-> s]
Telemetry(s)   == [kind |-> "telemetry", state |-> s]
Note(t)        == [kind |-> "notify", name |-> "NOTE", stamp |-> t, extra |-> ""]
Stream(t, on)  == [kind |-> "stream", name |-> "STREAM_CHANGE", stamp |-> t,
                   available |-> on]
FrameBegin(n, len) == [kind |-> "begin", name |-> "BEGIN", stamp |-> 1,
                       num |-> n, length |-> len]
Chunk(n, i, bytes) == [kind |-> "chunk", name |-> "CHUNK", stamp |-> 1,
                       num |-> n, index |-> i, bytes |-> bytes]

(* Sessions: two controllers, one of which may be busy, any packet between,  *)
(* and a camera: a frame of two chunks, one of none, one that is too large,   *)
(* chunks that repeat and do not fit.                                         *)
SessionCalls     == {Op("connect"), Op("disconnect"), Op("gamepad")}
SessionDatagrams == {BusyReply, Garbage, Alive(s1), Telemetry(s1),
                     Stream(1, TRUE), Stream(1, FALSE),
                     FrameBegin(1, 2), FrameBegin(2, 0), FrameBegin(3, 9),
                     Chunk(1, 0, <<"x">>), Chunk(1, 1, <<"x">>),
                     Chunk(1, 1, <<"x", "x">>)}
(* No action reads what the last one put out: of `sent` the properties ask   *)
(* only whether it was anything.                                             *)
SessionView == <<pc, ctrl, receiving, linkVars, queueVars, webcamVars, appPeer,
                 sent = <<>>>>

(* Commands: a controller that acknowledges, or not, what it was sent, now or *)
(* before the link was lost.                                                  *)
CommandCalls     == {SendOf("INIT"), SendOf("ACTIVATE")}
CommandDatagrams == {Hello, Ack("INIT", 1), Ack("ACTIVATE", 1),
                     Ack("REQUEST_CONFIGS", 1)}

(* Liveness: one controller, with a camera, that may fall silent at any       *)
(* moment.                                                                    *)
LivenessNames     == Requests \cup {"STREAM_CHANGE", "BEGIN", "CHUNK", "NOTE"}
LivenessCalls     == {}
LivenessDatagrams == {Note(1), Ack("REQUEST_CONFIGS", 1), Stream(1, TRUE),
                      Stream(1, FALSE), FrameBegin(1, 1), Chunk(1, 0, <<"x">>)}
=============================================================================
