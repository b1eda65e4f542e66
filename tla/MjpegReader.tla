----------------------------- MODULE MjpegReader -----------------------------
(***************************************************************************)
(* VideoStream with its connections opened up: how the bytes of an HTTP    *)
(* response become frames (video.rs, stream_once to read_until_crlf).  The *)
(* body is taken out of its chunks, a line at a time until the headers of  *)
(* a part end, then searched for the boundary with a table of fallbacks.   *)
(*                                                                         *)
(* The server sends whole pictures that do not hold the boundary, in any   *)
(* pieces.  It may go away after any byte, and any read may fail: the code *)
(* gives each five seconds.                                                *)
(***************************************************************************)
EXTENDS VideoStream, SequencesExt, FiniteSetsExt

CONSTANTS
  Boundaries,      \* the boundaries a response head may name
  Pictures,        \* what a server may send, each a sequence of bytes
  Header,          \* the header line of a part
  MaxParts,        \* bound: pictures sent and not yet delivered
  MaxPiece,        \* bound: bytes per chunk, or per arrival
  MaxFrameBytes,   \* MAX_FRAME_BYTES
  MaxLine          \* the cap of read_until_crlf

CR   == 13
LF   == 10
CrLf == <<CR, LF>>
Dash == 45

(* A boundary is named in a line of the head that was read under the cap.   *)
ASSUME ReaderAssumption ==
  /\ MaxParts \in Nat /\ MaxPiece \in 1..9     \* a size is one digit
  /\ MaxFrameBytes \in Nat /\ MaxLine \in Nat
  /\ Boundaries \subseteq Seq(0..255) /\ Pictures \subseteq Seq(0..255)
  /\ \A b \in Boundaries :
       ~Contains(b, CR) /\ ~Contains(b, LF) /\ Len(b) + 3 <= MaxLine
  /\ Header \in Seq(0..255) /\ Len(Header) + 2 <= MaxLine
  /\ ~Contains(Header, LF) /\ \E i \in DOMAIN Header : Header[i] # CR

VARIABLES
  link,        \* the TCP connection: "none", "up" or "closed" by the server
  delim,       \* "--" and the boundary of the response head
  chunked,     \* whether the head says the body comes in chunks
  left, wire,  \* bytes of the body yet to be sent; sent and not yet read
  remaining,   \* ChunkedReader: bytes left in the chunk,
  done,        \*   and whether the last one was seen
  buf,         \* BufReader: bytes read and not yet looked at
  reading,     \* "first", "headers", "body" or "rest" (of the boundary's line)
  line,        \* the line so far
  matched, out,\* read_until_delim: bytes of delim matched, bytes before them
  taken,       \* history: the bytes searched in this part
  pictures,    \* history: what the server sent and is yet to be delivered
  fresh,       \* history: the frame delivered since the flag was looked at
  failed       \* history: a read failed

served    == <<link, delim, chunked, left, pictures>>
chunks    == <<wire, remaining, done>>
search    == <<matched, out, taken>>
conn      == <<served, chunks, buf, reading, line, search, fresh, failed>>
mjpegVars == <<videoVars, conn>>

Drop(s, n) == SubSeq(s, n + 1, Len(s))
Occurs(s, t) == \E i \in 0..(Len(t) - Len(s)) : SubSeq(t, i + 1, i + Len(s)) = s

-----------------------------------------------------------------------------
(* ChunkedReader reads a size line, blank ones before it skipped, unless it *)
(* is inside a chunk; then data; then the CRLF that ends the chunk.         *)
Digits   == {i \in DOMAIN wire : wire[i] \notin {CR, LF}}
LineEnds == {j \in DOMAIN wire : wire[j] = LF /\ \E i \in Digits : i < j}
HasSize  == remaining > 0 \/ LineEnds # {}
Start    == IF remaining > 0 THEN 0 ELSE Min(LineEnds)
BadSize  == remaining = 0 /\ (Start # Min(Digits) + 2 \/ wire[Min(Digits)] \notin 48..57)
Size     == IF remaining > 0 THEN remaining ELSE wire[Min(Digits)] - 48

-----------------------------------------------------------------------------
(* The server. *)
Part(picture, tail) ==
  Header \o CrLf \o CrLf \o picture \o CrLf \o delim \o tail \o CrLf
Chunk(bytes) == <<48 + Len(bytes)>> \o CrLf \o bytes \o CrLf

NextPicture ==
  /\ link = "up" /\ left = <<>> /\ Len(pictures) < MaxParts
  /\ \E p \in Pictures, tail \in {<<>>, <<Dash, Dash>>} :
       /\ ~Occurs(delim, p)
       /\ pictures' = Append(pictures, p) /\ left' = Part(p, tail)
  /\ UNCHANGED <<videoVars, link, delim, chunked, chunks, buf, reading, line,
                 search, fresh, failed>>

ServerSends ==
  /\ link = "up" /\ left # <<>>
  /\ IF chunked THEN ~HasSize ELSE wire = <<>>
  /\ \E n \in 1..Min({MaxPiece, Len(left)}) :
       LET piece == SubSeq(left, 1, n)
       IN  /\ wire' = wire \o IF chunked THEN Chunk(piece) ELSE piece
           /\ left' = Drop(left, n)
  /\ UNCHANGED <<videoVars, link, delim, chunked, pictures, remaining, done, buf,
                 reading, line, search, fresh, failed>>

ServerEnds ==
  /\ link = "up" /\ left = <<>> /\ link' = "closed"
  /\ wire' = wire \o IF chunked THEN Chunk(<<>>) ELSE <<>>
  /\ UNCHANGED <<videoVars, delim, chunked, left, pictures, remaining, done, buf,
                 reading, line, search, fresh, failed>>

(* What has not arrived by then never does. *)
ServerGoesAway ==
  /\ link = "up" /\ link' = "closed"
  /\ \E n \in 0..Len(wire) :
       wire' = SubSeq(wire, 1, n) /\ left' = Drop(wire, n) \o left
  /\ left' # <<>>
  /\ UNCHANGED <<videoVars, delim, chunked, pictures, remaining, done, buf,
                 reading, line, search, fresh, failed>>

-----------------------------------------------------------------------------
Wanting == link # "none" /\ pc \in {"open", "part"} /\ buf = <<>>

FillPlain ==
  /\ ~chunked /\ wire # <<>>
  /\ buf' = wire /\ wire' = <<>> /\ UNCHANGED <<remaining, done>>

ChunkTail(n) == IF n = Size THEN 2 ELSE 0

FillFromChunk ==
  /\ chunked /\ ~done /\ HasSize /\ ~BadSize
  /\ \E n \in 1..Size :
       /\ Start + n + ChunkTail(n) <= Len(wire)
       /\ buf' = SubSeq(wire, Start + 1, Start + n)
       /\ wire' = Drop(wire, Start + n + ChunkTail(n))
       /\ remaining' = Size - n
  /\ UNCHANGED done

LastChunk ==
  /\ chunked /\ ~done /\ HasSize /\ ~BadSize /\ Size = 0
  /\ done' = TRUE /\ wire' = Drop(wire, Start)
  /\ UNCHANGED <<buf, remaining>>

Fill ==
  /\ Wanting /\ (FillPlain \/ FillFromChunk \/ LastChunk)
  /\ UNCHANGED <<videoVars, served, reading, line, search, fresh, failed>>

(* A failing read, after it has consumed so many bytes, leaves so many of   *)
(* the chunk.  Data of a chunk whose CRLF does not come is lost.            *)
FailPoints ==
  IF ~chunked THEN {<<0, remaining>>}
  ELSE IF ~HasSize THEN {<<k, 0>> : k \in 0..Len(wire)}
  ELSE IF BadSize THEN {<<k, 0>> : k \in 0..Start}
  ELSE {<<k, 0>> : k \in 0..(Start - 1)}
         \cup IF Size = 0 THEN {}
              ELSE {<<Start, Size>>, <<Start + Size, 0>>, <<Start + Size + 1, 0>>}

AtEof == buf = <<>> /\ IF chunked THEN done ELSE link = "closed" /\ wire = <<>>

ReadFails ==
  /\ Wanting /\ ~AtEof /\ ~done
  /\ \E p \in FailPoints : /\ p[1] <= Len(wire)
                           /\ wire' = Drop(wire, p[1]) /\ remaining' = p[2]
  /\ failed' = TRUE
  /\ UNCHANGED <<served, done, buf>>

-----------------------------------------------------------------------------
(* A connection whose head has status 200 and names a boundary; the others  *)
(* are OpenFails, as is a host that does not answer.                        *)
NoConnection ==
  /\ link = "none" /\ delim = <<>> /\ chunked = FALSE /\ left = <<>> /\ wire = <<>>
  /\ remaining = 0 /\ done = FALSE /\ buf = <<>> /\ reading = "first"
  /\ line = <<>> /\ matched = 0 /\ out = <<>> /\ taken = <<>>
  /\ pictures = <<>> /\ fresh = <<>> /\ failed = FALSE

NotServed == OpenFails /\ link = "none" /\ UNCHANGED conn

Connect ==
  /\ pc = "open" /\ link = "none" /\ link' = "up"
  /\ \E b \in Boundaries : delim' = <<Dash, Dash>> \o b
  /\ left' = delim' \o CrLf
  /\ chunked' \in BOOLEAN
  /\ UNCHANGED <<videoVars, pictures, chunks, buf, reading, line, search, fresh, failed>>

HangUp ==
  /\ Report
  /\ link' = "none" /\ delim' = <<>> /\ chunked' = FALSE /\ left' = <<>> /\ wire' = <<>>
  /\ remaining' = 0 /\ done' = FALSE /\ buf' = <<>> /\ reading' = "first"
  /\ line' = <<>> /\ matched' = 0 /\ out' = <<>> /\ taken' = <<>>
  /\ pictures' = <<>> /\ fresh' = <<>> /\ failed' = FALSE

-----------------------------------------------------------------------------
(* read_header_line: up to a line feed, the cap or the end of the stream.   *)
Blank(l)    == \A i \in DOMAIN l : l[i] \in {CR, LF}
EndsLine(b) == b = LF \/ Len(line) >= MaxLine

WholeLine == IF buf = <<>> THEN line ELSE Append(line, Head(buf))
LineComplete ==
  /\ \/ buf # <<>> /\ EndsLine(Head(buf)) /\ buf' = Tail(buf)
     \/ AtEof /\ line # <<>> /\ UNCHANGED buf
  /\ UNCHANGED <<served, chunks, failed>>
LineMissing == AtEof /\ line = <<>> /\ UNCHANGED <<served, chunks, buf, failed>>
NoLine      == ReadFails \/ LineMissing

InLine ==
  /\ (pc = "open" /\ link # "none") \/ (pc = "part" /\ reading # "body")
  /\ buf # <<>> /\ ~EndsLine(Head(buf))
  /\ line' = Append(line, Head(buf)) /\ buf' = Tail(buf)
  /\ UNCHANGED <<videoVars, served, chunks, reading, search, fresh, failed>>

FirstBoundary ==
  /\ Open /\ link # "none" /\ LineComplete
  /\ reading' = "headers" /\ line' = <<>>
  /\ UNCHANGED <<search, fresh>>

NoFirstBoundary ==
  /\ OpenFails /\ link # "none" /\ NoLine
  /\ UNCHANGED <<reading, line, search, fresh>>

NextPart ==
  /\ Check
  /\ pictures' = SubSeq(pictures, 1 + Len(fresh), Len(pictures)) /\ fresh' = <<>>
  /\ UNCHANGED <<link, delim, chunked, left, chunks, buf, reading, line, search,
                 failed>>

(* The headers of a part, of which only the blank line at their end counts. *)
HeaderLine ==
  /\ pc = "part" /\ reading = "headers" /\ LineComplete
  /\ reading' = IF Blank(WholeLine) THEN "body" ELSE "headers"
  /\ line' = <<>>
  /\ UNCHANGED <<videoVars, search, fresh>>

NoHeader ==
  /\ PartFails /\ reading = "headers" /\ NoLine
  /\ UNCHANGED <<reading, line, search, fresh>>

-----------------------------------------------------------------------------
(* kmp_failure: for each prefix of d, the length of the longest other one   *)
(* it ends with.                                                            *)
Failure(d) ==
  LET f[i \in DOMAIN d] ==
        IF i = 1 THEN 0
        ELSE LET longer[k \in 0..(i - 1)] ==
                   IF d[i] = d[k + 1] THEN k + 1
                   ELSE IF k = 0 THEN 0 ELSE longer[f[k]]
             IN  longer[f[i - 1]]
  IN  f

(* read_until_delim on one more byte: what is matched then, and the bytes   *)
(* that turn out not to be the boundary's.                                  *)
(* Seeded fault: a mismatch starts over.                                    *)
ScanAfresh(b) ==
  IF b = delim[matched + 1] THEN [matched |-> matched + 1, passed |-> <<>>]
  ELSE [matched |-> 0, passed |-> SubSeq(delim, 1, matched) \o <<b>>]
Scan(b) ==
  LET f == Failure(delim)
      from[k \in 0..(Len(delim) - 1)] ==
        IF b = delim[k + 1] THEN [matched |-> k + 1, passed |-> <<>>]
        ELSE IF k = 0 THEN [matched |-> 0, passed |-> <<b>>]
        ELSE LET r == from[f[k]]
             IN  [r EXCEPT !.passed = SubSeq(delim, 1, k - f[k]) \o @]
  IN  from[matched]

(* Seeded faults: the cap is one byte short; there is none. *)
TooLongByOne(bytes) == Len(bytes) >= MaxFrameBytes
TooLongNever(bytes) == FALSE
TooLong(bytes) == Len(bytes) > MaxFrameBytes

(* Seeded fault: the line break before the boundary stays in the picture.   *)
Whole(bytes) == bytes
Trimmed(bytes) ==
  IF IsSuffix(CrLf, bytes) THEN SubSeq(bytes, 1, Len(bytes) - 2) ELSE bytes

InBody == pc = "part" /\ reading = "body"
Searching ==
  /\ InBody /\ buf # <<>> /\ buf' = Tail(buf)
  /\ taken' = Append(taken, Head(buf))
  /\ matched' = Scan(Head(buf)).matched /\ out' = out \o Scan(Head(buf)).passed
  /\ UNCHANGED <<served, chunks, line, fresh, failed>>

BodyByte ==
  /\ Searching /\ matched' < Len(delim) /\ ~TooLong(out')
  /\ UNCHANGED <<videoVars, reading>>

Boundary ==
  /\ Searching /\ matched' = Len(delim) /\ reading' = "rest"
  /\ UNCHANGED videoVars

OverCap == PartFails /\ Searching /\ TooLong(out') /\ UNCHANGED reading

BodyEnds ==
  /\ PartFails /\ InBody
  /\ ReadFails \/ (AtEof /\ UNCHANGED <<served, chunks, buf, failed>>)
  /\ UNCHANGED <<reading, line, search, fresh>>

(* What is left of the boundary's line is read, and the frame delivered     *)
(* whether that read succeeds or fails.                                     *)
Deliver ==
  /\ Frame /\ reading = "rest" /\ (LineComplete \/ NoLine)
  /\ fresh' = IF receiving THEN <<Trimmed(out)>> ELSE <<>>
  /\ reading' = "headers" /\ line' = <<>>
  /\ matched' = 0 /\ out' = <<>> /\ taken' = <<>>

-----------------------------------------------------------------------------
MjpegInit == VideoInit /\ NoConnection

Owner  == (SetStop \/ DropEvents) /\ UNCHANGED conn
Server == NextPicture \/ ServerSends \/ ServerEnds \/ ServerGoesAway
Reader ==
  \/ (Loop \/ Nap \/ Wake) /\ UNCHANGED conn
  \/ NotServed \/ Connect \/ HangUp
  \/ Fill \/ InLine \/ FirstBoundary \/ NoFirstBoundary
  \/ NextPart \/ HeaderLine \/ NoHeader
  \/ BodyByte \/ Boundary \/ OverCap \/ BodyEnds \/ Deliver

MjpegNext == Owner \/ Server \/ Reader

(* The thread is scheduled, and a read that finds nothing times out.        *)
MjpegSpec == MjpegInit /\ [][MjpegNext]_mjpegVars /\ WF_mjpegVars(Reader)
-----------------------------------------------------------------------------
(* Every frame delivered is the next picture sent, whole, in whatever       *)
(* pieces it came and wherever the stream ended; provided that no read      *)
(* failed before.                                                           *)
FramesAreServed == [][~failed => IsPrefix(fresh', pictures')]_mjpegVars

(* Left alone, it gives up only a stream that has ended, all that was sent  *)
(* in whole having been delivered, or for a picture over the cap.           *)
NothingIsMissed ==
  pc = "report" /\ link # "none" /\ receiving /\ ~stop /\ ~failed =>
    \/ AtEof /\ (left = <<>> => fresh = pictures)
    \/ pictures # <<>> /\ Len(Head(pictures) \o CrLf) > MaxFrameBytes

(* The search never loses its place: what it passed and what it holds       *)
(* matched are the bytes it took, and it holds the longest match there is.  *)
SearchIsExact ==
  InBody =>
    /\ taken = out \o SubSeq(delim, 1, matched)
    /\ \A k \in 0..Len(delim) : IsSuffix(SubSeq(delim, 1, k), taken) => k <= matched

(* A stream without a boundary takes no more memory than the cap.           *)
PartIsBounded == pc = "part" => Len(out) <= MaxFrameBytes

(* video.rs:3-4: the client "pulls out each JPEG frame, and hands the raw   *)
(* bytes to the caller"; video.rs:153: "Past the response head, a read      *)
(* error means the stream dropped".                                         *)
EachFrameIsServed == IsPrefix(fresh, pictures)
=============================================================================
