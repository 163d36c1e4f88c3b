------------------------------ MODULE RnetFraming ------------------------------
(***************************************************************************)
(* Bytes become frames: the receiving side of web/russound_connector.py,   *)
(* on a line that hands over any number of bytes at a time, may lose some  *)
(* (a serial overrun) and may be cut and opened again within a frame.      *)
(*                                                                         *)
(* Received checksums are not compared.  A frame is five bytes here; what  *)
(* the parsers find at a fixed offset stands at a fixed position, and each *)
(* byte knows the frame it was sent in.                                    *)
(***************************************************************************)
EXTENDS Naturals, SequencesExt

CONSTANTS
    MaxFrames,    \* bound: frames the hardware sends
    MaxOverruns,  \* bound: runs of bytes the line loses
    MaxCuts       \* bound: lost connections

ASSUME FramingBounds == {MaxFrames, MaxOverruns, MaxCuts} \subseteq Nat

VARIABLES
    line,            \* bytes on their way
    rx,              \* _rx_buffer
    pendingFrames,   \* _pending_frames
    pendingUpdates,  \* _pending_zone_updates
    listener,        \* its thread
    asking,          \* what the call that holds the lock has sent, if any: a read or a set
    heard,           \* what callbacks and reads were given, for which address
    sent, overruns, cuts,
    received, frames, taken,  \* history of the present connector; taken by sets
    damaged            \* history: the frames that lost a byte to an overrun

history == <<received, frames, taken>>
bounds  == <<sent, overruns, cuts>>
framingVars == <<line, rx, pendingFrames, pendingUpdates, listener, asking, heard, bounds, history, damaged>>

Kinds == {"info", "notice"}
Byte(what, n) == [is |-> what, of |-> n]
Bytes(kind, n) == <<Byte("F0", n), Byte("address", n), Byte(kind, n), Byte("value", n), Byte("F7", n)>>

FramingInit ==
    /\ line = <<>> /\ rx = <<>> /\ pendingFrames = <<>> /\ pendingUpdates = <<>>
    /\ listener = "running" /\ asking = "nothing" /\ heard = {}
    /\ sent = 0 /\ overruns = 0 /\ cuts = 0
    /\ received = <<>> /\ frames = <<>> /\ taken = {} /\ damaged = {}

-----------------------------------------------------------------------------
(* The line. *)

Transmit(kind) ==
    /\ sent < MaxFrames /\ sent' = sent + 1
    /\ line' = line \o Bytes(kind, sent')
    /\ UNCHANGED <<rx, pendingFrames, pendingUpdates, listener, asking, heard, overruns, cuts, history, damaged>>

Overrun(i, j) ==
    /\ overruns < MaxOverruns /\ overruns' = overruns + 1
    /\ line' = SubSeq(line, 1, i - 1) \o SubSeq(line, j + 1, Len(line))
    /\ damaged' = damaged \cup {line[k].of : k \in i..j}
    /\ UNCHANGED <<rx, pendingFrames, pendingUpdates, listener, asking, heard, sent, cuts, history>>

-----------------------------------------------------------------------------
(* Frames. *)

FirstFrom(s, i, what) == SelectInSubSeq(s, i, Len(s), LAMBDA b : b.is = what)

\* Mutant of FromStart: the bytes before F0 stay.
FromCursor(s) == s

\* A candidate without F0 is kept as it is.
FromStart(s) == SubSeq(s, Max({1, FirstFrom(s, 1, "F0")}), Len(s))

\* _extract_complete_frames
Extracted(s) ==
    LET from[cursor \in 1..Len(s) + 1] ==
          LET end == FirstFrom(s, cursor, "F7") IN
          IF end = 0 THEN <<>> ELSE <<FromStart(SubSeq(s, cursor, end))>> \o from[end + 1]
    IN  from[1]

LastEnd(s) == SelectLastInSeq(s, LAMBDA b : b.is = "F7")
\* Mutant of Remainder: off by one.
RemainderFromEnd(s) == SubSeq(s, Max({1, LastEnd(s)}), Len(s))
Remainder(s) == SubSeq(s, LastEnd(s) + 1, Len(s))

HasStart(f) == f[1].is = "F0"

\* _parse_power_event checks the whole frame, its length included; _parse_zone_updates
\* of an idle answer checks the head, and takes what stands at the offset of the value.
Notice(f) == HasStart(f) /\ Len(f) = 5 /\ f[2].is = "address" /\ f[3].is = "notice" /\ f[4].is = "value"
IsAnswer(f) == HasStart(f) /\ Len(f) >= 5 /\ f[3].is = "info"
Update(f) == [address |-> f[2], value |-> f[4]]
Parsed(fs) == [i \in DOMAIN fs |-> Update(fs[i])]

\* The frames that are in a set, in their order.
Those(fs, wanted) ==
    LET those[n \in 0..Len(fs)] ==
          IF n = 0 THEN <<>>
          ELSE IF fs[n] \in wanted THEN Append(those[n - 1], fs[n]) ELSE those[n - 1]
    IN  those[Len(fs)]
NoticesOf(fs) == Those(fs, {f \in ToSet(fs) : Notice(f)})
OthersOf(fs)  == Those(fs, {f \in ToSet(fs) : ~Notice(f)})
AnswersOf(fs) == Those(fs, {f \in ToSet(fs) : IsAnswer(f)})

\* The parser looks at the message type before it knows that there is one.
TooShort(f) == HasStart(f) /\ Len(f) = 2

\* The signature of an answer may stand anywhere in the frame, and more than once: a
\* head can be joined to the next frame.
Signatures(f) == {i \in 1..Len(f) - 1 : f[i].is = "address" /\ f[i + 1] = Byte("info", f[i].of)}

-----------------------------------------------------------------------------
(* The connector. *)

\* _read_available_locked: k bytes of the line, then what is complete.
Frames(k) == Extracted(rx \o SubSeq(line, 1, k))
Waiting(k) == pendingFrames \o OthersOf(Frames(k))
UpdatesFound(k) == pendingUpdates \o Parsed(NoticesOf(Frames(k)))

Read(k) ==
    LET chunk == SubSeq(line, 1, k) IN
    /\ line' = SubSeq(line, k + 1, Len(line))
    /\ rx' = Remainder(rx \o chunk)
    /\ received' = received \o chunk
    /\ frames' = frames \o Frames(k)

\* Mutant of Undelivered: cleared before they are delivered.
UndeliveredDropped(news) == <<>>

\* Updates found before a failure stay for the next thread.
Undelivered(news) == news

Listen(k) ==
    /\ listener = "running" /\ asking = "nothing"
    /\ k > 0 \/ pendingFrames # <<>> \/ pendingUpdates # <<>>
    /\ Read(k)
    /\ LET bad == SelectInSeq(Waiting(k), TooShort)
           upTo == IF bad = 0 THEN Len(Waiting(k)) ELSE bad - 1
           news == UpdatesFound(k) \o Parsed(AnswersOf(SubSeq(Waiting(k), 1, upTo)))
       IN  IF bad = 0
           THEN /\ heard' = heard \cup ToSet(news)
                /\ pendingFrames' = <<>> /\ pendingUpdates' = <<>>
                /\ UNCHANGED listener
           ELSE /\ pendingFrames' = SubSeq(Waiting(k), bad + 1, Len(Waiting(k)))
                /\ pendingUpdates' = Undelivered(news)
                /\ listener' = "dead"
                /\ UNCHANGED heard
    /\ UNCHANGED <<asking, taken, bounds, damaged>>

\* Every call of the backend attaches the listener first (_attach_update_listener).
Ask ==
    /\ asking = "nothing" /\ asking' \in {"read", "set"}
    /\ listener' = "running"
    /\ UNCHANGED <<line, rx, pendingFrames, pendingUpdates, heard, bounds, history, damaged>>

\* One of the ten reads of __get_response_message with a signature, which is that of
\* one zone: of the answers that wait, any may be of that zone, or none.
ReadAnswer(k) ==
    /\ asking = "read"
    /\ Read(k)
    /\ pendingUpdates' = UpdatesFound(k)
    /\ \/ /\ k > 0
          /\ pendingFrames' = Waiting(k)
          /\ UNCHANGED <<asking, heard>>
       \/ \E hit \in DOMAIN Waiting(k) : \E at \in Signatures(Waiting(k)[hit]) :
            LET f == Waiting(k)[hit] IN
            /\ pendingFrames' = RemoveAt(Waiting(k), hit)
            /\ asking' = "nothing"
            /\ heard' = heard \cup (IF Len(f) < at + 3 THEN {}
                                    ELSE {[address |-> f[at], value |-> f[at + 2]]})
    /\ UNCHANGED <<taken, listener, bounds, damaged>>

\* A set reads once, without a signature, and takes the first frame there is for the
\* response to it.
ReadAny(k) ==
    /\ asking = "set" /\ asking' = "nothing"
    /\ Read(k)
    /\ pendingUpdates' = UpdatesFound(k)
    /\ IF Waiting(k) = <<>>
       THEN pendingFrames' = <<>> /\ UNCHANGED taken
       ELSE pendingFrames' = Tail(Waiting(k)) /\ taken' = taken \cup {Head(Waiting(k))}
    /\ UNCHANGED <<heard, listener, bounds, damaged>>

StopAsking ==
    /\ asking # "nothing" /\ asking' = "nothing"
    /\ UNCHANGED <<line, rx, pendingFrames, pendingUpdates, listener, heard, bounds, history, damaged>>

\* Mutant of Renewed: the connector is used again.
RenewedKeeping(buffer) == buffer

\* The next connection has a connector of its own.
Renewed(buffer) == <<>>

\* The connection is lost with some of the bytes on their way, and opened again.
Cut(k) ==
    /\ cuts < MaxCuts /\ cuts' = cuts + 1
    /\ line' = SubSeq(line, k + 1, Len(line))
    /\ rx' = Renewed(rx)
    /\ pendingFrames' = <<>> /\ pendingUpdates' = <<>>
    /\ listener' = "running" /\ asking' = "nothing"
    /\ received' = <<>> /\ frames' = <<>> /\ taken' = {}
    /\ UNCHANGED <<heard, sent, overruns, damaged>>

-----------------------------------------------------------------------------
Line == \/ \E kind \in Kinds : Transmit(kind)
        \/ \E i, j \in DOMAIN line : i <= j /\ Overrun(i, j)
        \/ \E k \in 0..Len(line) : Cut(k)

Connector == StopAsking \/ Ask \/ \E k \in 0..Len(line) : Listen(k) \/ ReadAnswer(k) \/ ReadAny(k)

FramingNext == Line \/ Connector

FramingSpec == FramingInit /\ [][FramingNext]_framingVars

-----------------------------------------------------------------------------
(* Properties. *)

\* The reference: a frame is what lies between two ends, from its first F0 on if it has one.
Ends(s) == {i \in DOMAIN s : s[i].is = "F7"}
FrameEndingAt(s, e) ==
    LET since == {i \in DOMAIN s : i <= e /\ \A d \in Ends(s) : d < e => d < i}
        starts == {i \in since : s[i].is = "F0"}
    IN  SubSeq(s, Min(IF starts = {} THEN since ELSE starts), e)
FramesOf(s) == [n \in 1..Cardinality(Ends(s)) |->
                  FrameEndingAt(s, CHOOSE e \in Ends(s) : Cardinality({d \in Ends(s) : d <= e}) = n)]

\* However the bytes of a connection are divided into reads, by whichever thread, the
\* frames taken from them are those of the whole stream, each once and in order
\* (_read_available_locked).
FramesWhateverTheReads == frames = FramesOf(received)

\* A frame that arrived whole is taken exactly as it was sent, unless an unfinished one
\* lies directly before it: damage reaches one frame further and no more.
IntactFramesKept ==
    \A i \in DOMAIN received : \A kind \in Kinds :
        LET frame == Bytes(kind, received[i].of)
            before == SubSeq(received, 1, i - 1)
        IN  /\ IsPrefix(frame, SubSeq(received, i, Len(received)))
            /\ FirstFrom(before, LastEnd(before) + 1, "F0") = 0
            => frame \in ToSet(frames)

\* What a connection carries is understood: the well-formed part of the stream, whatever
\* is lost before it, and nothing twice; what stays buffered holds no end of a frame.
StreamIsUnderstood == LastEnd(rx) = 0 /\ FramesWhateverTheReads /\ IntactFramesKept

\* A value that was given for an address is the one sent with it, unless that frame
\* itself was damaged: being cut off by a lost connection, or following a damaged
\* frame, does not make a frame tell another zone's value.
NoForeignValue ==
    \A u \in heard : u.value = Byte("value", u.address.of) \/ u.address.of \in damaged

\* A frame that tells a value, unless a read may take it for an answer that breaks off:
\* the head of one can be joined to what is left of another.
Due(f) == Notice(f) \/ (IsAnswer(f) /\ \A at \in Signatures(f) : Len(f) >= at + 3)

\* No notification or answer is lost, whoever reads it and whether or not the listener
\* survives the frames around it: it is told, or still kept by the connector.  The one
\* exception: a set took an answer, never a notification, for the response to it.
FramesAreHeard ==
    \A f \in ToSet(frames) : Due(f) =>
        \/ f \in ToSet(pendingFrames)
        \/ Update(f) \in ToSet(pendingUpdates)
        \/ \E u \in heard : u.address \in ToSet(f)
        \/ ~Notice(f) /\ f \in taken

\* Nothing told is another zone's, and nothing is left out but what a set has taken.
HeardAsSent == NoForeignValue /\ FramesAreHeard
=============================================================================
