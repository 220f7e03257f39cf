---------------------------- MODULE RecordViewer ----------------------------
(***************************************************************************)
(* RecordWriter: messages are recorded into one file after another.  A     *)
(* file is a sequence of sections: a channel, the header and the body of a *)
(* chunk of messages, and at the end the index.  When the messages of a    *)
(* file span more than an interval or have more than a size, the file is   *)
(* closed and the next one opened, with the channels known so far.         *)
(*                                                                         *)
(* The calls are serialized by mutex_, so each is one step.  The flush     *)
(* thread of the file writer, which RecordFileWriter models, is taken to   *)
(* have written a full chunk before the next message comes.  All messages  *)
(* have size one and a time above zero, 0 being "not set" in the code.     *)
(*                                                                         *)
(* RecordViewer over the files of a RecordWriter, one RecordReader each:   *)
(* an iteration fetches the messages of one time window after another from *)
(* all readers into a buffer ordered by time and hands them out.  A reader *)
(* goes through the sections of its file; it stops inside a chunk, or      *)
(* after the header of a chunk, that begins beyond the window, and goes on *)
(* from there in a later window.                                           *)
(*                                                                         *)
(* One iterator runs from begin() to the end; a step is a turn of one of   *)
(* the loops of FillBuffer, ReadMessage and ReadNextChunk.                 *)
(***************************************************************************)
EXTENDS Integers, Sequences, FiniteSets, FiniteSetsExt, SequencesExt, TLC

CONSTANTS
    Channels,          \* names of channels
    Times,             \* times of messages
    InOrder,           \* whether messages come in the order of their times
    SegmentInterval, SegmentSize,   \* limits of a file, 0 for none
    ChunkInterval, ChunkSize,       \* limits of a chunk, 0 for none
    MayFail,           \* whether opening a further file may fail
    MaxMessages        \* bound on the messages written

TimesAssumption == Times \subseteq Nat \ {0} /\ {InOrder, MayFail} \subseteq BOOLEAN
LimitsAssumption ==
    {SegmentInterval, SegmentSize, ChunkInterval, ChunkSize, MaxMessages} \subseteq Nat

VARIABLES
    is_opened,            \* is_opened_
    file,                 \* the file writer in use
    files,                \* the files completed
    segment_raw_size,     \* segment_raw_size_
    segment_begin_time,   \* segment_begin_time_
    number,               \* channel_message_number_map_, as far as defined
    written,              \* history: the messages given to WriteMessage
    accepted,             \* history: those for which it returned true
    crashed               \* whether WriteMessage dereferenced a null chunk

writerVars ==
    <<is_opened, file, files, segment_raw_size, segment_begin_time, number, written, accepted,
      crashed>>

ChannelSection(c) == [type |-> "channel", name |-> c]
IndexSection == [type |-> "index"]

\* Open and WriteHeader of a RecordFileWriter, and a channel section for each
\* of the channels; ok: whether it could be opened.  chunk: chunk_active_.
NewFile(ok, channels) ==
    [ok |-> ok, sections |-> [i \in 1 .. Cardinality(channels) |-> ChannelSection(SetToSeq(channels)[i])],
     begin |-> 0, end |-> 0, chunk |-> <<>>]

Init ==
    /\ is_opened = FALSE
    /\ file = NewFile(FALSE, {}) /\ files = <<>>
    /\ segment_raw_size = 0 /\ segment_begin_time = 0
    /\ number = [c \in {} |-> 0]
    /\ written = <<>> /\ accepted = {} /\ crashed = FALSE

-----------------------------------------------------------------------------
ChunkBegin(ms) == Min({ms[i].time : i \in DOMAIN ms})
ChunkEnd(ms) == Max({ms[i].time : i \in DOMAIN ms})

\* RecordFileWriter::WriteMessage: the chunk with the new message m is full.
ChunkFull(ms, m) ==
    \/ ChunkInterval > 0 /\ m.time - ChunkBegin(ms) > ChunkInterval
    \/ ChunkSize > 0 /\ Len(ms) > ChunkSize

\* RecordFileWriter::WriteChunk, and the chunk is cleared.
WriteChunk(f) ==
    [f EXCEPT !.sections = @ \o <<[type |-> "header", begin |-> ChunkBegin(f.chunk), end |-> ChunkEnd(f.chunk)],
                                  [type |-> "body", messages |-> f.chunk]>>,
              !.begin = IF @ = 0 THEN ChunkBegin(f.chunk) ELSE @,
              !.end = ChunkEnd(f.chunk),
              !.chunk = <<>>]

\* RecordFileWriter::WriteMessage.
AddMessage(f, m) ==
    LET g == [f EXCEPT !.chunk = Append(@, m)]
    IN  IF ChunkFull(g.chunk, m) THEN WriteChunk(g) ELSE g

\* RecordFileWriter::Close: the last chunk, the index and the header.
Closed(f) ==
    LET g == IF f.chunk = <<>> THEN f ELSE WriteChunk(f)
    IN  [g EXCEPT !.sections = Append(@, IndexSection)]

\* The files once f is closed, if it was opened at all.
AndClosed(f) == IF f.ok THEN Append(files, Closed(f)) ELSE files

-----------------------------------------------------------------------------
Open ==
    /\ ~is_opened /\ files = <<>> /\ written = <<>>
    /\ is_opened' = TRUE
    /\ file' = NewFile(TRUE, {})
    /\ UNCHANGED <<files, segment_raw_size, segment_begin_time, number, written, accepted, crashed>>

WriteChannel(c) ==
    /\ is_opened /\ ~crashed /\ c \notin DOMAIN number
    /\ number' = [d \in DOMAIN number \cup {c} |-> IF d = c THEN 0 ELSE number[d]]
    /\ file' = [file EXCEPT !.sections = Append(@, ChannelSection(c))]
    /\ UNCHANGED <<is_opened, files, segment_raw_size, segment_begin_time, written, accepted, crashed>>

\* The file with its last message is beyond a limit.
NeedsSplit(raw_size, begin_time, m) ==
    \/ SegmentInterval > 0 /\ m.time - begin_time > SegmentInterval
    \/ SegmentSize > 0 /\ raw_size > SegmentSize

\* SplitOutfile: the new file.  When it cannot be opened nothing is written.
SplitOutfile(ok) == NewFile(ok, IF ok THEN DOMAIN number ELSE {})

\* WriteMessage, for a channel that WriteChannel was called for: the public
\* WriteMessage calls it.
WriteMessage(c, t) ==
    LET m == [id |-> Len(written) + 1, channel |-> c, time |-> t]
        f == AddMessage(file, m)
        begin_time == IF segment_begin_time = 0 \/ segment_begin_time > t THEN t ELSE segment_begin_time
        split == NeedsSplit(segment_raw_size + 1, begin_time, m)
    IN  /\ is_opened /\ ~crashed /\ file.ok /\ c \in DOMAIN number /\ Len(written) < MaxMessages
        /\ InOrder => \A i \in DOMAIN written : written[i].time <= t
        /\ written' = Append(written, m)
        /\ number' = [number EXCEPT ![c] = @ + 1]
        /\ IF split
             THEN \E ok \in {TRUE} \cup {~MayFail} :
                    /\ files' = AndClosed(f)
                    /\ file' = SplitOutfile(ok)
                    /\ segment_raw_size' = 0 /\ segment_begin_time' = 0
                    /\ accepted' = IF ok THEN accepted \cup {m.id} ELSE accepted
             ELSE /\ file' = f
                  /\ segment_raw_size' = segment_raw_size + 1 /\ segment_begin_time' = begin_time
                  /\ accepted' = accepted \cup {m.id}
                  /\ UNCHANGED files
        /\ UNCHANGED <<is_opened, crashed>>

\* A file writer that could not be opened has no chunk to add to.
WriteMessageToNull ==
    /\ is_opened /\ ~crashed /\ ~file.ok /\ DOMAIN number # {}
    /\ crashed' = TRUE
    /\ UNCHANGED <<is_opened, file, files, segment_raw_size, segment_begin_time, number, written, accepted>>

Close ==
    /\ is_opened /\ ~crashed
    /\ is_opened' = FALSE
    /\ files' = AndClosed(file)
    /\ UNCHANGED <<file, segment_raw_size, segment_begin_time, number, written, accepted, crashed>>

\* The writer is not opened again.
WriterNext ==
    \/ Open \/ Close \/ WriteMessageToNull
    \/ \E c \in Channels : WriteChannel(c) \/ \E t \in Times : WriteMessage(c, t)

-----------------------------------------------------------------------------
Sections(f, type) == SelectSeq(f.sections, LAMBDA s : s.type = type)

\* The messages in a completed file, in the order of the file.
MessagesOf(f) ==
    LET bodies == Sections(f, "body")
    IN  FlattenSeq([i \in 1 .. Len(bodies) |-> bodies[i].messages])

IsClosed == ~is_opened /\ written # <<>>

\* A file can be read by itself: it has, ahead of every message, the section
\* of the message's channel (SplitOutfile writes the known channels again).
SelfDescribing ==
    \A k \in DOMAIN files : \A i \in DOMAIN files[k].sections :
      files[k].sections[i].type = "body" =>
        \A j \in DOMAIN files[k].sections[i].messages : \E h \in 1 .. i - 1 :
          files[k].sections[h] = ChannelSection(files[k].sections[i].messages[j].channel)

\* A file is beyond its limits by its last message at most, whatever was
\* written to the files before it (WriteMessage's count of size and time).
WithinLimits ==
    \A k \in DOMAIN files :
      Len(MessagesOf(files[k])) > 1 =>
        LET ms == Front(MessagesOf(files[k])) IN
        /\ SegmentSize > 0 => Len(ms) <= SegmentSize
        /\ SegmentInterval > 0 => ChunkEnd(ms) - ChunkBegin(ms) <= SegmentInterval

\* Every message for which WriteMessage returned true is in a file once the
\* writer is closed.
AcceptedIsKept ==
    IsClosed => \A id \in accepted : \E k \in DOMAIN files : \E i \in DOMAIN MessagesOf(files[k]) :
                  MessagesOf(files[k])[i].id = id

\* A file that cannot be opened makes WriteMessage return false, and the
\* program goes on (WriteMessage, SplitOutfile).
FailureIsReported == ~crashed

-----------------------------------------------------------------------------
(***************************************************************************)
(* The viewer.                                                             *)
(***************************************************************************)
CONSTANTS
    Views,      \* the pairs of begin and end time viewers are made with
    Filters,    \* the sets of channels viewers are made with, {} for all
    Step,       \* kStepTimeNanoSec
    BufferMin   \* kBufferMinSize

StepAssumption == Step \in Nat /\ BufferMin \in Nat \ {0}

VARIABLES
    readers,    \* the readers, in the order of the times of their files
    v,          \* the viewer, its iterator and the locals of FillBuffer
    buffer,     \* msg_buffer_
    out         \* history: the messages handed out

vars == <<writerVars, readers, v, buffer, out>>
viewVars == <<readers, v, buffer, out>>

NoView == [pc |-> "none", asked |-> <<0, 0>>, begin |-> 0, end |-> 0, channels |-> {},
           curr |-> 0, this_end |-> 0, i |-> 1, skip |-> FALSE]

\* A reader after its construction or Reset; f is its file.
NewReader(f) ==
    [file |-> f, pos |-> 1, chunk |-> <<>>, message_index |-> 1, reach_end |-> FALSE, finished |-> FALSE]

ViewInit == Init /\ readers = <<>> /\ v = NoView /\ buffer = <<>> /\ out = <<>>

-----------------------------------------------------------------------------
\* RecordViewer::Init: the order of the readers.
Earlier(f, g) == f.begin < g.begin \/ (f.begin = g.begin /\ f.end < g.end)

\* UpdateTime: the times asked for, within those of the files.
UpdateTime(b, e, fs) ==
    LET first == Min({fs[k].begin : k \in DOMAIN fs})
        last == Max({fs[k].end : k \in DOMAIN fs})
    IN  <<IF b < first THEN first ELSE b, IF e > last THEN last ELSE e>>

\* RecordViewer::Init: GetChannelList of the readers, from the index of each
\* file, and channel_list_.
AllChannels == UNION {{s.name : s \in Range(Sections(files[k], "channel"))} : k \in DOMAIN files}
channel_list == AllChannels \cap v.channels

\* The constructor, and the iterator begin(): Reset and IsValid.
Begin ==
    /\ IsClosed /\ files # <<>> /\ v.pc = "none"
    /\ \E view \in Views, chs \in Filters :
         LET t == UpdateTime(view[1], view[2], files) IN
         /\ readers' = [k \in DOMAIN files |-> NewReader(SortSeq(files, Earlier)[k])]
         /\ v' = [NoView EXCEPT !.pc = IF t[1] > t[2] THEN "end" ELSE "fill",
                                !.asked = view, !.begin = t[1], !.end = t[2],
                                !.channels = chs, !.curr = t[1]]
    /\ UNCHANGED <<writerVars, buffer, out>>

\* A turn of the loop of FillBuffer begins: readers whose file is over are
\* finished and reset.
BeginWindow ==
    LET e == v.curr + Step IN
    /\ v.pc = "fill" /\ v.curr <= v.end /\ Len(buffer) < BufferMin
    /\ v' = [v EXCEPT !.pc = "read", !.i = 1, !.this_end = IF e > v.end THEN v.end ELSE e]
    /\ readers' = [k \in DOMAIN readers |->
                     IF ~readers[k].finished /\ readers[k].file.end < v.curr
                       THEN [NewReader(readers[k].file) EXCEPT !.finished = TRUE]
                       ELSE readers[k]]
    /\ UNCHANGED <<writerVars, buffer, out>>

\* ReadMessage of the present reader fails: the next reader has its turn.
NextReader == v' = [v EXCEPT !.i = @ + 1, !.skip = FALSE]

Reading == v.pc = "read" /\ v.i <= Len(readers)
R == readers[v.i]
InChunk == R.message_index <= Len(R.chunk)

\* The file is finished or has nothing for the window.
Outside == R.finished \/ v.curr > R.file.end \/ v.this_end < R.file.begin

PassReader ==
    /\ Reading /\ Outside
    /\ NextReader
    /\ UNCHANGED <<writerVars, readers, buffer, out>>

\* A multimap keeps messages of the same time in the order they came.
Insert(m) ==
    LET k == Cardinality({j \in DOMAIN buffer : buffer[j].time <= m.time})
    IN  SubSeq(buffer, 1, k) \o <<m>> \o SubSeq(buffer, k + 1, Len(buffer))

\* ReadMessage within the chunk that was read.
NextMessage ==
    LET m == R.chunk[R.message_index] IN
    /\ Reading /\ ~Outside /\ InChunk
    /\ IF m.time > v.this_end
         THEN NextReader /\ UNCHANGED <<readers, buffer>>
         ELSE /\ readers' = [readers EXCEPT ![v.i].message_index = @ + 1]
              /\ buffer' = IF m.time < v.curr THEN buffer ELSE Insert(m)
              /\ UNCHANGED v
    /\ UNCHANGED <<writerVars, out>>


\* The header of a chunk: skip its body if the chunk is over, and stop if it
\* is still to come.
ReadChunkHeader(s) ==
    /\ readers' = [readers EXCEPT ![v.i].pos = @ + 1]
    /\ IF s.begin > v.this_end THEN NextReader ELSE v' = [v EXCEPT !.skip = s.end < v.curr]

ReadChunkBody(s) ==
    /\ readers' = [readers EXCEPT ![v.i].pos = @ + 1,
                     ![v.i].chunk = IF v.skip THEN @ ELSE s.messages,
                     ![v.i].message_index = IF v.skip THEN @ ELSE 1]
    /\ v' = [v EXCEPT !.skip = FALSE]

\* ReadNextChunk, a section at a time.
NextSection ==
    LET s == R.file.sections[R.pos] IN
    /\ Reading /\ ~Outside /\ ~InChunk
    /\ CASE R.reach_end -> NextReader /\ UNCHANGED readers
         [] ~R.reach_end /\ s.type = "index" ->
              readers' = [readers EXCEPT ![v.i].reach_end = TRUE] /\ UNCHANGED v
         [] ~R.reach_end /\ s.type = "channel" ->
              readers' = [readers EXCEPT ![v.i].pos = @ + 1] /\ UNCHANGED v
         [] ~R.reach_end /\ s.type = "header" -> ReadChunkHeader(s)
         [] ~R.reach_end /\ s.type = "body" -> ReadChunkBody(s)
    /\ UNCHANGED <<writerVars, buffer, out>>

\* The turn of the loop ends: the next window begins one after this one.
AfterWindow == v.this_end + 1

EndWindow ==
    /\ v.pc = "read" /\ v.i > Len(readers)
    /\ v' = [v EXCEPT !.pc = "fill", !.curr = AfterWindow]
    /\ UNCHANGED <<writerVars, readers, buffer, out>>

\* FillBuffer returns: whether there is a message.
EndFill ==
    /\ v.pc = "fill" /\ (v.curr > v.end \/ Len(buffer) >= BufferMin)
    /\ v' = [v EXCEPT !.pc = IF buffer = <<>> THEN "end" ELSE "update"]
    /\ UNCHANGED <<writerVars, readers, buffer, out>>

\* Update: the first message is handed out unless its channel is not wanted.
Update ==
    LET m == Head(buffer) IN
    /\ v.pc = "update" /\ buffer # <<>>
    /\ out' = IF v.channels = {} \/ m.channel \in v.channels THEN Append(out, m) ELSE out
    /\ buffer' = Tail(buffer)
    /\ UNCHANGED <<writerVars, readers, v>>

Refill ==
    /\ v.pc = "update" /\ buffer = <<>>
    /\ v' = [v EXCEPT !.pc = "fill"]
    /\ UNCHANGED <<writerVars, readers, buffer, out>>

ViewerStep ==
    \/ BeginWindow \/ PassReader \/ NextMessage \/ NextSection
    \/ EndWindow \/ EndFill \/ Update \/ Refill

Next ==
    \/ WriterNext /\ UNCHANGED viewVars
    \/ Begin \/ ViewerStep

Spec == ViewInit /\ [][Next]_vars
FairSpec == Spec /\ WF_vars(ViewerStep)

-----------------------------------------------------------------------------
TypeOK ==
    /\ is_opened \in BOOLEAN /\ v.pc \in {"none", "fill", "read", "update", "end"}
    /\ segment_raw_size \in 0 .. MaxMessages /\ DOMAIN number \subseteq Channels
    /\ \A c \in DOMAIN number : number[c] = Len(SelectSeq(written, LAMBDA m : m.channel = c))
    /\ \A k \in DOMAIN readers : /\ readers[k].pos \in DOMAIN readers[k].file.sections
                                 /\ readers[k].message_index \in 1 .. Len(readers[k].chunk) + 1

\* An iteration hands out every recorded message of the channels and the
\* times asked for, and no message twice, however the messages fell into
\* chunks, files and windows (RecordViewer::FillBuffer, RecordReader).
AllShown ==
    v.pc = "end" =>
      LET wanted == {m \in Range(written) : /\ v.asked[1] <= m.time /\ m.time <= v.asked[2]
                                            /\ v.channels = {} \/ m.channel \in v.channels}
      IN  Range(out) = wanted /\ Len(out) = Cardinality(wanted)

\* Messages are handed out in the order of their times, across files, also
\* when they were not recorded in that order (msg_buffer_, and the windows of
\* FillBuffer).
InTimeOrder == \A i \in 1 .. Len(out) - 1 : out[i].time <= out[i + 1].time

\* An iteration comes to its end.
ViewEnds == (v.pc = "fill") ~> (v.pc = "end")

\* The viewer begins at the time of the first message, or later if asked to.
BeginsWithFirst ==
    v.pc # "none" =>
      v.begin = Max({v.asked[1], ChunkBegin(written)})

\* A viewer for all channels lists the channels of its files.
ListsChannels == v.pc # "none" /\ v.channels = {} => channel_list = AllChannels
=============================================================================
