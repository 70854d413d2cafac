-------------------------------- MODULE Mp4Demux --------------------------------
(***************************************************************************)
(* The MP4 decoder: qtmovie_read of libm4a walks the atoms of the stream   *)
(* up to the audio, then libfaac_decoder_task decodes it frame by frame.   *)
(* Both take their bytes from the buffer of ReadBuffer.                    *)
(*                                                                         *)
(* The unit of length is four bytes: an atom's header has two, a table's   *)
(* count has one.  A file is the sequence of its atoms in the order they   *)
(* start; a container is followed by what it contains.  What a handler     *)
(* reads is its script, worked off one read or skip at a time.  The        *)
(* demuxer cannot see where atoms start: it believes the lengths it has    *)
(* read and the remainders it has kept, and the properties compare the     *)
(* two, for files whose lengths are true.                                  *)
(***************************************************************************)
EXTENDS ReadBuffer, SequencesExt

CONSTANTS
  Files,       \* the files a server may send
  startsAt,    \* where the i-th atom of a file starts, and after the last where it ends
  Playable,    \* those with a known brand, filled tables, and audio of a known
               \* format after its description
  Huge         \* a length that wrapped below zero: no stream is that long

HeaderLen == 2
SmhdLen == 4           \* 16 bytes
EntryLen == 9          \* size, format and sound fields of a stsd entry
MaxEntries == 2        \* bound: entries of a stsd

Containers == {"moov", "trak", "mdia", "minf", "stbl"}
Tables == {"stts", "stsz", "stsc", "stco"}
Ignored == {"free", "udta", "hdlr", "smhd"}
Formats == {"mp4a", "alac", "free", "else", "refused"}

(* An entry of a stsd: its format and, for mp4a, the length of the esds in *)
(* it and how much of that is descriptors the demuxer reads ("used").      *)
(* "refused" is an entry of a format it knows in which, "used" reads in,   *)
(* it finds what it does not accept: no esds, one that is longer than the  *)
(* entry, an unexpected tag or length, or too much codec data.             *)
Entry == [len : Nat, format : Formats, esds : Nat, used : Nat]

(* An atom has its kind and length.  A table has n entries; "fixed" tells  *)
(* a stsz that gives one size for all samples, a ftyp of a brand the       *)
(* demuxer knows has n = 1.                                                *)
Atom == [kind : Containers \cup Tables \cup Ignored \cup {"ftyp", "stsd", "mdat"},
         len : Nat, n : Nat, fixed : BOOLEAN,
         entries : Seq(Entry)]

ASSUME FilesAssumption ==
  Files \subseteq Seq(Atom) /\ Playable \subseteq Files /\ Huge \in Nat /\ Huge > MaxStream

(* A container is followed by what is in it, any other atom by the next.   *)
ASSUME StartsAssumption ==
  \A f \in Files :
    /\ startsAt[f] \in [1..(Len(f) + 1) -> Nat] /\ startsAt[f][1] = 0
    /\ \A i \in 1..Len(f) :
         startsAt[f][i + 1] = startsAt[f][i]
           + IF f[i].kind \in Containers THEN HeaderLen ELSE f[i].len

(* What an atom says it has is in it.                                      *)
entryLen(a, i) == IF i \in DOMAIN a.entries THEN a.entries[i].len ELSE 0

HoldsWhatItSays(a) ==
  /\ a.len >= HeaderLen
  /\ a.kind = "stsd" =>
       /\ Len(a.entries) <= MaxEntries
       /\ a.len = HeaderLen + 2 + entryLen(a, 1) + entryLen(a, 2)
       /\ \A i \in DOMAIN a.entries :
            LET e == a.entries[i]
            IN  /\ e.len >= EntryLen
                /\ e.format = "mp4a" => EntryLen + e.esds <= e.len /\ HeaderLen + e.used <= e.esds
  /\ a.kind = "stts" => a.len >= HeaderLen + 2 + 2 * a.n
  /\ a.kind = "stsc" => a.len >= HeaderLen + 2 + 3 * a.n
  /\ a.kind = "stsz" => a.len >= HeaderLen + 3 /\ (a.fixed => a.len = HeaderLen + 3)
  /\ a.kind = "stco" => a.len >= HeaderLen + 2 + a.n

(* And a container ends where an atom ends.                                *)
ASSUME LengthsAssumption ==
  \A f \in Files : \A i \in 1..Len(f) :
    /\ HoldsWhatItSays(f[i])
    /\ f[i].kind \in Containers =>
         \E k \in 1..(Len(f) + 1) : startsAt[f][k] = startsAt[f][i] + f[i].len

VARIABLES
  file,        \* the file the server sends
  status,      \* "opening", "reading", "failed", "lost", "decoding", "ended"
  phase,       \* the last read: "length", "kind", "field", "frame", or "loop"
  stack,       \* the loops active: [atom, size_remaining, fresh], outermost first
  script,      \* what the current handler still does
  format,      \* res->format > 0: a sample description has been seen
  j,           \* read_chunk_stsd: where the esds ends, a pointer into base
  eof,         \* media_stream->eof
  strays       \* observer: what has made the demuxer lose its place

demuxVars == <<file, status, phase, stack, script, format, j, eof, strays>>
mp4Vars == <<bufferVars, demuxVars>>

NoPointer == 0 - 1

isAtomAt(p) == \E i \in 1..Len(file) : startsAt[file][i] = p
atomAt(p) == CHOOSE i \in 1..Len(file) : startsAt[file][i] = p

Mp4Init ==
  /\ BufferInit
  /\ file \in Files
  /\ status = "opening" /\ phase = "loop"
  /\ stack = <<[atom |-> 0, size_remaining |-> Huge, fresh |-> FALSE]>>
  /\ script = <<>> /\ format = FALSE /\ j = NoPointer
  /\ eof = FALSE /\ strays = {}

-----------------------------------------------------------------------------
(* The handlers as scripts.  <<"read", n>> is n reads of one unit.         *)

skip(n) == IF n = 0 THEN <<>> ELSE <<<<"skip", n>>>>
read(n) == IF n = 0 THEN <<>> ELSE <<<<"read", n>>>>
fail == <<<<"fail", 0>>>>

(* size_remaining is a size_t, and "if (size_remaining)" skips it.         *)
remainder(n) == skip(IF n < 0 THEN Huge ELSE n)

(* The mark before and the jump after the esds, and what follows it.       *)
mp4aData(e) ==
  read(2) \o <<<<"mark", e.esds - HeaderLen>>>> \o read(e.used)
          \o <<<<"jump", 0>>>> \o skip(e.len - EntryLen - e.esds)

(* A refused entry may have set the mark too: nothing looks at it again.   *)
codecData(e) ==
  CASE e.format = "mp4a" -> mp4aData(e)
    [] e.format = "alac" -> read(e.len - EntryLen)
    [] e.format = "free" -> skip(e.len - EntryLen)
    [] e.format = "refused" -> read(e.used) \o fail
    [] e.format = "else" -> fail

sampleEntry(a, i) ==
  IF i \notin DOMAIN a.entries THEN <<>>
  ELSE read(2) \o <<<<"format", 0>>>> \o skip(4) \o read(1) \o skip(1) \o read(1)
               \o codecData(a.entries[i])

got_codec_data(a) == \E i \in DOMAIN a.entries : a.entries[i].format \in {"mp4a", "alac"}

read_chunk_stsd(a) ==
  read(2) \o sampleEntry(a, 1) \o sampleEntry(a, 2)
          \o (IF got_codec_data(a) THEN <<>> ELSE fail)

(* Mutant: the first offset is not taken off size_remaining.               *)
read_chunk_table_Offset(a) ==
  CASE a.kind = "stts" -> read(2 + 2 * a.n) \o remainder(a.len - HeaderLen - 2 - 2 * a.n)
    [] a.kind = "stsc" -> read(2 + 3 * a.n) \o remainder(a.len - HeaderLen - 2 - 3 * a.n)
    [] a.kind = "stsz" -> read(3) \o (IF a.fixed THEN <<>> ELSE remainder(a.len - HeaderLen - 3))
    [] a.kind = "stco" -> read(3 + (IF a.n = 0 THEN 0 ELSE a.n - 1))
                          \o remainder(a.len - HeaderLen - 2 - (IF a.n = 0 THEN 0 ELSE a.n - 1))

(* stco reads its first offset before it looks at the number of them.      *)
read_chunk_table(a) ==
  CASE a.kind = "stts" -> read(2 + 2 * a.n) \o remainder(a.len - HeaderLen - 2 - 2 * a.n)
    [] a.kind = "stsc" -> read(2 + 3 * a.n) \o remainder(a.len - HeaderLen - 2 - 3 * a.n)
    [] a.kind = "stsz" -> read(3) \o (IF a.fixed THEN <<>> ELSE remainder(a.len - HeaderLen - 3))
    [] a.kind = "stco" -> read(3 + (IF a.n = 0 THEN 0 ELSE a.n - 1))
                          \o remainder(a.len - HeaderLen - 3 - (IF a.n = 0 THEN 0 ELSE a.n - 1))

(* An unknown brand makes the handler return where it is.                  *)
read_chunk_ftyp(a) == IF a.n = 1 THEN read(a.len - HeaderLen) ELSE read(1)

-----------------------------------------------------------------------------
(* Walking the atoms                                                       *)

frame == Last(stack)
kindOf(fr) == IF fr.atom = 0 THEN "file" ELSE file[fr.atom].kind

(* The demuxer's turn: no call of the buffer is under way, and the last    *)
(* read has brought something.                                             *)
ready == pc = "client" /\ status = "reading" /\ (phase = "loop" \/ out # <<>>)
betweenAtoms == ready /\ phase \in {"loop", "field"} /\ script = <<>>

(* stream_read does not look at the result of buf_read: when it has given  *)
(* up the variable it should have filled keeps what was on the stack, and  *)
(* nothing has been consumed.  What the demuxer makes of it is not         *)
(* followed any further.                                                   *)
ReadGaveUp ==
  /\ pc = "client" /\ status = "reading" /\ phase # "loop" /\ out = <<>>
  /\ status' = "lost" /\ strays' = strays \cup {"gave up"}
  /\ UNCHANGED <<bufferVars, file, phase, stack, script, format, j, eof>>

(* The head of every loop: the length of the next atom.                    *)
NextAtom ==
  /\ betweenAtoms /\ frame.size_remaining # 0
  /\ Read(1)
  /\ phase' = "length"
  /\ UNCHANGED <<file, status, stack, script, format, j, eof, strays>>

(* read_chunk_moov, ..., read_chunk_stbl return.                           *)
ContainerEnds ==
  /\ betweenAtoms /\ frame.size_remaining = 0
  /\ stack' = Front(stack)
  /\ phase' = "loop"
  /\ UNCHANGED <<bufferVars, file, status, script, format, j, eof, strays>>

(* What was read as a length is not one.                                   *)
NotAnAtom ==
  /\ ready /\ phase = "length" /\ ~isAtomAt(bytes_consumed - 1)
  /\ status' = "lost"
  /\ UNCHANGED <<bufferVars, file, phase, stack, script, format, j, eof, strays>>

(* A length that does not fit into the container is refused.  The file     *)
(* itself has no end: its frame holds Huge.                                *)
LengthRead ==
  LET a == file[atomAt(bytes_consumed - 1)]
  IN  /\ ready /\ phase = "length" /\ isAtomAt(bytes_consumed - 1)
      /\ ~(frame.fresh /\ a.len # SmhdLen)
      /\ IF a.len <= frame.size_remaining
         THEN Read(1) /\ phase' = "kind" /\ UNCHANGED status
         ELSE status' = "failed" /\ UNCHANGED <<bufferVars, phase>>
      /\ UNCHANGED <<file, stack, script, format, j, eof, strays>>

(* read_chunk_minf: the first atom is not a sound header, skip the rest.   *)
NotSound ==
  /\ ready /\ phase = "length" /\ isAtomAt(bytes_consumed - 1)
  /\ frame.fresh /\ file[atomAt(bytes_consumed - 1)].len # SmhdLen
  /\ stack' = Front(stack)
  /\ script' = remainder(frame.size_remaining - 1)
  /\ phase' = "loop"
  /\ UNCHANGED <<bufferVars, file, status, format, j, eof, strays>>

(* The size and kind of an atom are known.  In the file and in each        *)
(* container a few kinds have handlers; what a container does not know it  *)
(* skips, what the file does not know ends the demuxer.                    *)
here == atomAt(bytes_consumed - HeaderLen)
kindRead == ready /\ phase = "kind"

inside(kind) == CASE kind = "file" -> "moov" [] kind = "moov" -> "trak" [] kind = "trak" -> "mdia"
                  [] kind = "mdia" -> "minf" [] kind = "minf" -> "stbl" [] OTHER -> "none"

less(n) == [stack EXCEPT ![Len(stack)].size_remaining =
              IF kindOf(frame) = "file" THEN @ ELSE @ - n]

(* Mutant: the length of what was entered is not taken off.                *)
EnterContainer_NotCounted ==
  LET a == file[here]
  IN  /\ kindRead /\ ~frame.fresh /\ a.kind = inside(kindOf(frame))
      /\ stack' = Append(stack, [atom |-> here, size_remaining |-> a.len - HeaderLen,
                                 fresh |-> a.kind = "minf"])
      /\ phase' = "loop"
      /\ UNCHANGED <<bufferVars, file, status, script, format, j, eof, strays>>

EnterContainer ==
  LET a == file[here]
  IN  /\ kindRead /\ ~frame.fresh /\ a.kind = inside(kindOf(frame))
      /\ stack' = Append(less(a.len), [atom |-> here, size_remaining |-> a.len - HeaderLen,
                                       fresh |-> a.kind = "minf"])
      /\ phase' = "loop"
      /\ UNCHANGED <<bufferVars, file, status, script, format, j, eof, strays>>

(* read_chunk_minf: the sound header it insists on.                        *)
SoundHeader ==
  /\ kindRead /\ frame.fresh
  /\ IF file[here].kind = "smhd"
     THEN /\ script' = skip(SmhdLen - HeaderLen)
          /\ stack' = [less(SmhdLen) EXCEPT ![Len(stack)].fresh = FALSE]
          /\ UNCHANGED status
     ELSE status' = "failed" /\ UNCHANGED <<script, stack>>
  /\ phase' = "loop"
  /\ UNCHANGED <<bufferVars, file, format, j, eof, strays>>

handler(a, parent) ==
  CASE parent = "stbl" /\ a.kind = "stsd" -> read_chunk_stsd(a)
    [] parent = "stbl" /\ a.kind \in Tables -> read_chunk_table(a)
    [] parent = "file" /\ a.kind = "ftyp" -> read_chunk_ftyp(a)
    [] OTHER -> skip(a.len - HeaderLen)

(* Mutant: the audio is taken for something to skip.                       *)
Leaf_SkipsAudio ==
  LET a == file[here]
      parent == kindOf(frame)
  IN  /\ kindRead /\ ~frame.fresh /\ a.kind # inside(parent)
      /\ parent = "file" => a.kind \in {"ftyp", "free", "mdat"}
      /\ script' = handler(a, parent)
      /\ stack' = less(a.len)
      /\ strays' = strays \cup {m \in {"brand", "empty stco"} :
                      IF m = "brand" THEN parent = "file" /\ a.kind = "ftyp" /\ a.n # 1
                                     ELSE parent = "stbl" /\ a.kind = "stco" /\ a.n = 0}
      /\ phase' = "loop"
      /\ UNCHANGED <<bufferVars, file, status, format, j, eof>>

(* An atom that is handled or skipped.  Two of them make the demuxer lose  *)
(* its place: a ftyp it does not finish, and a stco without entries, whose *)
(* size_remaining wraps.                                                   *)
Leaf ==
  LET a == file[here]
      parent == kindOf(frame)
  IN  /\ kindRead /\ ~frame.fresh /\ a.kind # inside(parent)
      /\ parent = "file" => a.kind \in {"ftyp", "free"}
                              \/ (a.kind = "mdat" /\ (a.len = HeaderLen \/ ~format))
      /\ script' = handler(a, parent)
      /\ stack' = less(a.len)
      /\ strays' = strays \cup {m \in {"brand", "empty stco"} :
                      IF m = "brand" THEN parent = "file" /\ a.kind = "ftyp" /\ a.n # 1
                                     ELSE parent = "stbl" /\ a.kind = "stco" /\ a.n = 0}
      /\ phase' = "loop"
      /\ UNCHANGED <<bufferVars, file, status, format, j, eof>>

UnknownAtom ==
  /\ kindRead /\ kindOf(frame) = "file"
  /\ file[here].kind \notin {"ftyp", "free", "mdat", "moov"}
  /\ status' = "failed"
  /\ UNCHANGED <<bufferVars, file, phase, stack, script, format, j, eof, strays>>

(* The audio, after its description: the buffer stands at its first byte.  *)
AudioFound ==
  /\ kindRead /\ kindOf(frame) = "file"
  /\ file[here].kind = "mdat" /\ file[here].len # HeaderLen /\ format
  /\ status' = "decoding" /\ phase' = "loop"
  /\ UNCHANGED <<bufferVars, file, stack, script, format, j, eof, strays>>

-----------------------------------------------------------------------------
(* Working off a script                                                    *)

scripted(op) == ready /\ phase \in {"loop", "field"} /\ script # <<>> /\ Head(script)[1] = op
amount == Head(script)[2]

ReadField ==
  /\ scripted("read")
  /\ Read(1)
  /\ script' = read(amount - 1) \o Tail(script)
  /\ phase' = "field"
  /\ UNCHANGED <<file, status, stack, format, j, eof, strays>>

SkipField ==
  /\ scripted("skip")
  /\ Seek(amount)
  /\ script' = Tail(script) /\ phase' = "loop"
  /\ UNCHANGED <<file, status, stack, format, j, eof, strays>>

FormatSeen ==
  /\ scripted("format")
  /\ format' = TRUE
  /\ script' = Tail(script) /\ phase' = "loop"
  /\ UNCHANGED <<bufferVars, file, status, stack, j, eof, strays>>

(* j = read_pos + sub_chunk_len - 8: where the esds will end, unless the   *)
(* buffer moves its bytes before that.                                     *)
EsdsBegins ==
  /\ scripted("mark")
  /\ j' = read_pos + amount
  /\ script' = Tail(script) /\ phase' = "loop"
  /\ UNCHANGED <<bufferVars, file, status, stack, format, eof, strays>>

EsdsEnds ==
  /\ scripted("jump")
  /\ IF j = read_pos THEN UNCHANGED bufferVars
     ELSE Seek(IF j > read_pos THEN j - read_pos ELSE Huge)
  /\ j' = NoPointer
  /\ script' = Tail(script) /\ phase' = "loop"
  /\ UNCHANGED <<file, status, stack, format, eof, strays>>

HandlerFails ==
  /\ scripted("fail")
  /\ status' = "failed"
  /\ UNCHANGED <<bufferVars, file, phase, stack, script, format, j, eof, strays>>

-----------------------------------------------------------------------------
(* libfaac_decoder_task                                                    *)

(* The first fill_read_buffer.                                             *)
Open ==
  /\ status = "opening"
  /\ Fill
  /\ status' = "reading"
  /\ UNCHANGED <<file, phase, stack, script, format, j, eof, strays>>

atLoop == pc = "client" /\ status = "decoding" /\ phase = "loop"

FrameFill ==
  /\ atLoop /\ ~eof
  /\ Fill
  /\ phase' = "frame"
  /\ UNCHANGED <<file, status, stack, script, format, j, eof, strays>>

(* NeAACDecDecode takes some of the bytes there are.  Rendering is not     *)
(* modelled here.                                                          *)
FrameDecoded(n) ==
  /\ pc = "client" /\ status = "decoding" /\ phase = "frame"
  /\ n <= buf_data_unread
  /\ Seek(n)
  /\ phase' = "loop"
  /\ UNCHANGED <<file, status, stack, script, format, j, eof, strays>>

(* An error, or not enough bytes for a frame, which is the same to         *)
(* NeAACDecDecode: the task returns.                                       *)
FrameError ==
  /\ pc = "client" /\ status = "decoding" /\ phase = "frame"
  /\ status' = "ended"
  /\ UNCHANGED <<bufferVars, file, phase, stack, script, format, j, eof, strays>>

EofSeen ==
  /\ atLoop /\ eof
  /\ status' = "ended"
  /\ UNCHANGED <<bufferVars, file, phase, stack, script, format, j, eof, strays>>

-----------------------------------------------------------------------------
fileLen == startsAt[file][Len(file) + 1]

(* The HTTP task: the bytes of the file, then on_message_complete_cb.      *)
ServerSends == Store /\ sent < fileLen /\ UNCHANGED demuxVars

ServerEnds ==
  /\ sent = fileLen /\ ~eof
  /\ eof' = TRUE
  /\ UNCHANGED <<bufferVars, file, status, phase, stack, script, format, j, strays>>

(* The buffer moves its bytes while a pointer into it is kept.             *)
BufferWorks ==
  /\ CallStep
  /\ strays' = IF pc = "purge" /\ read_pos # 0 /\ j # NoPointer
               THEN strays \cup {"moved"} ELSE strays
  /\ UNCHANGED <<file, status, phase, stack, script, format, j, eof>>

DemuxStep ==
  \/ Open
  \/ NextAtom \/ ContainerEnds \/ LengthRead \/ NotAnAtom \/ NotSound \/ ReadGaveUp
  \/ EnterContainer \/ SoundHeader \/ Leaf \/ UnknownAtom \/ AudioFound
  \/ ReadField \/ SkipField \/ FormatSeen \/ EsdsBegins \/ EsdsEnds \/ HandlerFails
  \/ FrameFill \/ (\E n \in 1..Size : FrameDecoded(n)) \/ FrameError \/ EofSeen

Mp4Next == ServerSends \/ ServerEnds \/ BufferWorks \/ DemuxStep

Mp4Spec == Mp4Init /\ [][Mp4Next]_mp4Vars

(* The decoder's task is run, and the server sends the file to its end.    *)
FairMp4Spec ==
  Mp4Spec /\ WF_mp4Vars(BufferWorks) /\ WF_mp4Vars(DemuxStep) /\ WF_mp4Vars(ServerSends)

-----------------------------------------------------------------------------
endOf(fr) == startsAt[file][fr.atom] + file[fr.atom].len

(* Wherever refills fall, between two atoms the buffer stands where the    *)
(* file has an atom, or ends, and what the loops still expect adds up to   *)
(* the ends of the atoms they are in: each handler has gone exactly to the *)
(* end of its atom (demux.c, size_remaining).  The exceptions are the four *)
(* reasons of strays.                                                      *)
InPlace ==
  status = "reading" /\ strays = {} /\ betweenAtoms =>
    /\ bytes_consumed = fileLen \/ isAtomAt(bytes_consumed)
    /\ \A k \in 2..Len(stack) :
         endOf(stack[k]) = stack[k].size_remaining
                            + IF k = Len(stack) THEN bytes_consumed ELSE endOf(stack[k + 1])

(* The demuxer takes something else for an atom only after one of them: a  *)
(* buffer that moved during the esds, a read that gave up after 5 s, an    *)
(* unknown brand, a stco without entries.                                  *)
LosesPlaceOnlyBy == status = "lost" => strays # {}

(* read_chunk_stsd goes to the end of the esds, wherever it is then in the *)
(* buffer (demux.c:162, "will skip the remainder of the atom").  The       *)
(* pointer it kept breaks this.                                            *)
SkipsRemainder ==
  scripted("jump") =>
    \E i \in 1..Len(file) : \E k \in DOMAIN file[i].entries :
      LET a == file[i]
          esdsEnd == HeaderLen + 2 + (IF k = 2 THEN entryLen(a, 1) ELSE 0)
                     + EntryLen + a.entries[k].esds
      IN  j - read_pos = startsAt[file][i] + esdsEnd - bytes_consumed

(* A playable file is played, unless the demuxer loses its place or        *)
(* fill_read_buffer overruns the buffer.                                   *)
PlayableIsPlayed ==
  file \in Playable => <>(status = "decoding" \/ strays # {} \/ pc = "overrun")

=============================================================================
