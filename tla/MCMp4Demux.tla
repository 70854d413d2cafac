----------------------------- MODULE MCMp4Demux -----------------------------
(* Instances of Mp4Demux for TLC.  Files are built from the inside out, so *)
(* that lengths and nesting agree.                                         *)
EXTENDS Mp4Demux

atom(kind, len, n) == [kind |-> kind, len |-> len, n |-> n, fixed |-> FALSE,
                       entries |-> <<>>]

total(f) == IF f = <<>> THEN 0 ELSE
  LET sum[i \in 1..Len(f)] ==
        (IF i = 1 THEN 0 ELSE sum[i - 1])
        + (IF f[i].kind \in Containers THEN HeaderLen ELSE f[i].len)
  IN  sum[Len(f)]

box(kind, f) == <<atom(kind, HeaderLen + total(f), 0)>> \o f

mp4a(used, esds, rest) ==
  [len |-> EntryLen + esds + rest, format |-> "mp4a", esds |-> esds, used |-> used]
sample(fmt, rest) == [len |-> EntryLen + rest, format |-> fmt, esds |-> 0, used |-> rest]
stsd(entries) ==
  LET a == [atom("stsd", HeaderLen + 2, 0) EXCEPT !.entries = entries]
  IN  <<[a EXCEPT !.len = @ + entryLen(a, 1) + entryLen(a, 2)]>>

ftyp(known) == <<atom("ftyp", 4, known)>>
mdat == <<atom("mdat", 5, 0)>>
smhd == <<atom("smhd", SmhdLen, 0)>>
hdlr == <<atom("hdlr", 3, 0)>>
stts == <<atom("stts", 7, 1)>>          \* one entry and a word after it
stsc == <<atom("stsc", 7, 1)>>
stsz(fixed) == <<[atom("stsz", 5, 1) EXCEPT !.fixed = fixed]>>
stco(n) == <<atom("stco", 4 + n, n)>>
free == <<atom("free", 3, 0)>>

movie(head, stbl) ==
  box("moov", box("trak", box("mdia", box("minf", head \o box("stbl", stbl)))))
video == box("trak", box("mdia", box("minf", <<atom("hdlr", 5, 0)>>)))

plain == movie(smhd, stsd(<<mp4a(1, 4, 0)>>)) \o mdat
tables == ftyp(1) \o movie(smhd, stsd(<<sample("alac", 1)>>) \o stts \o stsz(FALSE) \o stsc \o stco(1)) \o mdat
trailing == free \o box("moov", video \o Tail(movie(smhd, stsd(<<mp4a(2, 4, 1)>>) \o stsz(TRUE)))) \o <<atom("mdat", 2, 0)>> \o mdat
twice == movie(smhd, stsd(<<sample("free", 1), mp4a(1, 3, 1)>>)) \o mdat
fragmented == movie(smhd, stsd(<<sample("alac", 1)>>) \o stco(0)) \o mdat
audioFirst == mdat \o movie(smhd, stsd(<<mp4a(1, 3, 0)>>))
brand == ftyp(0) \o plain
silent == movie(hdlr, stsd(<<mp4a(1, 3, 0)>>)) \o mdat
strange == <<atom("udta", 3, 0)>>
filler == movie(smhd, stsd(<<sample("free", 2)>>))
refused == movie(smhd, stsd(<<mp4a(1, 3, 0), sample("refused", 2)>>)) \o mdat
undescribed == movie(smhd, stsd(<<>>))
cramped == <<atom("moov", 6, 0)>> \o Tail(movie(smhd, <<>>))
foreign == movie(<<atom("hdlr", SmhdLen, 0)>>, <<>>)

MCPlayable == {plain, tables, trailing, twice}
MCFiles == MCPlayable \cup {fragmented, audioFirst, brand, silent, strange, filler, foreign,
                            cramped, refused, undescribed}
MCStartsAt ==
  [f \in MCFiles |-> [i \in 1..(Len(f) + 1) |-> total(SubSeq(f, 1, i - 1))]]
=============================================================================
