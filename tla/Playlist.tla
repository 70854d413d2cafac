--------------------------------- MODULE Playlist ---------------------------------
(***************************************************************************)
(* playlist.c and vector.c: the playlist in flash is read line by line and *)
(* parsed by inih, whose handler fills a vector of entries; a cursor goes  *)
(* round it.                                                               *)
(*                                                                         *)
(* A line is [key, n, val, len]: TitleN=val or FileN=val in len            *)
(* characters, or something else.  inih reads into a buffer of LineMax     *)
(* characters.                                                             *)
(***************************************************************************)
EXTENDS Integers, Sequences, FiniteSetsExt

CONSTANTS
  Files,          \* playlists: sequences of lines
  LineMax,        \* INI_MAX_LINE, the num of pls_ini_reader: 200
  InitCapacity    \* vec_init: 8

ASSUME PlaylistAssumption ==
  /\ LineMax \in Nat \ {0} /\ InitCapacity \in Nat \ {0, 1}
  /\ \A f \in Files : Len(f) \in Nat /\ \A i \in 1..Len(f) :
       f[i].key \in {"title", "file", "other"} /\ f[i].n \in Int /\ f[i].len \in Nat

VARIABLES
  file, endsInNewline,    \* _binary_playlist_pls_start
  line, over,             \* str_ptr: the line it is in, characters of it gone over
  loading,
  elems, capacity,        \* vec_struct_t
  curr_pos,
  outside,                \* pls_ini_reader stored outside its buffer
  crashed                 \* the handler wrote through a null pointer

fileVars == <<file, endsInNewline>>
readerVars == <<line, over, outside>>
vecVars == <<elems, capacity>>
playlistVars == <<fileVars, readerVars, loading, vecVars, curr_pos, crashed>>

Null == <<>>

(* playlist_create.  Nothing behind the last newline is not a line.        *)
PlaylistInit ==
  /\ file \in Files /\ endsInNewline \in BOOLEAN
  /\ file # <<>> /\ file[Len(file)].len = 0 => endsInNewline
  /\ line = 1 /\ over = 0 /\ loading = TRUE
  /\ elems = <<>> /\ capacity = InitCapacity
  /\ curr_pos = 0
  /\ outside = FALSE /\ crashed = FALSE

-----------------------------------------------------------------------------
(* pls_ini_handler                                                         *)

vec_add(entry) ==
  /\ capacity' = IF Len(elems) = capacity THEN capacity + capacity \div 2 ELSE capacity
  /\ elems' = Append(elems, entry)

(* Mutant: a number that is the size already counts as new.                *)
isNew_Equal(n) == n < 0 \/ n >= Len(elems)

(* track_num > vec_size(user): the comparison is unsigned.                 *)
isNew(n) == n < 0 \/ n > Len(elems)

pls_ini_handler(key, n, value) ==
  IF isNew(n)
  THEN /\ vec_add([name |-> IF key = "title" THEN value ELSE Null,
                   url |-> IF key = "file" THEN value ELSE Null])
       /\ UNCHANGED crashed
  ELSE /\ crashed' = (n = 0)
       /\ elems' = IF n = 0 THEN elems
                   ELSE IF key = "title" THEN [elems EXCEPT ![n].name = value]
                   ELSE [elems EXCEPT ![n].url = value]
       /\ UNCHANGED capacity

-----------------------------------------------------------------------------
(* pls_ini_reader, and what inih does with what it reads                   *)

atNewline == line < Len(file) \/ endsInNewline
rest == file[line].len - over

(* The piece that is read ends at the newline, at the end of the file, or  *)
(* where inih's buffer does.  The last moves on by one character more,     *)
(* which is the newline or is lost.                                        *)
pieceLength == IF rest < LineMax THEN rest ELSE LineMax

(* A piece as long as the buffer ends behind it; before an empty one the   *)
(* byte in front of the buffer is looked at, and cleared if it happens to  *)
(* be a carriage return.                                                   *)
pls_ini_reader ==
  /\ \/ pieceLength \in {0, LineMax} /\ outside' = TRUE
     \/ pieceLength # LineMax /\ outside' = outside
  /\ IF pieceLength = rest \/ (pieceLength + 1 = rest /\ ~atNewline)
     THEN line' = line + 1 /\ over' = 0
     ELSE line' = line /\ over' = over + pieceLength + 1

(* Only a piece from the start of a line has a key; its value may be cut.  *)
ReadsLine ==
  /\ loading /\ ~crashed /\ line <= Len(file)
  /\ pls_ini_reader
  /\ IF over = 0 /\ file[line].key \in {"title", "file"}
     THEN pls_ini_handler(file[line].key, file[line].n,
                          <<file[line].val, pieceLength = file[line].len>>)
     ELSE UNCHANGED <<vecVars, crashed>>
  /\ UNCHANGED <<fileVars, loading, curr_pos>>

LoadEnds ==
  /\ loading /\ ~crashed /\ line > Len(file)
  /\ loading' = FALSE
  /\ UNCHANGED <<fileVars, readerVars, vecVars, curr_pos, crashed>>

-----------------------------------------------------------------------------
(* playlist_next and playlist_prev: the vector's size is what they wrap    *)
(* around at.                                                              *)

playlist_next ==
  /\ ~loading
  /\ curr_pos' = IF curr_pos + 1 = Len(elems) THEN 0 ELSE curr_pos + 1
  /\ UNCHANGED <<fileVars, readerVars, loading, vecVars, crashed>>

playlist_prev ==
  /\ ~loading
  /\ curr_pos' = IF curr_pos - 1 < 0 THEN Len(elems) - 1 ELSE curr_pos - 1
  /\ UNCHANGED <<fileVars, readerVars, loading, vecVars, crashed>>

-----------------------------------------------------------------------------
(* What an entry's fields may hold: a value, whole or cut.                 *)
Value == {Null} \cup {<<file[i].val, whole>> : i \in 1..Len(file), whole \in BOOLEAN}

PlaylistTypeOK ==
  /\ file \in Files /\ line \in 1..(Len(file) + 1)
  /\ loading \in BOOLEAN /\ crashed \in BOOLEAN
  /\ elems \in Seq([name : Value, url : Value])
  /\ capacity \in Nat \ {0, 1} /\ Len(elems) <= capacity

(* The numbers start at 1 and none is left out where it first appears; no  *)
(* line fills inih's buffer and none is empty, without even a carriage     *)
(* return.                                                                 *)
Keyed == {i \in 1..Len(file) : file[i].key \in {"title", "file"}}
wellFormed ==
  /\ \A i \in 1..Len(file) : file[i].len \in 1..(LineMax - 1)
  /\ \A i \in Keyed :
       file[i].n \in 1..(1 + Max({0} \cup {file[j].n : j \in {k \in Keyed : k < i}}))

listed(key, n) ==
  LET is == {i \in Keyed : file[i].key = key /\ file[i].n = n}
  IN  IF is = {} THEN Null ELSE <<file[Max(is)].val, TRUE>>

(* Of a playlist that numbers its entries without a gap, in whatever order *)
(* titles and files come, the radio knows each entry as it is listed, and  *)
(* the cursor is always on one of them.  Of any other, it at least stays   *)
(* within the vector's memory.                                             *)
PlaylistAsListed ==
  /\ Len(elems) <= capacity
  /\ ~loading /\ wellFormed =>
       /\ ~outside
       /\ Len(elems) = Max({0} \cup {file[i].n : i \in Keyed})
       /\ \A n \in 1..Len(elems) :
            elems[n] = [name |-> listed("title", n), url |-> listed("file", n)]
       /\ elems # <<>> => curr_pos \in 0..(Len(elems) - 1)

=============================================================================
