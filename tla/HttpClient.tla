------------------------------- MODULE HttpClient -------------------------------
(***************************************************************************)
(* http_client_get and the header callbacks of web_radio.c.  Each track    *)
(* has an HTTP task of its own; the tasks share the descriptors of lwip,   *)
(* which are numbers that are given out again, and the globals in which    *)
(* the headers are put together.  Of the heap it is the address list and   *)
(* the parsed url that outlive a call; url_parse is taken to succeed.      *)
(*                                                                         *)
(* A header's key and value are sequences of words; the parser hands them  *)
(* over in pieces that end wherever a receive buffer ended.  The body of a *)
(* response is RadioControl's matter.  A listener who waits for the sound  *)
(* leaves a track when its headers are long over, so one request at a time *)
(* is in front of its body.                                                *)
(***************************************************************************)
EXTENDS Integers, Sequences, SequencesExt

CONSTANTS
  Tasks,           \* HTTP tasks that may exist at once
  Descriptors,     \* numbers socket() can return
  Responses,       \* the header sections servers send
  MaxRequests,     \* bound on the requests
  MaxRetries,      \* failed attempts to connect before it gives up: 5
  KvLen            \* HDR_KV_BUFF_LEN: 128

ASSUME HttpAssumption ==
  /\ Descriptors \subseteq Nat /\ Descriptors # {}
  /\ "none" \notin Tasks
  /\ MaxRequests \in Nat /\ MaxRetries \in Nat /\ KvLen \in Nat \ {0}

(* The names the radio looks for, in words; their texts are shorter than   *)
(* the buffers.                                                            *)
ContentType == <<"content", "type">>
IcyMetaint == <<"icy", "metaint">>
LookedFor == {ContentType, IcyMetaint}

ASSUME NamesFit == \A name \in LookedFor : Len(name) + 1 < KvLen

(* A response has headers, each a name and a value, of one word at least.  *)
Words == Seq(STRING) \ {<<>>}
ASSUME ResponsesAssumption == Responses \subseteq Seq(Words \X Words) \ {<<>>}

VARIABLES
  pc,              \* per task, where http_client_get is
  sock, retries,   \* per task, its locals
  owner,           \* per descriptor, the task that opened it, or NoTask
  lists,           \* per task, address lists getaddrinfo gave minus freed
  freedTwice,      \* freeaddrinfo was called on a list that was gone
  url,             \* per task, what url_parse allocated and is not freed yet
  lost,            \* the kinds of url memory some call returned without freeing
  response,        \* per task, what its server sends, until it is through with it
  place,           \* per task, <<header, part, words>> sent so far
  hdr_state, hdr_key_buff, hdr_key_buff_len, hdr_value_buff, hdr_value_buff_len,
  curr_header_field, content_type, icymeta_interval,     \* globals
  overran,         \* a copy went past the end of a header buffer
  broke,           \* this response, or the one before it, ended inside its headers
  faults,          \* the calls that have failed
  requests

urlVars == <<url, lost>>
sockVars == <<sock, retries, owner, lists, freedTwice, urlVars>>
serverVars == <<response, place>>
keyVars == <<hdr_key_buff, hdr_key_buff_len, curr_header_field>>
valueVars == <<hdr_value_buff, hdr_value_buff_len, content_type, icymeta_interval>>
hdrVars == <<hdr_state, keyVars, valueVars, overran>>
ghosts == <<broke, faults, requests>>
httpVars == <<pc, sockVars, serverVars, hdrVars, ghosts>>

NoTask == "none"
Requesting == {"socket", "connect", "send", "headers", "replay", "complete"}
WithSocket == {"connect", "send", "headers", "replay", "complete", "body", "close"}

(* url_t, and the four texts it points to.                                 *)
Url == {"struct", "strings"}

HttpInit ==
  /\ pc = [t \in Tasks |-> "idle"]
  /\ sock = [t \in Tasks |-> -1] /\ retries = [t \in Tasks |-> 0]
  /\ owner = [d \in Descriptors |-> NoTask]
  /\ lists = [t \in Tasks |-> 0] /\ freedTwice = FALSE
  /\ url = [t \in Tasks |-> {}] /\ lost = {}
  /\ response = [t \in Tasks |-> <<>>] /\ place = [t \in Tasks |-> <<1, "key", 0>>]
  /\ hdr_state = "UNDEF"
  /\ hdr_key_buff = <<>> /\ hdr_key_buff_len = 0 /\ curr_header_field = "other"
  /\ hdr_value_buff = <<>> /\ hdr_value_buff_len = 0
  /\ content_type = "none" /\ icymeta_interval = 0
  /\ overran = FALSE /\ broke = FALSE /\ faults = {} /\ requests = 0

-----------------------------------------------------------------------------
(* http_client_get up to the response                                      *)

goto(t, where) == pc' = [pc EXCEPT ![t] = where]

(* http_client_get returns: what it has not freed by now is lost.          *)
returns(t) ==
  /\ goto(t, "idle")
  /\ lost' = lost \cup url[t] /\ url' = [url EXCEPT ![t] = {}]

(* The button task starts an HTTP task, which parses the url.  The name    *)
(* resolves, or getaddrinfo fails and the task is over.                    *)
Request(t) ==
  /\ pc[t] = "idle" /\ requests < MaxRequests
  /\ \A u \in Tasks : pc[u] \notin Requesting
  /\ requests' = requests + 1
  /\ \/ /\ goto(t, "socket")
        /\ lists' = [lists EXCEPT ![t] = 1] /\ url' = [url EXCEPT ![t] = Url]
        /\ UNCHANGED <<lost, faults>>
     \/ /\ lost' = lost \cup Url /\ faults' = faults \cup {"dns"}
        /\ UNCHANGED <<pc, lists, url>>
  /\ UNCHANGED <<sock, retries, owner, freedTwice, serverVars, hdrVars, broke>>

(* freeaddrinfo(res)                                                       *)
freeList(t) ==
  /\ lists' = [lists EXCEPT ![t] = IF @ = 0 THEN 0 ELSE @ - 1]
  /\ freedTwice' = (freedTwice \/ lists[t] = 0)

isLeastFree(d) ==
  owner[d] = NoTask /\ \A e \in Descriptors : owner[e] = NoTask => d <= e

Socket(t) ==
  /\ pc[t] = "socket"
  /\ \E d \in Descriptors :
       /\ isLeastFree(d)
       /\ sock' = [sock EXCEPT ![t] = d]
       /\ owner' = [owner EXCEPT ![d] = t]
  /\ retries' = [retries EXCEPT ![t] = 0]
  /\ goto(t, "connect")
  /\ UNCHANGED <<lists, freedTwice, urlVars, serverVars, hdrVars, ghosts>>

(* Without a descriptor the list is freed, and the function goes on.       *)
SocketFails(t) ==
  /\ pc[t] = "socket"
  /\ sock' = [sock EXCEPT ![t] = -1]
  /\ retries' = [retries EXCEPT ![t] = 0]
  /\ freeList(t)
  /\ faults' = faults \cup {"socket"}
  /\ goto(t, "connect")
  /\ UNCHANGED <<owner, urlVars, serverVars, hdrVars, broke, requests>>

Connect(t) ==
  /\ pc[t] = "connect" /\ sock[t] # -1
  /\ freeList(t)
  /\ retries' = [retries EXCEPT ![t] = 0]
  /\ goto(t, "send")
  /\ UNCHANGED <<sock, owner, urlVars, serverVars, hdrVars, ghosts>>

ConnectFails(t) ==
  /\ pc[t] = "connect" /\ retries[t] < MaxRetries
  /\ retries' = [retries EXCEPT ![t] = @ + 1]
  /\ UNCHANGED <<pc, sock, owner, lists, freedTwice, urlVars, serverVars, hdrVars, ghosts>>

(* close(sock): whoever opened what the number stands for now, it is gone. *)
close(t) == owner' = IF sock[t] = -1 THEN owner ELSE [owner EXCEPT ![sock[t]] = NoTask]

(* Mutant: the task returns without closing.                               *)
ConnectGivesUp_Open(t) ==
  /\ pc[t] = "connect" /\ retries[t] = MaxRetries
  /\ freeList(t) /\ returns(t)
  /\ faults' = faults \cup {"connect"}
  /\ UNCHANGED <<sock, retries, owner, serverVars, hdrVars, broke, requests>>

(* One attempt more has failed than may: the url is not freed.  (retries   *)
(* is a local: where nobody reads it any more it is 0.)                    *)
ConnectGivesUp(t) ==
  /\ pc[t] = "connect" /\ retries[t] = MaxRetries
  /\ close(t) /\ freeList(t) /\ returns(t)
  /\ retries' = [retries EXCEPT ![t] = 0]
  /\ faults' = faults \cup {"connect"}
  /\ UNCHANGED <<sock, serverVars, hdrVars, broke, requests>>

(* What the server answers, from its first header on.                      *)
answered(t) ==
  /\ \E r \in Responses : response' = [response EXCEPT ![t] = r]
  /\ place' = [place EXCEPT ![t] = <<1, "key", 0>>]

(* The headers are over; nobody asks any more what they were.              *)
headersOver(t) ==
  /\ response' = [response EXCEPT ![t] = <<>>]
  /\ place' = [place EXCEPT ![t] = <<1, "key", 0>>]

(* The request is written; icymeta_interval is reset for the response.     *)
Send(t) ==
  /\ pc[t] = "send"
  /\ goto(t, "headers") /\ answered(t)
  /\ icymeta_interval' = 0
  /\ UNCHANGED <<sockVars, hdr_state, keyVars, hdr_value_buff,
                 hdr_value_buff_len, content_type, overran, ghosts>>

(* asprintf finds no memory: the function returns, the socket stays open   *)
(* and the url allocated.                                                  *)
NoMemory(t) ==
  /\ pc[t] = "send"
  /\ faults' = faults \cup {"memory"}
  /\ returns(t)
  /\ UNCHANGED <<sock, retries, owner, lists, freedTwice, serverVars, hdrVars, broke, requests>>

(* write() fails: the socket is closed, and the function goes on.          *)
SendFails(t) ==
  /\ pc[t] = "send"
  /\ close(t)
  /\ faults' = faults \cup {"write"}
  /\ icymeta_interval' = 0
  /\ goto(t, "headers") /\ answered(t)
  /\ UNCHANGED <<sock, retries, lists, freedTwice, urlVars, hdr_state, keyVars,
                 hdr_value_buff, hdr_value_buff_len, content_type, overran, broke, requests>>

-----------------------------------------------------------------------------
(* The header callbacks                                                    *)

(* memcpy(&buff[len], at, min(length, HDR_KV_BUFF_LEN - len - 1)): length  *)
(* is unsigned, so what is negative on the other side counts as huge.      *)
copied(len, piece) ==
  IF KvLen - len - 1 < 0 \/ Len(piece) < KvLen - len - 1 THEN piece
  ELSE SubSeq(piece, 1, KvLen - len - 1)
runsOver(len, piece) == len + Len(copied(len, piece)) > KvLen - 1

(* strncmp(buff, name, hdr_key_buff_len): as much of the name as there is  *)
(* key, and of a buffer that was cut no more than it holds.                *)
isNamed(name) ==
  /\ hdr_key_buff_len <= Len(hdr_key_buff) \/ Len(hdr_key_buff) >= Len(name)
  /\ IsPrefix(hdr_key_buff, name)

process_header_key_complete ==
  /\ curr_header_field' = CASE isNamed(ContentType) -> "content-type"
                            [] isNamed(IcyMetaint) -> "icy-metaint"
                            [] OTHER -> "other"
  /\ hdr_key_buff' = <<>> /\ hdr_key_buff_len' = 0

Known == {"aac", "mp4", "mpeg"}
atoi(words) == FoldLeft(LAMBDA n, w : 10 * n + (IF w = "1" THEN 1 ELSE 6), 0, words)

(* A type that is not known leaves content_type as it was.                 *)
valueMeans ==
  /\ content_type' =
       IF curr_header_field = "content-type" /\ hdr_value_buff # <<>>
          /\ Last(hdr_value_buff) \in Known
       THEN Last(hdr_value_buff) ELSE content_type
  /\ icymeta_interval' =
       IF curr_header_field = "icy-metaint" THEN atoi(hdr_value_buff) ELSE icymeta_interval

(* Mutant: the length of the value is not set back.                        *)
process_header_value_complete_KeepsLength ==
  /\ valueMeans
  /\ hdr_value_buff' = <<>> /\ UNCHANGED hdr_value_buff_len

process_header_value_complete ==
  /\ valueMeans
  /\ hdr_value_buff' = <<>> /\ hdr_value_buff_len' = 0

(* process_header_key: a value that was being collected is complete now.   *)
process_header_key(piece) ==
  /\ hdr_key_buff' = hdr_key_buff \o copied(hdr_key_buff_len, piece)
  /\ hdr_key_buff_len' = hdr_key_buff_len + Len(piece)
  /\ overran' = runsOver(hdr_key_buff_len, piece)
  /\ IF hdr_state = "VALUE" THEN process_header_value_complete ELSE UNCHANGED valueVars
  /\ hdr_state' = "KEY"
  /\ UNCHANGED curr_header_field

(* process_header_value: a key that was being collected is complete now.   *)
process_header_value(piece) ==
  /\ hdr_value_buff' = hdr_value_buff \o copied(hdr_value_buff_len, piece)
  /\ hdr_value_buff_len' = hdr_value_buff_len + Len(piece)
  /\ overran' = runsOver(hdr_value_buff_len, piece)
  /\ IF hdr_state = "KEY" THEN process_header_key_complete ELSE UNCHANGED keyVars
  /\ hdr_state' = "VALUE"
  /\ UNCHANGED <<content_type, icymeta_interval>>

-----------------------------------------------------------------------------
(* The read loop                                                           *)

(* The descriptor still stands for the connection the task opened.         *)
isOwn(t) == sock[t] # -1 /\ owner[sock[t]] = t
reading(t) == pc[t] = "headers" /\ ~overran

header(t) == response[t][place[t][1]]
partLeft(t) == LET words == header(t)[IF place[t][2] = "key" THEN 1 ELSE 2]
               IN  SubSeq(words, place[t][3] + 1, Len(words))
headersLeft(t) == place[t][1] <= Len(response[t])

passed(t, n) ==
  LET i == place[t][1]
      w == place[t][3]
  IN  place' = [place EXCEPT ![t] =
        IF n < Len(partLeft(t)) THEN <<i, place[t][2], w + n>>
        ELSE IF place[t][2] = "key" THEN <<i, "value", 0>> ELSE <<i + 1, "key", 0>>]

(* A receive buffer ends somewhere in a key or a value: the parser hands   *)
(* over the piece it has.                                                  *)
HeaderPiece(t, n) ==
  /\ reading(t) /\ isOwn(t) /\ headersLeft(t) /\ n <= Len(partLeft(t))
  /\ IF place[t][2] = "key" THEN process_header_key(SubSeq(partLeft(t), 1, n))
                            ELSE process_header_value(SubSeq(partLeft(t), 1, n))
  /\ passed(t, n)
  /\ UNCHANGED <<pc, sockVars, response, ghosts>>

(* Mutant: the last value is never completed.                              *)
on_headers_complete_cb_Forgets(t) ==
  /\ reading(t) /\ isOwn(t) /\ ~headersLeft(t)
  /\ hdr_state' = "COMPLETE"
  /\ goto(t, "complete")
  /\ UNCHANGED <<sockVars, serverVars, keyVars, valueVars, overran, ghosts>>

on_headers_complete_cb(t) ==
  /\ reading(t) /\ isOwn(t) /\ ~headersLeft(t)
  /\ IF hdr_state = "VALUE" THEN process_header_value_complete ELSE UNCHANGED valueVars
  /\ hdr_state' = "COMPLETE"
  /\ goto(t, "complete")
  /\ UNCHANGED <<sockVars, serverVars, keyVars, overran, ghosts>>

(* The player is started with what the headers said.                       *)
StartPlayer(t) ==
  /\ pc[t] = "complete"
  /\ goto(t, "body") /\ headersOver(t)
  /\ broke' = FALSE
  /\ UNCHANGED <<sockVars, hdrVars, faults, requests>>

(* Mutant: the socket is closed at the error, and again at the end.        *)
HeadersBreak_Closes(t) ==
  /\ reading(t)
  /\ close(t)
  /\ goto(t, "close") /\ headersOver(t)
  /\ broke' = (hdr_state \in {"KEY", "VALUE"})
  /\ UNCHANGED <<sock, retries, lists, freedTwice, urlVars, hdrVars, faults, requests>>

(* read() returns 0 inside the headers: the loop ends, and the buffers     *)
(* keep what they have.                                                    *)
HeadersBreak(t) ==
  /\ reading(t)
  /\ goto(t, "close") /\ headersOver(t)
  /\ broke' = (hdr_state \in {"KEY", "VALUE"})
  /\ UNCHANGED <<sockVars, hdrVars, faults, requests>>

(* read() returns -1: the parser is given the receive buffer again, with   *)
(* (size_t)-1 for its length, and goes over what it has already handed     *)
(* over, from a place in the texts that have come or begun to come.        *)
(* Before the first header it refuses a status line as a header's name,    *)
(* which ends the loop like HeadersBreak.                                  *)
HeadersError(t) ==
  /\ reading(t) /\ place[t] # <<1, "key", 0>>
  /\ goto(t, "replay")
  /\ LET came == IF headersLeft(t) THEN SubSeq(response[t], 1, place[t][1]) ELSE response[t]
     IN  /\ response' = [response EXCEPT ![t] = came]
         /\ \E i \in 1..Len(came), part \in {"key", "value"} :
              \E n \in 0..(Len(came[i][IF part = "key" THEN 1 ELSE 2]) - 1) :
                place' = [place EXCEPT ![t] = <<i, part, n>>]
  /\ broke' = TRUE
  /\ UNCHANGED <<sockVars, hdrVars, faults, requests>>

(* The texts it passes are handed over whole, to the buffers as they are.  *)
HeaderReplayed(t) ==
  /\ pc[t] = "replay" /\ ~overran /\ headersLeft(t)
  /\ IF place[t][2] = "key" THEN process_header_key(partLeft(t))
                            ELSE process_header_value(partLeft(t))
  /\ passed(t, Len(partLeft(t)))
  /\ UNCHANGED <<pc, sockVars, response, ghosts>>

(* It comes to a character that it refuses, at the latest where the zeros  *)
(* of the buffer begin: what it has not seen the end of is not handed      *)
(* over.  That it meets the end of headers in other memory is not followed.*)
ReplayRefused(t) ==
  /\ pc[t] = "replay" /\ ~overran
  /\ goto(t, "close") /\ headersOver(t)
  /\ UNCHANGED <<sockVars, hdrVars, ghosts>>

BodyEnds(t) ==
  /\ pc[t] = "body"
  /\ goto(t, "close")
  /\ UNCHANGED <<sockVars, serverVars, hdrVars, ghosts>>

(* free(url) gives back the struct; url_free, which would give back the    *)
(* texts as well, is called nowhere.                                       *)
Close(t) ==
  /\ pc[t] = "close"
  /\ close(t)
  /\ goto(t, "idle")
  /\ lost' = lost \cup (url[t] \ {"struct"}) /\ url' = [url EXCEPT ![t] = {}]
  /\ UNCHANGED <<sock, retries, lists, freedTwice, serverVars, hdrVars, ghosts>>

Step(t) ==
  \/ Request(t) \/ Socket(t) \/ SocketFails(t)
  \/ Connect(t) \/ ConnectFails(t) \/ ConnectGivesUp(t)
  \/ Send(t) \/ SendFails(t) \/ NoMemory(t)
  \/ (\E n \in 1..KvLen : HeaderPiece(t, n))
  \/ on_headers_complete_cb(t) \/ StartPlayer(t)
  \/ HeadersBreak(t) \/ HeadersError(t) \/ HeaderReplayed(t) \/ ReplayRefused(t)
  \/ BodyEnds(t) \/ Close(t)

HttpNext == \E t \in Tasks : Step(t)

HttpSpec == HttpInit /\ [][HttpNext]_httpVars

-----------------------------------------------------------------------------
(* Where each task is, what it holds, and what has failed so far.          *)
HttpTypeOK ==
  /\ pc \in [Tasks -> Requesting \cup WithSocket \cup {"idle"}]
  /\ sock \in [Tasks -> Descriptors \cup {-1}]
  /\ owner \in [Descriptors -> Tasks \cup {NoTask}]
  /\ lists \in [Tasks -> {0, 1}] /\ freedTwice \in BOOLEAN
  /\ url \in [Tasks -> SUBSET Url] /\ lost \subseteq Url
  /\ faults \subseteq {"dns", "socket", "connect", "memory", "write"}

(* As long as no write() has failed, the descriptor a task reads from and  *)
(* closes is the one it opened, although numbers are given out again and   *)
(* tasks of abandoned tracks linger.                                       *)
OwnDescriptor ==
  "write" \notin faults =>
    \A t \in Tasks : pc[t] \in WithSocket /\ sock[t] # -1 => owner[sock[t]] = t

(* What a request gives back, whatever fails: its descriptor, unless there *)
(* was no memory for its text; the address list on every path, once unless *)
(* socket() has failed; and the url's struct, unless the name did not      *)
(* resolve, the server was not reached, or there was no memory.  The texts *)
(* of the url are not in the list: no path gives them back.                *)
ResourcesReturned ==
  /\ "memory" \notin faults =>
       \A d \in Descriptors : owner[d] # NoTask => pc[owner[d]] # "idle"
  /\ \A t \in Tasks : pc[t] \notin {"socket", "connect"} => lists[t] = 0
  /\ freedTwice => "socket" \in faults
  /\ \A t \in Tasks : pc[t] = "idle" => url[t] = {}
  /\ "struct" \in lost => faults \cap {"dns", "connect", "memory"} # {}

(* The headers can be told apart: a name that is looked for occurs once,   *)
(* its value fits, and no other header's name is the beginning of one.     *)
distinct(r) ==
  \A i \in 1..Len(r) :
    /\ \A name \in LookedFor : IsPrefix(r[i][1], name) => r[i][1] = name
    /\ r[i][1] \in LookedFor =>
         Len(r[i][2]) < KvLen /\ \A j \in 1..Len(r) : r[j][1] = r[i][1] => j = i

(* However the receive buffers cut the headers, the player is started with *)
(* the type and the interval the server sent, unless the response before   *)
(* ended inside its headers; one whole response later that is forgotten.   *)
HeadersAsSent ==
  \A t \in Tasks : pc[t] = "complete" /\ ~broke /\ distinct(response[t]) =>
    LET sent(name) == {h \in ToSet(response[t]) : h[1] = name}
    IN  /\ \A h \in sent(ContentType) : Last(h[2]) \in Known => content_type = Last(h[2])
        /\ \A h \in sent(IcyMetaint) : icymeta_interval = atoi(h[2])
        /\ sent(IcyMetaint) = {} => icymeta_interval = 0

(* The header buffers are overrun only by a key or a value that is longer  *)
(* than they are, or by one that follows the rest of a broken response.    *)
HeadersFit ==
  overran => broke \/ \E t \in Tasks : pc[t] = "headers"
                        /\ \E i \in 1..Len(response[t]) :
                             Len(response[t][i][1]) >= KvLen \/ Len(response[t][i][2]) >= KvLen

=============================================================================
