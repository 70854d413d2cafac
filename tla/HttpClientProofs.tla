---------------------------- MODULE HttpClientProofs ----------------------------
(***************************************************************************)
(* What http_client_get opens and allocates, for any number of HTTP tasks, *)
(* descriptors and requests, and whatever the servers send.  The second    *)
(* part is about the headers: what the buffers of the tasks hold at each   *)
(* place of a response, whichever pieces it arrives in.                    *)
(***************************************************************************)
EXTENDS HttpClient, SequenceTheorems, TLAPS

(* A task that has no socket to use has none open, and what it has open is *)
(* the number it knows: true until a call fails that loses one of the two. *)
Ownership ==
  /\ "write" \notin faults =>
       \A t \in Tasks : pc[t] \in WithSocket /\ sock[t] # -1 => owner[sock[t]] = t
  /\ "memory" \notin faults =>
       \A d \in Descriptors : owner[d] # NoTask =>
         pc[owner[d]] \in WithSocket /\ sock[owner[d]] = d

(* An address list exists from getaddrinfo until the connection stands or  *)
(* is given up; only without a socket is it gone before.                   *)
AddressLists ==
  /\ \A t \in Tasks :
       /\ pc[t] \notin {"socket", "connect"} => lists[t] = 0
       /\ pc[t] = "socket" => lists[t] = 1
       /\ pc[t] = "connect" /\ "socket" \notin faults => lists[t] = 1
  /\ freedTwice => "socket" \in faults

(* A task that is through holds nothing of its url, and the struct is lost *)
(* on no path but the three that return early.                             *)
UrlFreed ==
  /\ \A t \in Tasks : pc[t] = "idle" => url[t] = {}
  /\ "struct" \in lost => faults \cap {"dns", "connect", "memory"} # {}

HttpInv == HttpTypeOK /\ Ownership /\ AddressLists /\ UrlFreed

-----------------------------------------------------------------------------
LEMMA HttpInitInv == HttpInit => HttpInv
<1> SUFFICES ASSUME HttpInit PROVE HttpInv
  OBVIOUS
<1>1. HttpTypeOK
  BY DEF HttpInit, HttpTypeOK
<1>2. Ownership /\ AddressLists /\ UrlFreed
  BY HttpAssumption DEF HttpInit, Ownership, AddressLists, UrlFreed, NoTask, WithSocket
<1> QED BY <1>1, <1>2 DEF HttpInv

(* What the proof needs to know of the code's close: that nobody else's    *)
(* descriptor is concerned, unless a write() has failed.                   *)
LEMMA CloseGivesBack ==
  ASSUME HttpInv, NEW t \in Tasks, pc[t] \in WithSocket, close(t)
  PROVE  /\ owner' \in [Descriptors -> Tasks \cup {NoTask}]
         /\ \A d \in Descriptors : owner'[d] # NoTask => owner'[d] = owner[d] /\ d # sock[t]
         /\ "write" \notin faults =>
              \A d \in Descriptors : owner[d] # t => owner'[d] = owner[d]
  BY HttpAssumption DEF close, HttpInv, HttpTypeOK, Ownership

(* A task that closes its socket and is done leaves the others theirs.     *)
LEMMA LeavesOwnership ==
  ASSUME HttpInv, NEW t \in Tasks, pc[t] \in WithSocket, close(t),
         pc' = [pc EXCEPT ![t] = "idle"], UNCHANGED sock, faults \subseteq faults'
  PROVE  Ownership'
  <1>1. ASSUME "write" \notin faults, NEW u \in Tasks,
               pc'[u] \in WithSocket, sock[u] # -1
        PROVE  owner'[sock[u]] = u
    <2>1. u # t /\ pc[u] \in WithSocket /\ sock[u] \in Descriptors
      BY <1>1 DEF HttpInv, HttpTypeOK, WithSocket
    <2>2. owner[sock[u]] = u
      BY <1>1, <2>1 DEF HttpInv, Ownership
    <2> QED BY <1>1, <2>1, <2>2, CloseGivesBack
  <1>2. ASSUME "memory" \notin faults, NEW d \in Descriptors, owner'[d] # NoTask
        PROVE  pc'[owner'[d]] \in WithSocket /\ sock[owner'[d]] = d
    <2>1. owner'[d] = owner[d] /\ d # sock[t]
      BY <1>2, CloseGivesBack
    <2>2. pc[owner[d]] \in WithSocket /\ sock[owner[d]] = d
      BY <1>2, <2>1 DEF HttpInv, Ownership
    <2>3. owner[d] \in Tasks /\ owner[d] # t
      BY <1>2, <2>1, <2>2 DEF HttpInv, HttpTypeOK
    <2> QED BY <2>1, <2>2, <2>3 DEF HttpInv, HttpTypeOK
  <1> QED BY <1>1, <1>2 DEF Ownership

-----------------------------------------------------------------------------
(* The steps that touch what is open or allocated.                         *)

LEMMA RequestInv == ASSUME HttpInv, NEW t \in Tasks, Request(t) PROVE HttpInv'
<1>1. /\ pc[t] = "idle" /\ UNCHANGED <<sock, owner, freedTwice>>
      /\ \/ /\ pc' = [pc EXCEPT ![t] = "socket"] /\ lists' = [lists EXCEPT ![t] = 1]
            /\ url' = [url EXCEPT ![t] = Url] /\ UNCHANGED <<lost, faults>>
         \/ /\ lost' = lost \cup Url /\ faults' = faults \cup {"dns"}
            /\ UNCHANGED <<pc, lists, url>>
  BY DEF Request, goto
<1>2. HttpTypeOK'
  <2>1. pc' \in [Tasks -> Requesting \cup WithSocket \cup {"idle"}]
    BY <1>1 DEF HttpInv, HttpTypeOK, Requesting
  <2>2. lists' \in [Tasks -> {0, 1}] /\ url' \in [Tasks -> SUBSET Url] /\ lost' \subseteq Url
    BY <1>1 DEF HttpInv, HttpTypeOK
  <2> QED BY <1>1, <2>1, <2>2 DEF HttpInv, HttpTypeOK
<1>3. Ownership'
  BY <1>1, HttpAssumption DEF HttpInv, HttpTypeOK, Ownership, Requesting, WithSocket
<1>4. AddressLists'
  BY <1>1 DEF HttpInv, HttpTypeOK, AddressLists
<1>5. UrlFreed'
  BY <1>1 DEF HttpInv, HttpTypeOK, UrlFreed
<1> QED BY <1>2, <1>3, <1>4, <1>5 DEF HttpInv

(* What becomes of the url where a call returns early, and at its end.     *)
LEMMA ReturnsEarly ==
  ASSUME HttpInv, NEW t \in Tasks, returns(t), NEW f \in {"connect", "memory"},
         faults' = faults \cup {f}
  PROVE  url' \in [Tasks -> SUBSET Url] /\ lost' \subseteq Url /\ UrlFreed'
  BY DEF returns, goto, HttpInv, HttpTypeOK, UrlFreed

LEMMA StructIsFreed ==
  ASSUME HttpInv, NEW t \in Tasks, pc' = [pc EXCEPT ![t] = "idle"],
         lost' = lost \cup (url[t] \ {"struct"}), url' = [url EXCEPT ![t] = {}],
         UNCHANGED faults
  PROVE  url' \in [Tasks -> SUBSET Url] /\ lost' \subseteq Url /\ UrlFreed'
  BY DEF HttpInv, HttpTypeOK, UrlFreed

(* A task that goes on keeps its url.                                      *)
LEMMA UrlKept ==
  ASSUME HttpInv, NEW t \in Tasks, NEW p, pc' = [pc EXCEPT ![t] = p], p # "idle",
         UNCHANGED urlVars, faults \subseteq faults'
  PROVE  url' \in [Tasks -> SUBSET Url] /\ lost' \subseteq Url /\ UrlFreed'
  BY DEF urlVars, HttpInv, HttpTypeOK, UrlFreed

LEMMA SocketInv == ASSUME HttpInv, NEW t \in Tasks, Socket(t) PROVE HttpInv'
  <1>1. PICK d \in Descriptors :
          /\ owner[d] = NoTask
          /\ sock' = [sock EXCEPT ![t] = d] /\ owner' = [owner EXCEPT ![d] = t]
    BY DEF Socket, isLeastFree
  <1>2. /\ pc[t] = "socket" /\ pc' = [pc EXCEPT ![t] = "connect"]
        /\ UNCHANGED <<lists, freedTwice, faults, urlVars>>
    BY DEF Socket, goto, ghosts
  <1>3. HttpTypeOK'
    BY <1>1, <1>2, UrlKept DEF HttpInv, HttpTypeOK, Requesting, WithSocket
  <1>4. Ownership'
    BY <1>1, <1>2, HttpAssumption
    DEF HttpInv, HttpTypeOK, Ownership, NoTask, Requesting, WithSocket
  <1>5. AddressLists'
    BY <1>2 DEF HttpInv, HttpTypeOK, AddressLists
  <1> QED BY <1>2, <1>3, <1>4, <1>5, UrlKept DEF HttpInv

LEMMA SocketFailsInv == ASSUME HttpInv, NEW t \in Tasks, SocketFails(t) PROVE HttpInv'
  <1>0. url' \in [Tasks -> SUBSET Url] /\ lost' \subseteq Url /\ UrlFreed'
    BY UrlKept DEF SocketFails, goto
  <1>1. HttpTypeOK'
    <2>1. pc' \in [Tasks -> Requesting \cup WithSocket \cup {"idle"}]
      BY DEF SocketFails, goto, HttpInv, HttpTypeOK, Requesting
    <2>2. lists' \in [Tasks -> {0, 1}] /\ freedTwice' \in BOOLEAN
      BY DEF SocketFails, freeList, HttpInv, HttpTypeOK
    <2> QED BY <1>0, <2>1, <2>2 DEF SocketFails, HttpInv, HttpTypeOK
  <1>2. Ownership'
    BY HttpAssumption
    DEF SocketFails, goto, HttpInv, HttpTypeOK, Ownership, Requesting, WithSocket
  <1>3. AddressLists'
    BY DEF SocketFails, freeList, goto, HttpInv, HttpTypeOK, AddressLists
  <1> QED BY <1>0, <1>1, <1>2, <1>3 DEF HttpInv

LEMMA ConnectInv == ASSUME HttpInv, NEW t \in Tasks, Connect(t) PROVE HttpInv'
  <1>0. url' \in [Tasks -> SUBSET Url] /\ lost' \subseteq Url /\ UrlFreed'
    BY UrlKept DEF Connect, goto, ghosts
  <1>1. HttpTypeOK'
    <2>1. pc' \in [Tasks -> Requesting \cup WithSocket \cup {"idle"}]
      BY DEF Connect, goto, HttpInv, HttpTypeOK, Requesting
    <2>2. lists' \in [Tasks -> {0, 1}] /\ freedTwice' \in BOOLEAN
      BY DEF Connect, freeList, HttpInv, HttpTypeOK
    <2> QED BY <1>0, <2>1, <2>2 DEF Connect, ghosts, HttpInv, HttpTypeOK
  <1>2. Ownership'
    BY DEF Connect, goto, ghosts, HttpInv, HttpTypeOK, Ownership, Requesting, WithSocket
  <1>3. AddressLists'
    BY DEF Connect, freeList, goto, ghosts, HttpInv, HttpTypeOK, AddressLists
  <1> QED BY <1>0, <1>1, <1>2, <1>3 DEF HttpInv

LEMMA ConnectGivesUpInv ==
  ASSUME HttpInv, NEW t \in Tasks, ConnectGivesUp(t) PROVE HttpInv'
  <1>1. /\ pc[t] = "connect" /\ pc' = [pc EXCEPT ![t] = "idle"]
        /\ close(t) /\ UNCHANGED sock /\ faults' = faults \cup {"connect"}
    BY DEF ConnectGivesUp, returns, goto
  <1>0. url' \in [Tasks -> SUBSET Url] /\ lost' \subseteq Url /\ UrlFreed'
    BY <1>1, ReturnsEarly DEF ConnectGivesUp
  <1>2. pc[t] \in WithSocket
    BY <1>1 DEF WithSocket
  <1>3. HttpTypeOK'
    BY <1>0, <1>1, <1>2, CloseGivesBack
    DEF ConnectGivesUp, freeList, HttpInv, HttpTypeOK
  <1>4. Ownership'
    BY <1>1, <1>2, LeavesOwnership
  <1>5. AddressLists'
    BY <1>1 DEF ConnectGivesUp, freeList, HttpInv, HttpTypeOK, AddressLists
  <1> QED BY <1>0, <1>3, <1>4, <1>5 DEF HttpInv

LEMMA SendFailsInv == ASSUME HttpInv, NEW t \in Tasks, SendFails(t) PROVE HttpInv'
  <1>1. /\ pc[t] = "send" /\ pc' = [pc EXCEPT ![t] = "headers"]
        /\ close(t) /\ faults' = faults \cup {"write"}
        /\ UNCHANGED <<sock, lists, freedTwice, urlVars>>
    BY DEF SendFails, goto
  <1>0. url' \in [Tasks -> SUBSET Url] /\ lost' \subseteq Url /\ UrlFreed'
    BY <1>1, UrlKept
  <1>2. pc[t] \in WithSocket
    BY <1>1 DEF WithSocket
  <1>3. HttpTypeOK'
    BY <1>0, <1>1, <1>2, CloseGivesBack DEF HttpInv, HttpTypeOK, WithSocket
  <1>4. Ownership'
    BY <1>1, <1>2, CloseGivesBack DEF HttpInv, HttpTypeOK, Ownership, WithSocket
  <1>5. AddressLists'
    BY <1>1 DEF HttpInv, HttpTypeOK, AddressLists
  <1> QED BY <1>0, <1>3, <1>4, <1>5 DEF HttpInv

LEMMA NoMemoryInv == ASSUME HttpInv, NEW t \in Tasks, NoMemory(t) PROVE HttpInv'
  <1>1. /\ pc[t] = "send" /\ pc' = [pc EXCEPT ![t] = "idle"] /\ faults' = faults \cup {"memory"}
        /\ UNCHANGED <<sock, owner, lists, freedTwice>>
    BY DEF NoMemory, returns, goto
  <1>2. url' \in [Tasks -> SUBSET Url] /\ lost' \subseteq Url /\ UrlFreed'
    BY <1>1, ReturnsEarly DEF NoMemory
  <1>3. HttpTypeOK'
    BY <1>1, <1>2 DEF HttpInv, HttpTypeOK
  <1>4. Ownership' /\ AddressLists'
    BY <1>1 DEF HttpInv, HttpTypeOK, Ownership, AddressLists, WithSocket
  <1> QED BY <1>2, <1>3, <1>4 DEF HttpInv

LEMMA CloseInv == ASSUME HttpInv, NEW t \in Tasks, Close(t) PROVE HttpInv'
  <1>1. /\ pc[t] = "close" /\ pc' = [pc EXCEPT ![t] = "idle"]
        /\ close(t) /\ UNCHANGED <<sock, lists, freedTwice, faults>>
    BY DEF Close, goto, ghosts
  <1>0. url' \in [Tasks -> SUBSET Url] /\ lost' \subseteq Url /\ UrlFreed'
    BY <1>1, StructIsFreed DEF Close
  <1>2. pc[t] \in WithSocket
    BY <1>1 DEF WithSocket
  <1>3. HttpTypeOK'
    BY <1>0, <1>1, <1>2, CloseGivesBack DEF HttpInv, HttpTypeOK
  <1>4. Ownership'
    BY <1>1, <1>2, LeavesOwnership
  <1>5. AddressLists'
    BY <1>1 DEF HttpInv, HttpTypeOK, AddressLists
  <1> QED BY <1>0, <1>3, <1>4, <1>5 DEF HttpInv

(* A task that goes from one place with a socket to another, and no more.  *)
LEMMA OnlyMovesInv ==
  ASSUME HttpInv, NEW t \in Tasks, NEW p \in WithSocket \ {"connect"},
         pc[t] \in WithSocket \ {"connect"}, pc' = [pc EXCEPT ![t] = p],
         UNCHANGED <<sockVars, faults>>
  PROVE  HttpInv'
  BY DEF sockVars, urlVars, HttpInv, HttpTypeOK, Ownership, AddressLists, UrlFreed,
         Requesting, WithSocket

LEMMA NothingMovesInv ==
  ASSUME HttpInv,
         UNCHANGED <<pc, sock, owner, lists, freedTwice, urlVars, faults>>
  PROVE  HttpInv'
  BY DEF urlVars, HttpInv, HttpTypeOK, Ownership, AddressLists, UrlFreed

-----------------------------------------------------------------------------
LEMMA HttpNextInv == HttpInv /\ [HttpNext]_httpVars => HttpInv'
<1> SUFFICES ASSUME HttpInv, [HttpNext]_httpVars PROVE HttpInv'
  OBVIOUS
<1>1. CASE UNCHANGED httpVars
  BY <1>1, NothingMovesInv DEF httpVars, sockVars, ghosts
<1>2. ASSUME NEW t \in Tasks, Step(t) PROVE HttpInv'
  <2>1. CASE Request(t)
    BY <2>1, RequestInv
  <2>2. CASE Socket(t)
    BY <2>2, SocketInv
  <2>3. CASE SocketFails(t)
    BY <2>3, SocketFailsInv
  <2>4. CASE Connect(t)
    BY <2>4, ConnectInv
  <2>5. CASE ConnectFails(t)
    BY <2>5, NothingMovesInv DEF ConnectFails, ghosts
  <2>6. CASE ConnectGivesUp(t)
    BY <2>6, ConnectGivesUpInv
  <2>7. CASE Send(t)
    BY <2>7, OnlyMovesInv DEF Send, goto, WithSocket, ghosts
  <2>8. CASE SendFails(t)
    BY <2>8, SendFailsInv
  <2>9. CASE NoMemory(t)
    BY <2>9, NoMemoryInv
  <2>10. CASE \E n \in 1..KvLen : HeaderPiece(t, n)
    BY <2>10, NothingMovesInv DEF HeaderPiece, sockVars, ghosts
  <2>11. CASE on_headers_complete_cb(t)
    BY <2>11, OnlyMovesInv DEF on_headers_complete_cb, reading, goto, WithSocket, ghosts
  <2>12. CASE StartPlayer(t)
    BY <2>12, OnlyMovesInv DEF StartPlayer, goto, WithSocket
  <2>13. CASE HeadersBreak(t)
    BY <2>13, OnlyMovesInv DEF HeadersBreak, reading, goto, WithSocket
  <2>16. CASE HeadersError(t)
    BY <2>16, OnlyMovesInv DEF HeadersError, reading, goto, WithSocket
  <2>17. CASE HeaderReplayed(t)
    BY <2>17, NothingMovesInv DEF HeaderReplayed, sockVars, ghosts
  <2>18. CASE ReplayRefused(t)
    BY <2>18, OnlyMovesInv DEF ReplayRefused, goto, WithSocket, ghosts
  <2>14. CASE BodyEnds(t)
    BY <2>14, OnlyMovesInv DEF BodyEnds, goto, WithSocket, ghosts
  <2>15. CASE Close(t)
    BY <2>15, CloseInv
  <2> QED
    BY <1>2, <2>1, <2>2, <2>3, <2>4, <2>5, <2>6, <2>7, <2>8, <2>9, <2>10, <2>11, <2>12,
       <2>13, <2>14, <2>15, <2>16, <2>17, <2>18 DEF Step
<1> QED BY <1>1, <1>2 DEF HttpNext

LEMMA HttpInvariant == HttpSpec => []HttpInv
  BY HttpInitInv, HttpNextInv, PTL DEF HttpSpec

-----------------------------------------------------------------------------
(* Each task is at a place of http_client_get, descriptors stand for tasks *)
(* or for nobody, and no address list is taken twice.                      *)
THEOREM HttpTypeCorrect == HttpSpec => []HttpTypeOK
<1>1. HttpInv => HttpTypeOK
  BY DEF HttpInv
<1> QED BY <1>1, HttpInvariant, PTL

(* Until a write() fails, a task reads from and closes what it has opened, *)
(* however many tasks share the numbers that socket() gives out again.     *)
THEOREM OwnsItsDescriptor == HttpSpec => []OwnDescriptor
<1>1. HttpInv => OwnDescriptor
  BY DEF HttpInv, Ownership, OwnDescriptor
<1> QED BY <1>1, HttpInvariant, PTL

(* Whatever else fails, in whatever order, a request gives back its        *)
(* descriptor, on every path through http_client_get its addresses, and    *)
(* its url's struct on every path but the three early returns.             *)
THEOREM ReturnsResources == HttpSpec => []ResourcesReturned
<1>1. HttpInv => ResourcesReturned
  BY DEF HttpInv, HttpTypeOK, Ownership, AddressLists, UrlFreed, ResourcesReturned, WithSocket
<1> QED BY <1>1, HttpInvariant, PTL

-----------------------------------------------------------------------------
(* The headers                                                             *)

(* What a buffer holds when n words of a text have been handed over.       *)
held(words, n) == SubSeq(words, 1, IF n < KvLen THEN n ELSE KvLen - 1)

KeyIs(h, n) == hdr_key_buff = held(h[1], n) /\ hdr_key_buff_len = n
ValueIs(h, n) == hdr_value_buff = held(h[2], n) /\ hdr_value_buff_len = n

fieldOf(key) == CASE key = ContentType -> "content-type"
                   [] key = IcyMetaint -> "icy-metaint"
                   [] OTHER -> "other"

(* What the radio knows is what the first n headers of r say.              *)
Understood(r, n) ==
  /\ \A i \in 1..n :
       /\ r[i][1] = ContentType /\ Last(r[i][2]) \in Known => content_type = Last(r[i][2])
       /\ r[i][1] = IcyMetaint => icymeta_interval = atoi(r[i][2])
  /\ (\A i \in 1..n : r[i][1] # IcyMetaint) => icymeta_interval = 0

(* A value is being collected, and the headers before it are understood.   *)
CollectsValue(r, i, n) ==
  /\ ValueIs(r[i], n)
  /\ distinct(r) => curr_header_field = fieldOf(r[i][1]) /\ Understood(r, i - 1)

CollectsKey(r, i, n) == KeyIs(r[i], n) /\ (distinct(r) => Understood(r, i - 1))

(* The callbacks between the headers before place <<i, part, n>> and the   *)
(* rest.  A value is complete only when the next key begins.               *)
Collected(r, i, part, n) ==
  /\ part = "key" /\ n > 0 => CollectsKey(r, i, n)
  /\ part = "key" /\ n = 0 /\ i > 1 => CollectsValue(r, i - 1, Len(r[i - 1][2]))
  /\ part = "key" /\ n = 0 /\ i = 1 /\ distinct(r) => Understood(r, 0)
  /\ part = "value" /\ n > 0 => CollectsValue(r, i, n)
  /\ part = "value" /\ n = 0 => CollectsKey(r, i, Len(r[i][1]))

(* Before the first header nothing is being collected, unless the response *)
(* before ended inside its headers.                                        *)
StateAt(i, part, n) ==
  /\ part = "key" /\ n = 0 /\ i = 1 => hdr_state \in {"UNDEF", "COMPLETE"} \/ broke
  /\ part = "key" /\ n = 0 /\ i > 1 => hdr_state = "VALUE"
  /\ part = "key" /\ n > 0 => hdr_state = "KEY"
  /\ part = "value" => hdr_state = IF n = 0 THEN "KEY" ELSE "VALUE"

PlaceIn(r, i, part, n) ==
  \/ i = Len(r) + 1 /\ part = "key" /\ n = 0
  \/ /\ i \in 1..Len(r) /\ part \in {"key", "value"}
     /\ n \in 0..(Len(r[i][IF part = "key" THEN 1 ELSE 2]) - 1)

tooLong(r) ==
  \E i \in 1..Len(r) : Len(r[i][1]) >= KvLen \/ Len(r[i][2]) >= KvLen

(* What is not being collected is empty.                                   *)
NothingLeft ==
  /\ hdr_state # "KEY" => hdr_key_buff = <<>> /\ hdr_key_buff_len = 0
  /\ hdr_state # "VALUE" => hdr_value_buff = <<>> /\ hdr_value_buff_len = 0

Served(t) ==
  /\ pc[t] \in {"headers", "complete"} => response[t] \in Responses
  /\ pc[t] = "headers" =>
       \E i \in Nat, part \in {"key", "value"}, n \in Nat :
         /\ place[t] = <<i, part, n>> /\ PlaceIn(response[t], i, part, n)
         /\ ~overran => StateAt(i, part, n)
         /\ ~overran /\ ~broke => Collected(response[t], i, part, n)
  /\ pc[t] = "complete" =>
       hdr_state = "COMPLETE" /\ (~broke /\ distinct(response[t]) => Understood(response[t], Len(response[t])))
  /\ pc[t] = "replay" => broke

HeaderInv ==
  /\ pc \in [Tasks -> Requesting \cup WithSocket \cup {"idle"}]
  /\ hdr_state \in {"UNDEF", "KEY", "VALUE", "COMPLETE"}
  /\ DOMAIN response = Tasks /\ DOMAIN place = Tasks
  /\ \A t, u \in Tasks : pc[t] \in Requesting /\ pc[u] \in Requesting => t = u
  /\ \A t \in Tasks : Served(t)
  /\ NothingLeft
  /\ (\A t \in Tasks : pc[t] # "headers") => hdr_state \in {"UNDEF", "COMPLETE"} \/ broke
  /\ overran => \E t \in Tasks : pc[t] \in {"headers", "replay"}
                                /\ (broke \/ tooLong(response[t]))

LEMMA Texts ==
  ASSUME NEW r \in Responses
  PROVE  /\ Len(r) \in Nat \ {0}
         /\ \A i \in 1..Len(r), k \in {1, 2} : r[i][k] \in Seq(STRING) /\ Len(r[i][k]) \in Nat \ {0}
<1>1. r \in Seq(Words \X Words) /\ r # <<>>
  BY ResponsesAssumption
<1>2. Len(r) \in Nat \ {0}
  BY <1>1, EmptySeq
<1>3. ASSUME NEW i \in 1..Len(r), NEW k \in {1, 2}
      PROVE  r[i][k] \in Seq(STRING) /\ Len(r[i][k]) \in Nat \ {0}
  <2>1. r[i] \in Words \X Words
    BY <1>1, <1>3, ElementOfSeq
  <2>2. r[i][k] \in Seq(STRING) /\ r[i][k] # <<>>
    BY <2>1 DEF Words
  <2> QED BY <2>2, EmptySeq
<1> QED BY <1>2, <1>3

(* The piece with which a text has been handed over up to word k is added  *)
(* to what the buffer holds of the n words before.                         *)
IsAdded(words, n, k, piece) ==
  /\ Len(piece) = k - n
  /\ n < KvLen => /\ n + Len(copied(n, piece)) \in 0..(KvLen - 1)
                  /\ held(words, n) \o copied(n, piece) = held(words, k)
  /\ n >= KvLen => n + Len(copied(n, piece)) > KvLen - 1

(* A piece is added to a buffer: it is cut if it has to be, and the buffer *)
(* is overrun only if it was before.                                       *)
LEMMA PieceIsAdded ==
  ASSUME NEW words \in Seq(STRING), NEW n \in Nat, NEW k \in Nat, n < k, k <= Len(words),
         NEW piece, piece = SubSeq(words, n + 1, k)
  PROVE  IsAdded(words, n, k, piece)
<1> DEFINE last == KvLen - 1
<1>1. KvLen \in Nat \ {0} /\ last \in Nat /\ Len(words) \in Nat
  BY HttpAssumption
<1>2. piece \in Seq(STRING) /\ Len(piece) = k - n
  BY <1>1, SubSeqProperties
<1>3. CASE n >= KvLen
  BY <1>1, <1>2, <1>3 DEF IsAdded
<1>4. CASE n < KvLen /\ k < last
  <2>1. copied(n, piece) = piece
    BY <1>1, <1>2, <1>4 DEF copied
  <2>2. held(words, n) = SubSeq(words, 1, n) /\ held(words, k) = SubSeq(words, 1, k)
    BY <1>1, <1>4 DEF held
  <2>3. SubSeq(words, 1, n) \o SubSeq(words, n + 1, k) = SubSeq(words, 1, k)
    BY <1>1, ConcatAdjacentSubSeq
  <2>4. n + Len(copied(n, piece)) \in 0..(KvLen - 1)
    BY <1>1, <1>2, <1>4, <2>1
  <2>5. held(words, n) \o copied(n, piece) = held(words, k)
    BY <2>1, <2>2, <2>3
  <2> QED BY <1>1, <1>2, <1>4, <2>4, <2>5 DEF IsAdded
<1>5. CASE n < KvLen /\ k >= last
  <2>1. copied(n, piece) = SubSeq(piece, 1, last - n)
    BY <1>1, <1>2, <1>5 DEF copied
  <2>2. SubSeq(piece, 1, last - n) = SubSeq(words, n + 1, last)
    BY <1>1, <1>2, <1>5, SubSeqOfSubSeq
  <2>3. held(words, n) = SubSeq(words, 1, n) /\ held(words, k) = SubSeq(words, 1, last)
    BY <1>1, <1>5 DEF held
  <2>4. SubSeq(words, 1, n) \o SubSeq(words, n + 1, last) = SubSeq(words, 1, last)
    BY <1>1, <1>5, ConcatAdjacentSubSeq
  <2>5. Len(SubSeq(piece, 1, last - n)) = last - n
    BY <1>1, <1>2, <1>5, SubSeqProperties
  <2>6. n + Len(copied(n, piece)) \in 0..(KvLen - 1)
    BY <1>1, <1>5, <2>1, <2>5
  <2>7. held(words, n) \o copied(n, piece) = held(words, k)
    BY <2>1, <2>2, <2>3, <2>4
  <2> QED BY <1>1, <1>2, <1>5, <2>6, <2>7 DEF IsAdded
<1> QED BY <1>1, <1>3, <1>4, <1>5

(* A key that is complete is recognized: strncmp compares what is there of *)
(* it, and no other key is the beginning of a name.                        *)
LEMMA KeyIsRecognized ==
  ASSUME NEW r \in Responses, NEW i \in 1..Len(r), distinct(r), KeyIs(r[i], Len(r[i][1])),
         NEW key \in LookedFor
  PROVE  isNamed(key) <=> r[i][1] = key
<1> DEFINE words == r[i][1]
<1>1. words \in Seq(STRING) /\ Len(words) \in Nat /\ KvLen \in Nat
  BY Texts, HttpAssumption
<1>2. Len(key) \in Nat /\ Len(key) + 1 < KvLen
  <2>1. PICK a, b : key = <<a, b>>
    BY DEF LookedFor, ContentType, IcyMetaint
  <2>2. Len(key) = 2
    BY <2>1
  <2>3. Len(key) + 1 < KvLen
    BY NamesFit, Zenon
  <2> QED BY <2>2, <2>3
<1>3. CASE Len(words) < KvLen
  <2>1. hdr_key_buff = words /\ hdr_key_buff_len = Len(words)
    BY <1>1, <1>3, SubSeqFull DEF KeyIs, held
  <2>2. IsPrefix(words, key) => words = key
    BY DEF distinct
  <2>3. IsPrefix(key, key)
    BY <1>2 DEF IsPrefix
  <2> QED BY <1>1, <2>1, <2>2, <2>3 DEF isNamed
<1>4. CASE Len(words) >= KvLen
  <2>1. hdr_key_buff = SubSeq(words, 1, KvLen - 1)
    BY <1>1, <1>4 DEF KeyIs, held
  <2>2. Len(hdr_key_buff) = KvLen - 1
    BY <1>1, <1>2, <1>4, <2>1, SubSeqProperties
  <2>3. ~IsPrefix(hdr_key_buff, key)
    BY <1>1, <1>2, <2>2 DEF IsPrefix
  <2> QED BY <1>1, <1>2, <1>4, <2>3 DEF isNamed
<1> QED BY <1>1, <1>3, <1>4

LEMMA KeyCompletes ==
  ASSUME NEW r \in Responses, NEW i \in 1..Len(r), distinct(r), KeyIs(r[i], Len(r[i][1])),
         process_header_key_complete
  PROVE  curr_header_field' = fieldOf(r[i][1])
<1>1. /\ isNamed(ContentType) <=> r[i][1] = ContentType
      /\ isNamed(IcyMetaint) <=> r[i][1] = IcyMetaint
  BY KeyIsRecognized DEF LookedFor
<1> QED BY <1>1 DEF process_header_key_complete, fieldOf

LEMMA ValueCompletes ==
  ASSUME NEW r \in Responses, NEW i \in 1..Len(r), distinct(r), ValueIs(r[i], Len(r[i][2])),
         curr_header_field = fieldOf(r[i][1]), Understood(r, i - 1), valueMeans
  PROVE  Understood(r, i)'
<1> DEFINE name == r[i][1]
           value == r[i][2]
<1>1. Len(r) \in Nat /\ value \in Seq(STRING) /\ Len(value) \in Nat \ {0} /\ KvLen \in Nat
  BY Texts, HttpAssumption
<1>2. name \in LookedFor => hdr_value_buff = value /\ value # <<>>
  BY <1>1, SubSeqFull DEF distinct, ValueIs, held
<1>3. \A j \in 1..(i - 1) : r[j][1] \in LookedFor => r[j][1] # name
  BY <1>1 DEF distinct
<1>4. ContentType # IcyMetaint /\ ContentType \in LookedFor /\ IcyMetaint \in LookedFor
  BY DEF ContentType, IcyMetaint, LookedFor
<1>5. CASE name = ContentType
  <2>1. curr_header_field = "content-type"
    BY <1>4, <1>5 DEF fieldOf
  <2>2. icymeta_interval' = icymeta_interval
        /\ (Last(value) \in Known => content_type' = Last(value))
    BY <1>2, <1>4, <1>5, <2>1 DEF valueMeans
  <2> QED BY <1>1, <1>3, <1>4, <1>5, <2>2 DEF Understood
<1>6. CASE name = IcyMetaint
  <2>1. curr_header_field = "icy-metaint"
    BY <1>4, <1>6 DEF fieldOf
  <2>2. icymeta_interval' = atoi(value) /\ content_type' = content_type
    BY <1>2, <1>4, <1>6, <2>1 DEF valueMeans
  <2> QED BY <1>1, <1>3, <1>4, <1>6, <2>2 DEF Understood
<1>7. CASE name \notin LookedFor
  <2>1. curr_header_field = "other"
    BY <1>4, <1>7 DEF fieldOf
  <2>2. icymeta_interval' = icymeta_interval /\ content_type' = content_type
    BY <2>1 DEF valueMeans
  <2> QED BY <1>1, <1>4, <1>7, <2>2 DEF Understood
<1> QED BY <1>5, <1>6, <1>7 DEF LookedFor

-----------------------------------------------------------------------------
(* Where a response is                                                     *)

textOf(r, i, part) == r[i][IF part = "key" THEN 1 ELSE 2]

placeAfter(r, i, part, n) ==
  IF n < Len(textOf(r, i, part)) THEN <<i, part, n>>
  ELSE IF part = "key" THEN <<i, "value", 0>> ELSE <<i + 1, "key", 0>>

(* The piece that comes next is the next words of the text at the place:   *)
(* the place moves behind it, and it is added to what a buffer holds of    *)
(* that text.                                                              *)
(* At place <<i, part, n>> of response r the parser hands over a piece of  *)
(* m words, which brings it to word k of the text there.                   *)
PieceAt(t, r, i, part, n, m, words, k) ==
  /\ response[t] = r /\ place[t] = <<i, part, n>> /\ PlaceIn(r, i, part, n)
  /\ headersLeft(t) /\ m \in 1..KvLen /\ m <= Len(partLeft(t))
  /\ words = textOf(r, i, part) /\ k = n + m

LEMMA TextAtPlace ==
  ASSUME NEW t \in Tasks, NEW r \in Responses,
         NEW i \in Nat, NEW part \in {"key", "value"}, NEW n \in Nat,
         NEW m, NEW words, NEW k, PieceAt(t, r, i, part, n, m, words, k)
  PROVE  /\ i \in 1..Len(r) /\ words \in Seq(STRING) /\ Len(words) \in Nat \ {0}
         /\ Len(partLeft(t)) = Len(words) - n
         /\ m \in Nat /\ k \in Nat /\ n < k /\ k <= Len(words)
<1>1. KvLen \in Nat /\ m \in Nat /\ m > 0 /\ Len(r) \in Nat
  BY HttpAssumption, Texts DEF PieceAt
<1>2. place[t][1] = i /\ place[t][2] = part /\ place[t][3] = n
  BY DEF PieceAt
<1>3. i \in 1..Len(r)
  BY <1>1, <1>2 DEF PieceAt, headersLeft, PlaceIn
<1>4. words \in Seq(STRING) /\ Len(words) \in Nat \ {0}
  BY <1>3, Texts DEF PieceAt, textOf
<1>5. partLeft(t) = SubSeq(words, n + 1, Len(words))
  BY <1>2 DEF PieceAt, partLeft, header, textOf
<1>6. n \in 0..(Len(words) - 1)
  BY <1>1, <1>3 DEF PieceAt, PlaceIn, textOf
<1>7. Len(partLeft(t)) = Len(words) - n
  BY <1>4, <1>5, <1>6, SubSeqProperties
<1> QED BY <1>1, <1>3, <1>4, <1>7 DEF PieceAt

LEMMA PieceEnds ==
  ASSUME NEW t \in Tasks, NEW r \in Responses,
         NEW i \in Nat, NEW part \in {"key", "value"}, NEW n \in Nat,
         NEW m, NEW words, NEW k, PieceAt(t, r, i, part, n, m, words, k)
  PROVE  /\ i \in 1..Len(r) /\ Len(words) \in Nat \ {0}
         /\ k \in Nat /\ n < k /\ k <= Len(words)
         /\ k < Len(words) \/ k = Len(words)
<1>1. i \in 1..Len(r) /\ Len(words) \in Nat \ {0} /\ k \in Nat /\ n < k /\ k <= Len(words)
  BY TextAtPlace
<1>2. \A a, b \in Nat : a <= b => a < b \/ a = b
  OBVIOUS
<1>3. k < Len(words) \/ k = Len(words)
  BY <1>1, <1>2, Zenon
<1> QED BY <1>1, <1>3

LEMMA PieceMoves ==
  ASSUME NEW t \in Tasks, NEW r \in Responses,
         NEW i \in Nat, NEW part \in {"key", "value"}, NEW n \in Nat,
         NEW m, NEW words, NEW k, PieceAt(t, r, i, part, n, m, words, k), passed(t, m)
  PROVE  place' = [place EXCEPT ![t] = placeAfter(r, i, part, k)]
<1>1. (m < Len(partLeft(t)) <=> k < Len(words)) /\ k = n + m
  BY TextAtPlace DEF PieceAt
<1>2. /\ place[t][1] = i /\ place[t][2] = part /\ place[t][3] = n
      /\ response[t] = r /\ words = textOf(r, i, part)
  BY DEF PieceAt
<1> QED BY <1>1, <1>2 DEF passed, placeAfter

LEMMA PieceIsNext ==
  ASSUME NEW t \in Tasks, NEW r \in Responses,
         NEW i \in Nat, NEW part \in {"key", "value"}, NEW n \in Nat,
         NEW m, NEW words, NEW k, PieceAt(t, r, i, part, n, m, words, k),
         NEW piece, piece = SubSeq(partLeft(t), 1, m)
  PROVE  IsAdded(words, n, k, piece)
<1>1. /\ words \in Seq(STRING) /\ Len(words) \in Nat
      /\ m \in Nat /\ k \in Nat /\ n < k /\ k <= Len(words) /\ k = n + m
  BY TextAtPlace DEF PieceAt
<1>2. partLeft(t) = SubSeq(words, n + 1, Len(words))
  <2>1. place[t][1] = i /\ place[t][2] = part /\ place[t][3] = n
    BY DEF PieceAt
  <2> QED BY <2>1 DEF PieceAt, partLeft, header, textOf
<1>3. SubSeq(SubSeq(words, n + 1, Len(words)), 1, m) = SubSeq(words, n + 1, n + m)
  BY <1>1, SubSeqOfSubSeq
<1>4. piece = SubSeq(SubSeq(words, n + 1, Len(words)), 1, m)
  BY <1>2
<1>5. piece = SubSeq(words, n + 1, k)
  BY <1>1, <1>3, <1>4, Zenon
<1> QED BY <1>1, <1>5, PieceIsAdded

LEMMA PlacesIn ==
  ASSUME NEW r \in Responses, NEW i \in 1..Len(r), NEW part \in {"key", "value"}
  PROVE  /\ \A n \in Nat : n < Len(textOf(r, i, part)) => PlaceIn(r, i, part, n)
         /\ PlaceIn(r, i, "value", 0) /\ PlaceIn(r, i + 1, "key", 0)
<1>1. Len(r) \in Nat /\ i + 1 \in Nat /\ \A k \in {1, 2} : Len(r[i][k]) \in Nat \ {0}
  BY Texts
<1>2. PlaceIn(r, i, "value", 0) /\ \A n \in Nat : n < Len(textOf(r, i, part)) => PlaceIn(r, i, part, n)
  BY <1>1 DEF PlaceIn, textOf
<1>3. CASE i = Len(r)
  BY <1>1, <1>2, <1>3 DEF PlaceIn
<1>4. CASE i # Len(r)
  <2>1. i + 1 \in 1..Len(r)
    BY <1>1, <1>4
  <2>2. Len(r[i + 1][1]) \in Nat \ {0}
    BY <2>1, Texts
  <2> QED BY <1>2, <2>1, <2>2 DEF PlaceIn
<1> QED BY <1>3, <1>4

-----------------------------------------------------------------------------
(* The steps of the one task that is in front of its body                  *)

(* The steps of that task leave the others, which have their headers       *)
(* behind them, where they are.                                            *)
LEMMA OneTaskSteps ==
  ASSUME HeaderInv, NEW t \in Tasks, pc[t] \in Requesting,
         NEW p \in Requesting \cup WithSocket \cup {"idle"}, pc' = [pc EXCEPT ![t] = p],
         DOMAIN place' = Tasks, DOMAIN response' = Tasks,
         Served(t)', NothingLeft',
         hdr_state' \in {"UNDEF", "KEY", "VALUE", "COMPLETE"},
         p # "headers" => hdr_state' \in {"UNDEF", "COMPLETE"} \/ broke',
         overran' => p \in {"headers", "replay"} /\ (broke' \/ tooLong(response'[t]))
  PROVE  HeaderInv'
<1>1. pc' \in [Tasks -> Requesting \cup WithSocket \cup {"idle"}]
      /\ DOMAIN response' = Tasks /\ DOMAIN place' = Tasks
  BY DEF HeaderInv
<1>2. pc'[t] = p /\ \A u \in Tasks \ {t} : pc'[u] = pc[u] /\ pc[u] \notin Requesting
  BY DEF HeaderInv
<1>3. ASSUME NEW u \in Tasks \ {t} PROVE Served(u)'
  BY <1>2 DEF Served, Requesting
<1>4. \A u, v \in Tasks : pc'[u] \in Requesting /\ pc'[v] \in Requesting => u = v
  BY <1>2
<1>5. (\A u \in Tasks : pc'[u] # "headers") => hdr_state' \in {"UNDEF", "COMPLETE"} \/ broke'
  BY <1>2
<1>6. (overran => \E u \in Tasks : pc[u] \in {"headers", "replay"}
                                   /\ (broke \/ tooLong(response[u])))'
  BY <1>2 DEF tooLong
<1> QED BY <1>1, <1>3, <1>4, <1>5, <1>6 DEF HeaderInv

LEMMA QuietStep ==
  ASSUME HeaderInv, NEW t \in Tasks, pc[t] \notin {"headers", "replay", "complete"},
         NEW p \in {"socket", "connect", "send", "body", "close", "idle"},
         p \in Requesting => pc[t] \in Requesting,
         pc' = [pc EXCEPT ![t] = p], UNCHANGED <<serverVars, hdrVars, broke>>
  PROVE  HeaderInv'
<1>1. UNCHANGED <<response, place, hdr_state, hdr_key_buff, hdr_key_buff_len,
                  hdr_value_buff, hdr_value_buff_len, curr_header_field, content_type,
                  icymeta_interval, overran, broke>>
  BY DEF serverVars, hdrVars, keyVars, valueVars
<1>2. pc' \in [Tasks -> Requesting \cup WithSocket \cup {"idle"}]
  BY DEF HeaderInv, Requesting, WithSocket
<1>3. \A u \in Tasks : pc'[u] = IF u = t THEN p ELSE pc[u]
  BY DEF HeaderInv
<1>4. ASSUME NEW u \in Tasks PROVE Served(u)'
  <2>1. Served(u)
    BY DEF HeaderInv
  <2>2. CASE u = t
    <3> QED BY <1>3, <2>2 DEF Served
  <2>3. CASE u # t
    <3>1. pc'[u] = pc[u]
      BY <1>3, <2>3
    <3> QED BY <1>1, <2>1, <3>1 DEF Served, StateAt, Collected, CollectsKey, CollectsValue,
                                    KeyIs, ValueIs, Understood
  <2> QED BY <2>2, <2>3
<1>5. NothingLeft'
  BY <1>1 DEF HeaderInv, NothingLeft
<1>6. \A u, v \in Tasks : pc'[u] \in Requesting /\ pc'[v] \in Requesting => u = v
  BY <1>3 DEF HeaderInv
<1>7. \A u \in Tasks : (pc'[u] = "headers" <=> pc[u] = "headers")
                       /\ (pc'[u] = "replay" <=> pc[u] = "replay")
  BY <1>3
<1>8. (\A u \in Tasks : pc'[u] # "headers") => hdr_state' \in {"UNDEF", "COMPLETE"} \/ broke'
  BY <1>1, <1>7 DEF HeaderInv
<1>9. (overran => \E u \in Tasks : pc[u] \in {"headers", "replay"}
                                   /\ (broke \/ tooLong(response[u])))'
  BY <1>1, <1>7 DEF HeaderInv, tooLong
<1> QED BY <1>1, <1>2, <1>4, <1>5, <1>6, <1>8, <1>9 DEF HeaderInv

(* What holds while the headers are read, at the place of the response.    *)
Reading(t, r, i, part, n) ==
  /\ HeaderInv /\ ~overran /\ pc[t] = "headers"
  /\ response[t] = r /\ place[t] = <<i, part, n>>
  /\ PlaceIn(r, i, part, n) /\ StateAt(i, part, n)
  /\ ~broke => Collected(r, i, part, n)

LEMMA ReadingIs ==
  ASSUME HeaderInv, NEW t \in Tasks, reading(t)
  PROVE  \E r \in Responses, i \in Nat, part \in {"key", "value"}, n \in Nat :
           Reading(t, r, i, part, n)
<1>1. pc[t] = "headers" /\ ~overran /\ Served(t) /\ pc[t] \in Requesting
  BY DEF HeaderInv, reading, Requesting
<1>2. PICK i \in Nat, part \in {"key", "value"}, n \in Nat :
        /\ place[t] = <<i, part, n>> /\ PlaceIn(response[t], i, part, n)
        /\ StateAt(i, part, n)
        /\ ~broke => Collected(response[t], i, part, n)
  BY <1>1 DEF Served
<1>3. response[t] \in Responses
  BY <1>1 DEF Served
<1> QED BY <1>1, <1>2, <1>3 DEF Reading

LEMMA ServedAt ==
  ASSUME NEW t \in Tasks, NEW r \in Responses, response'[t] = r, pc'[t] = "headers",
         NEW i \in Nat, NEW part \in {"key", "value"}, NEW n \in Nat,
         place'[t] = <<i, part, n>>, PlaceIn(r, i, part, n), ~overran' => StateAt(i, part, n)',
         ~overran' /\ ~broke' => Collected(r, i, part, n)'
  PROVE  Served(t)'
<1>1. (\E j \in Nat, p \in {"key", "value"}, k \in Nat :
         /\ place[t] = <<j, p, k>> /\ PlaceIn(response[t], j, p, k)
         /\ ~overran => StateAt(j, p, k)
         /\ ~overran /\ ~broke => Collected(response[t], j, p, k))'
  OBVIOUS
<1> QED BY <1>1 DEF Served

LEMMA KeyPiece ==
  ASSUME NEW t \in Tasks, NEW r \in Responses, NEW i \in Nat, NEW n \in Nat,
         Reading(t, r, i, "key", n), headersLeft(t),
         NEW m \in 1..KvLen, m <= Len(partLeft(t)), passed(t, m),
         NEW piece, piece = SubSeq(partLeft(t), 1, m), process_header_key(piece),
         NEW words, words = r[i][1], NEW k, k = n + m,
         UNCHANGED <<pc, response, broke>>
  PROVE  HeaderInv'
<1>0. textOf(r, i, "key") = words
  BY DEF textOf
<1>1. /\ HeaderInv /\ ~overran /\ pc[t] = "headers"
      /\ response[t] = r /\ place[t] = <<i, "key", n>>
      /\ PlaceIn(r, i, "key", n) /\ StateAt(i, "key", n)
      /\ ~broke => Collected(r, i, "key", n)
  BY DEF Reading
<1>2. /\ i \in 1..Len(r) /\ Len(words) \in Nat \ {0}
      /\ k \in Nat /\ n < k /\ k <= Len(words)
      /\ k < Len(words) \/ k = Len(words)
      /\ place' = [place EXCEPT ![t] = placeAfter(r, i, "key", k)]
  <2>1. PieceAt(t, r, i, "key", n, m, words, k)
    BY <1>0, <1>1 DEF PieceAt
  <2>2. i \in 1..Len(r) /\ Len(words) \in Nat \ {0} /\ k \in Nat /\ n < k /\ k <= Len(words)
        /\ (k < Len(words) \/ k = Len(words))
    BY <2>1, PieceEnds, SMTT(60)
  <2>3. place' = [place EXCEPT ![t] = placeAfter(r, i, "key", k)]
    BY <2>1, PieceMoves
  <2> QED BY <2>2, <2>3
<1>3. IsAdded(words, n, k, piece)
  <2>1. PieceAt(t, r, i, "key", n, m, words, k)
    BY <1>0, <1>1 DEF PieceAt
  <2> QED BY <2>1, PieceIsNext
<1>4. /\ hdr_key_buff' = hdr_key_buff \o copied(hdr_key_buff_len, piece)
      /\ hdr_key_buff_len' = hdr_key_buff_len + Len(piece)
      /\ (overran' <=> hdr_key_buff_len + Len(copied(hdr_key_buff_len, piece)) > KvLen - 1)
      /\ hdr_state' = "KEY"
      /\ IF hdr_state = "VALUE" THEN process_header_value_complete ELSE UNCHANGED valueVars
  BY DEF process_header_key, runsOver
<1>5. NothingLeft /\ KvLen \in Nat \ {0}
  BY <1>1, HttpAssumption DEF HeaderInv
<1>6. n = 0 => hdr_state # "KEY" \/ broke
  BY <1>1, <1>2 DEF StateAt
<1>7. ASSUME ~broke PROVE KeyIs(r[i], n)
  <2>1. CASE n = 0
    <3>1. held(words, 0) = <<>>
      BY <1>2, <1>5, Texts, SubSeqEmpty DEF held
    <3> QED BY <1>5, <1>6, <1>7, <2>1, <3>1 DEF NothingLeft, KeyIs
  <2>2. CASE n > 0
    BY <1>1, <1>7, <2>2 DEF Collected, CollectsKey
  <2> QED BY <2>1, <2>2
<1>8. ASSUME ~broke PROVE overran' => n >= KvLen
  <2>1. overran' <=> n + Len(copied(n, piece)) > KvLen - 1
    BY <1>4, <1>7, <1>8 DEF KeyIs
  <2> QED BY <1>2, <1>3, <1>5, <2>1 DEF IsAdded
<1>9. ASSUME ~broke, ~overran' PROVE KeyIs(r[i], k)'
  <2>1. /\ (overran' <=> n + Len(copied(n, piece)) > KvLen - 1)
        /\ hdr_key_buff' = held(words, n) \o copied(n, piece)
        /\ hdr_key_buff_len' = n + Len(piece)
    BY <1>4, <1>7, <1>9 DEF KeyIs
  <2>2. n < KvLen
    BY <1>2, <1>3, <1>5, <1>9, <2>1 DEF IsAdded
  <2>3. hdr_key_buff' = held(words, k)
    BY <1>3, <2>1, <2>2 DEF IsAdded
  <2>4. hdr_key_buff_len' = k
    BY <1>2, <1>3, <2>1 DEF IsAdded
  <2> QED BY <2>3, <2>4 DEF KeyIs
<1>10. ASSUME ~broke, distinct(r) PROVE Understood(r, i - 1)'
  <2>1. CASE n > 0
    <3>1. Understood(r, i - 1) /\ hdr_state # "VALUE"
      BY <1>1, <1>10, <2>1 DEF Collected, CollectsKey, StateAt
    <3> QED BY <1>4, <3>1 DEF Understood, valueVars
  <2>2. CASE n = 0 /\ i = 1
    <3>1. Understood(r, i - 1) /\ hdr_state # "VALUE"
      BY <1>1, <1>10, <2>2 DEF Collected, StateAt
    <3> QED BY <1>4, <3>1 DEF Understood, valueVars
  <2>3. CASE n = 0 /\ i > 1
    <3>1. i - 1 \in 1..Len(r) /\ hdr_state = "VALUE"
      BY <1>1, <1>2, <2>3, Texts DEF StateAt
    <3>2. /\ ValueIs(r[i - 1], Len(r[i - 1][2]))
          /\ curr_header_field = fieldOf(r[i - 1][1]) /\ Understood(r, (i - 1) - 1)
      BY <1>1, <1>10, <2>3 DEF Collected, CollectsValue
    <3>3. valueMeans
      BY <1>4, <3>1 DEF process_header_value_complete
    <3> QED BY <1>10, <3>1, <3>2, <3>3, ValueCompletes
  <2> QED BY <1>2, <2>1, <2>2, <2>3
<1>11. NothingLeft'
  BY <1>4, <1>5 DEF NothingLeft, process_header_value_complete, valueVars
<1>12. overran' => broke' \/ tooLong(r)
  BY <1>2, <1>5, <1>8 DEF tooLong
<1>13. Served(t)'
  <2>1. place'[t] = placeAfter(r, i, "key", k) /\ response'[t] = r /\ pc'[t] = "headers"
    BY <1>1, <1>2 DEF HeaderInv
  <2>2. CASE k < Len(words)
    <3>1. place'[t] = <<i, "key", k>> /\ PlaceIn(r, i, "key", k)
      BY <1>2, <2>1, <2>2, <1>0, PlacesIn DEF placeAfter
    <3>2. StateAt(i, "key", k)'
      BY <1>2, <1>4 DEF StateAt
    <3>3. ~overran' /\ ~broke' => Collected(r, i, "key", k)'
      BY <1>2, <1>9, <1>10 DEF Collected, CollectsKey
    <3> QED BY <1>2, <2>1, <3>1, <3>2, <3>3, ServedAt
  <2>3. CASE k = Len(words)
    <3>1. place'[t] = <<i, "value", 0>> /\ PlaceIn(r, i, "value", 0)
      BY <1>2, <2>1, <2>3, <1>0, PlacesIn DEF placeAfter
    <3>2. StateAt(i, "value", 0)'
      BY <1>4 DEF StateAt
    <3>3. ~overran' /\ ~broke' => Collected(r, i, "value", 0)'
      BY <1>2, <1>9, <1>10, <2>3 DEF Collected, CollectsKey
    <3> QED BY <1>2, <2>1, <3>1, <3>2, <3>3, ServedAt
  <2>4. k < Len(words) \/ k = Len(words)
    BY <1>2, Zenon
  <2> QED BY <2>2, <2>3, <2>4
<1>14. pc' = [pc EXCEPT ![t] = "headers"] /\ pc[t] \in Requesting /\ DOMAIN place' = Tasks
       /\ DOMAIN response' = Tasks /\ response'[t] = r
  BY <1>1, <1>2 DEF HeaderInv, Requesting
<1> QED BY <1>1, <1>2, <1>4, <1>11, <1>12, <1>13, <1>14, OneTaskSteps DEF Requesting

LEMMA ValuePiece ==
  ASSUME NEW t \in Tasks, NEW r \in Responses, NEW i \in Nat, NEW n \in Nat,
         Reading(t, r, i, "value", n), headersLeft(t),
         NEW m \in 1..KvLen, m <= Len(partLeft(t)), passed(t, m),
         NEW piece, piece = SubSeq(partLeft(t), 1, m), process_header_value(piece),
         NEW words, words = r[i][2], NEW k, k = n + m,
         UNCHANGED <<pc, response, broke>>
  PROVE  HeaderInv'
<1>0. textOf(r, i, "value") = words
  BY DEF textOf
<1>1. /\ HeaderInv /\ ~overran /\ pc[t] = "headers"
      /\ response[t] = r /\ place[t] = <<i, "value", n>>
      /\ PlaceIn(r, i, "value", n) /\ hdr_state = IF n = 0 THEN "KEY" ELSE "VALUE"
      /\ ~broke => Collected(r, i, "value", n)
  BY DEF Reading, StateAt
<1>2. /\ i \in 1..Len(r) /\ Len(words) \in Nat \ {0}
      /\ k \in Nat /\ n < k /\ k <= Len(words)
      /\ k < Len(words) \/ k = Len(words)
      /\ place' = [place EXCEPT ![t] = placeAfter(r, i, "value", k)]
  <2>1. PieceAt(t, r, i, "value", n, m, words, k)
    BY <1>0, <1>1 DEF PieceAt
  <2>2. i \in 1..Len(r) /\ Len(words) \in Nat \ {0} /\ k \in Nat /\ n < k /\ k <= Len(words)
        /\ (k < Len(words) \/ k = Len(words))
    BY <2>1, PieceEnds, SMTT(60)
  <2>3. place' = [place EXCEPT ![t] = placeAfter(r, i, "value", k)]
    BY <2>1, PieceMoves
  <2> QED BY <2>2, <2>3
<1>3. IsAdded(words, n, k, piece)
  <2>1. PieceAt(t, r, i, "value", n, m, words, k)
    BY <1>0, <1>1 DEF PieceAt
  <2> QED BY <2>1, PieceIsNext
<1>4. /\ hdr_value_buff' = hdr_value_buff \o copied(hdr_value_buff_len, piece)
      /\ hdr_value_buff_len' = hdr_value_buff_len + Len(piece)
      /\ (overran' <=> hdr_value_buff_len + Len(copied(hdr_value_buff_len, piece)) > KvLen - 1)
      /\ hdr_state' = "VALUE"
      /\ IF hdr_state = "KEY" THEN process_header_key_complete ELSE UNCHANGED keyVars
      /\ UNCHANGED <<content_type, icymeta_interval>>
  BY DEF process_header_value, runsOver
<1>5. NothingLeft /\ KvLen \in Nat \ {0}
  BY <1>1, HttpAssumption DEF HeaderInv
<1>6. ASSUME ~broke PROVE ValueIs(r[i], n)
  <2>1. CASE n = 0
    <3>1. held(words, 0) = <<>>
      BY <1>2, <1>5, Texts, SubSeqEmpty DEF held
    <3> QED BY <1>1, <1>5, <2>1, <3>1 DEF NothingLeft, ValueIs
  <2>2. CASE n > 0
    BY <1>1, <1>6, <2>2 DEF Collected, CollectsValue
  <2> QED BY <2>1, <2>2
<1>7. ASSUME ~broke PROVE overran' => n >= KvLen
  <2>1. overran' <=> n + Len(copied(n, piece)) > KvLen - 1
    BY <1>4, <1>6, <1>7 DEF ValueIs
  <2> QED BY <1>2, <1>3, <1>5, <2>1 DEF IsAdded
<1>8. ASSUME ~broke, ~overran' PROVE ValueIs(r[i], k)'
  <2>1. /\ (overran' <=> n + Len(copied(n, piece)) > KvLen - 1)
        /\ hdr_value_buff' = held(words, n) \o copied(n, piece)
        /\ hdr_value_buff_len' = n + Len(piece)
    BY <1>4, <1>6, <1>8 DEF ValueIs
  <2>2. n < KvLen
    BY <1>2, <1>3, <1>5, <1>8, <2>1 DEF IsAdded
  <2>3. hdr_value_buff' = held(words, k)
    BY <1>3, <2>1, <2>2 DEF IsAdded
  <2>4. hdr_value_buff_len' = k
    BY <1>2, <1>3, <2>1 DEF IsAdded
  <2> QED BY <2>3, <2>4 DEF ValueIs
<1>9. ASSUME ~broke, distinct(r)
      PROVE  curr_header_field' = fieldOf(r[i][1]) /\ Understood(r, i - 1)'
  <2>1. Understood(r, i - 1) => Understood(r, i - 1)'
    BY <1>4 DEF Understood
  <2>2. CASE n > 0
    <3>1. curr_header_field = fieldOf(r[i][1]) /\ Understood(r, i - 1) /\ UNCHANGED keyVars
      BY <1>1, <1>4, <1>9, <2>2 DEF Collected, CollectsValue
    <3> QED BY <2>1, <3>1 DEF keyVars
  <2>3. CASE n = 0
    <3>1. KeyIs(r[i], Len(r[i][1])) /\ Understood(r, i - 1) /\ process_header_key_complete
      BY <1>1, <1>4, <1>9, <2>3 DEF Collected, CollectsKey
    <3> QED BY <1>2, <1>9, <2>1, <3>1, KeyCompletes
  <2> QED BY <2>2, <2>3
<1>10. NothingLeft'
  BY <1>1, <1>4, <1>5 DEF NothingLeft, process_header_key_complete, keyVars
<1>11. overran' => broke' \/ tooLong(r)
  BY <1>2, <1>5, <1>7 DEF tooLong
<1>12. ~overran' /\ ~broke' => CollectsValue(r, i, k)'
  BY <1>8, <1>9 DEF CollectsValue
<1>13. Served(t)'
  <2>1. place'[t] = placeAfter(r, i, "value", k) /\ response'[t] = r /\ pc'[t] = "headers"
    BY <1>1, <1>2 DEF HeaderInv
  <2>2. CASE k < Len(words)
    <3>1. place'[t] = <<i, "value", k>> /\ PlaceIn(r, i, "value", k)
      BY <1>2, <2>1, <2>2, <1>0, PlacesIn DEF placeAfter
    <3>2. StateAt(i, "value", k)'
      BY <1>2, <1>4 DEF StateAt
    <3>3. ~overran' /\ ~broke' => Collected(r, i, "value", k)'
      BY <1>2, <1>12 DEF Collected
    <3> QED BY <1>2, <2>1, <3>1, <3>2, <3>3, ServedAt
  <2>3. CASE k = Len(words)
    <3>1. place'[t] = <<i + 1, "key", 0>> /\ PlaceIn(r, i + 1, "key", 0)
      BY <1>2, <2>1, <2>3, <1>0, PlacesIn DEF placeAfter
    <3>2. StateAt(i + 1, "key", 0)'
      BY <1>2, <1>4 DEF StateAt
    <3>3. (i + 1) - 1 = i
      BY <1>2
    <3>4. ~overran' /\ ~broke' => Collected(r, i + 1, "key", 0)'
      BY <1>2, <1>12, <2>3, <3>3 DEF Collected
    <3> QED BY <1>2, <2>1, <3>1, <3>2, <3>4, ServedAt
  <2>4. k < Len(words) \/ k = Len(words)
    BY <1>2, Zenon
  <2> QED BY <2>2, <2>3, <2>4
<1>14. pc' = [pc EXCEPT ![t] = "headers"] /\ pc[t] \in Requesting /\ DOMAIN place' = Tasks
       /\ DOMAIN response' = Tasks /\ response'[t] = r
  BY <1>1, <1>2 DEF HeaderInv, Requesting
<1> QED BY <1>1, <1>2, <1>4, <1>10, <1>11, <1>13, <1>14, OneTaskSteps DEF Requesting

LEMMA HeaderPieceInv ==
  ASSUME HeaderInv, NEW t \in Tasks, NEW m \in 1..KvLen, HeaderPiece(t, m) PROVE HeaderInv'
<1>1. /\ reading(t) /\ headersLeft(t) /\ m <= Len(partLeft(t)) /\ passed(t, m)
      /\ UNCHANGED <<pc, response, broke>>
  BY DEF HeaderPiece, ghosts
<1>2. PICK r \in Responses, i \in Nat, part \in {"key", "value"}, n \in Nat :
        Reading(t, r, i, part, n)
  BY <1>1, ReadingIs
<1>3. place[t][2] = part
  BY <1>2 DEF Reading
<1>4. CASE part = "key"
  <2>1. process_header_key(SubSeq(partLeft(t), 1, m))
    BY <1>3, <1>4 DEF HeaderPiece
  <2> QED BY <1>1, <1>2, <1>4, <2>1, KeyPiece
<1>5. CASE part = "value"
  <2>1. process_header_value(SubSeq(partLeft(t), 1, m))
    BY <1>3, <1>5 DEF HeaderPiece
  <2> QED BY <1>1, <1>2, <1>5, <2>1, ValuePiece
<1> QED BY <1>4, <1>5

LEMMA HeadersCompleteInv ==
  ASSUME HeaderInv, NEW t \in Tasks, on_headers_complete_cb(t) PROVE HeaderInv'
<1>1. /\ reading(t) /\ ~headersLeft(t) /\ pc' = [pc EXCEPT ![t] = "complete"]
      /\ IF hdr_state = "VALUE" THEN process_header_value_complete ELSE UNCHANGED valueVars
      /\ hdr_state' = "COMPLETE"
      /\ UNCHANGED <<response, place, hdr_key_buff, hdr_key_buff_len, overran, broke>>
  BY DEF on_headers_complete_cb, goto, serverVars, keyVars, ghosts
<1>2. PICK r \in Responses, i \in Nat, part \in {"key", "value"}, n \in Nat :
        Reading(t, r, i, part, n)
  BY <1>1, ReadingIs
<1>3. /\ ~overran /\ pc[t] = "headers" /\ response[t] = r /\ place[t] = <<i, part, n>>
      /\ PlaceIn(r, i, part, n) /\ StateAt(i, part, n)
      /\ ~broke => Collected(r, i, part, n)
  BY <1>2 DEF Reading
<1>4. Len(r) \in Nat \ {0}
  BY Texts
<1>5. i = Len(r) + 1 /\ part = "key" /\ n = 0
  BY <1>1, <1>3, <1>4 DEF headersLeft, PlaceIn
<1>6. i > 1 /\ i - 1 = Len(r) /\ Len(r) \in 1..Len(r) /\ hdr_state = "VALUE"
  BY <1>3, <1>4, <1>5 DEF StateAt
<1>7. process_header_value_complete
  BY <1>1, <1>6
<1>8. ASSUME ~broke, distinct(r) PROVE Understood(r, Len(r))'
  <2>1. CollectsValue(r, Len(r), Len(r[Len(r)][2]))
    BY <1>3, <1>5, <1>6, <1>8 DEF Collected
  <2> QED BY <1>6, <1>7, <1>8, <2>1, ValueCompletes DEF CollectsValue, process_header_value_complete
<1>9. NothingLeft'
  BY <1>1, <1>6, <1>7 DEF HeaderInv, NothingLeft, process_header_value_complete
<1>10. Served(t)'
  BY <1>1, <1>3, <1>8 DEF HeaderInv, Served, Requesting
<1>11. DOMAIN place' = Tasks /\ DOMAIN response' = Tasks /\ pc[t] \in Requesting
  BY <1>1, <1>3 DEF HeaderInv, Requesting
<1> QED BY <1>1, <1>3, <1>9, <1>10, <1>11, OneTaskSteps DEF Requesting

LEMMA RequestHeaders == ASSUME HeaderInv, NEW t \in Tasks, Request(t) PROVE HeaderInv'
<1>1. /\ pc[t] = "idle" /\ \A u \in Tasks : pc[u] \notin Requesting
      /\ pc' = pc \/ pc' = [pc EXCEPT ![t] = "socket"]
      /\ UNCHANGED <<serverVars, hdrVars, broke>>
  BY DEF Request, goto
<1>2. UNCHANGED <<response, place, hdr_state, hdr_key_buff, hdr_key_buff_len, hdr_value_buff,
                  hdr_value_buff_len, overran, broke>>
  BY <1>1 DEF serverVars, hdrVars, keyVars, valueVars
<1>3. /\ pc' \in [Tasks -> Requesting \cup WithSocket \cup {"idle"}]
      /\ DOMAIN response' = Tasks /\ DOMAIN place' = Tasks
  BY <1>1, <1>2 DEF HeaderInv, Requesting
<1>4. pc'[t] \in {"idle", "socket"} /\ \A u \in Tasks \ {t} : pc'[u] = pc[u]
  BY <1>1 DEF HeaderInv
<1>5. ASSUME NEW u \in Tasks PROVE Served(u)'
  BY <1>1, <1>4 DEF Served, Requesting
<1>6. NothingLeft'
  BY <1>2 DEF HeaderInv, NothingLeft
<1>7. \A u, v \in Tasks : pc'[u] \in Requesting /\ pc'[v] \in Requesting => u = v
  BY <1>1, <1>4
<1>8. ~overran /\ (hdr_state \in {"UNDEF", "COMPLETE"} \/ broke)
  BY <1>1 DEF HeaderInv, Requesting
<1>9. hdr_state' \in {"UNDEF", "COMPLETE"} \/ broke'
  BY <1>2, <1>8
<1>10. hdr_state' \in {"UNDEF", "KEY", "VALUE", "COMPLETE"} /\ ~overran'
  BY <1>2, <1>8 DEF HeaderInv
<1> QED BY <1>3, <1>5, <1>6, <1>7, <1>9, <1>10 DEF HeaderInv

(* The request is sent, or write() has failed and the task goes on.        *)
LEMMA SendHeaders ==
  ASSUME HeaderInv, NEW t \in Tasks, pc[t] = "send", pc' = [pc EXCEPT ![t] = "headers"],
         answered(t), icymeta_interval' = 0,
         UNCHANGED <<hdr_state, keyVars, hdr_value_buff, hdr_value_buff_len,
                     content_type, overran, broke>>
  PROVE  HeaderInv'
<1>1. UNCHANGED <<hdr_state, hdr_key_buff, hdr_key_buff_len, hdr_value_buff,
                  hdr_value_buff_len, overran, broke>>
  BY DEF keyVars
<1>2. pc[t] \in Requesting /\ \A u \in Tasks : pc[u] \notin {"headers", "replay"}
  BY DEF HeaderInv, Requesting
<1>3. PICK r \in Responses : response' = [response EXCEPT ![t] = r]
  BY DEF answered
<1>4. ~overran /\ (hdr_state \in {"UNDEF", "COMPLETE"} \/ broke)
  BY <1>2 DEF HeaderInv
<1>5. Len(r) \in Nat \ {0} /\ Len(r[1][1]) \in Nat \ {0}
  BY Texts
<1>6. PlaceIn(r, 1, "key", 0)
  BY <1>5 DEF PlaceIn
<1>7. StateAt(1, "key", 0)'
  BY <1>1, <1>4 DEF StateAt
<1>8. Understood(r, 0)'
  BY DEF Understood
<1>9. Collected(r, 1, "key", 0)'
  BY <1>8 DEF Collected
<1>10. place'[t] = <<1, "key", 0>> /\ response'[t] = r /\ pc'[t] = "headers"
  BY <1>3 DEF HeaderInv, answered
<1>11. Served(t)'
  BY <1>6, <1>7, <1>9, <1>10, ServedAt
<1>12. NothingLeft'
  BY <1>1 DEF HeaderInv, NothingLeft
<1>13. /\ DOMAIN place' = Tasks /\ DOMAIN response' = Tasks
       /\ hdr_state' \in {"UNDEF", "KEY", "VALUE", "COMPLETE"}
  BY <1>1, <1>3 DEF HeaderInv, answered
<1>14. ~overran'
  BY <1>1, <1>4
<1> QED BY <1>2, <1>11, <1>12, <1>13, <1>14, OneTaskSteps DEF Requesting

(* The task has its headers behind it: it starts the player, or they broke *)
(* off.                                                                    *)
LEMMA HeadersEnd ==
  ASSUME HeaderInv, NEW t \in Tasks, NEW p \in {"body", "close"}, pc[t] \in Requesting,
         pc' = [pc EXCEPT ![t] = p], ~overran, headersOver(t),
         hdr_state \in {"UNDEF", "COMPLETE"} \/ broke',
         UNCHANGED hdrVars
  PROVE  HeaderInv'
<1>1. UNCHANGED <<hdr_state, hdr_key_buff, hdr_key_buff_len, hdr_value_buff,
                  hdr_value_buff_len, overran>>
  BY DEF hdrVars, keyVars, valueVars
<1>2. pc'[t] = p
  BY DEF HeaderInv
<1>3. Served(t)'
  BY <1>2 DEF Served
<1>4. NothingLeft'
  BY <1>1 DEF HeaderInv, NothingLeft
<1>5. /\ DOMAIN place' = Tasks /\ DOMAIN response' = Tasks
      /\ hdr_state' \in {"UNDEF", "KEY", "VALUE", "COMPLETE"}
  BY <1>1 DEF HeaderInv, headersOver
<1> QED BY <1>1, <1>3, <1>4, <1>5, OneTaskSteps DEF WithSocket

(* read() has failed: from now on the response counts as broken.           *)
LEMMA ErrorHeaders == ASSUME HeaderInv, NEW t \in Tasks, HeadersError(t) PROVE HeaderInv'
<1>1. /\ pc[t] = "headers" /\ pc' = [pc EXCEPT ![t] = "replay"] /\ ~overran /\ broke'
      /\ UNCHANGED <<hdr_state, hdr_key_buff, hdr_key_buff_len, hdr_value_buff,
                     hdr_value_buff_len, overran>>
  BY DEF HeadersError, reading, goto, hdrVars, keyVars, valueVars
<1>2. DOMAIN place' = Tasks /\ DOMAIN response' = Tasks
  BY DEF HeaderInv, HeadersError
<1>3. Served(t)'
  BY <1>1 DEF HeaderInv, Served
<1>4. NothingLeft'
  BY <1>1 DEF HeaderInv, NothingLeft
<1>5. hdr_state' \in {"UNDEF", "KEY", "VALUE", "COMPLETE"}
  BY <1>1 DEF HeaderInv
<1> QED BY <1>1, <1>2, <1>3, <1>4, <1>5, OneTaskSteps DEF Requesting

(* Whatever is handed over again: what is not being collected is empty.    *)
LEMMA ReplayHeaders == ASSUME HeaderInv, NEW t \in Tasks, HeaderReplayed(t) PROVE HeaderInv'
<1>1. /\ pc[t] = "replay" /\ ~overran
      /\ \/ process_header_key(partLeft(t)) \/ process_header_value(partLeft(t))
      /\ UNCHANGED <<pc, response, broke>> /\ passed(t, Len(partLeft(t)))
  BY DEF HeaderReplayed, ghosts
<1>2. broke /\ pc' = [pc EXCEPT ![t] = "replay"] /\ pc'[t] = "replay"
  BY <1>1 DEF HeaderInv, Served
<1>3. DOMAIN place' = Tasks /\ DOMAIN response' = Tasks
  BY <1>1 DEF HeaderInv, passed
<1>4. Served(t)'
  BY <1>1, <1>2 DEF Served
<1>5. NothingLeft' /\ hdr_state' \in {"UNDEF", "KEY", "VALUE", "COMPLETE"}
  BY <1>1 DEF HeaderInv, NothingLeft, process_header_key, process_header_value,
              process_header_key_complete, process_header_value_complete, keyVars, valueVars
<1> QED BY <1>1, <1>2, <1>3, <1>4, <1>5, OneTaskSteps DEF Requesting

-----------------------------------------------------------------------------
LEMMA HeaderNextInv == HeaderInv /\ [HttpNext]_httpVars => HeaderInv'
<1> SUFFICES ASSUME HeaderInv, [HttpNext]_httpVars PROVE HeaderInv'
  OBVIOUS
<1>1. CASE UNCHANGED httpVars
  <2>1. UNCHANGED <<pc, response, place, hdr_state, hdr_key_buff, hdr_key_buff_len,
                    hdr_value_buff, hdr_value_buff_len, curr_header_field, content_type,
                    icymeta_interval, overran, broke>>
    BY <1>1 DEF httpVars, serverVars, hdrVars, keyVars, valueVars, ghosts
  <2>2. ASSUME NEW t \in Tasks PROVE Served(t)'
    <3>1. Served(t)
      BY DEF HeaderInv
    <3> QED BY <2>1, <3>1 DEF Served, StateAt, Collected, CollectsKey, CollectsValue,
                              KeyIs, ValueIs, Understood
  <2> QED BY <2>1, <2>2 DEF HeaderInv, NothingLeft, tooLong
<1>2. ASSUME NEW t \in Tasks, Step(t) PROVE HeaderInv'
  <2>1. CASE Request(t)
    BY <2>1, RequestHeaders
  <2>2. CASE Socket(t)
    BY <2>2, QuietStep DEF Socket, goto, ghosts, Requesting
  <2>3. CASE SocketFails(t)
    BY <2>3, QuietStep DEF SocketFails, goto, Requesting
  <2>4. CASE Connect(t)
    BY <2>4, QuietStep DEF Connect, goto, ghosts, Requesting
  <2>5. CASE ConnectFails(t)
    <3>1. pc[t] = "connect" /\ UNCHANGED <<pc, serverVars, hdrVars, broke>>
      BY <2>5 DEF ConnectFails, ghosts
    <3>2. pc' = [pc EXCEPT ![t] = "connect"]
      BY <3>1 DEF HeaderInv
    <3> QED BY <3>1, <3>2, QuietStep DEF Requesting
  <2>6. CASE ConnectGivesUp(t)
    BY <2>6, QuietStep DEF ConnectGivesUp, returns, goto, Requesting
  <2>7. CASE Send(t)
    BY <2>7, SendHeaders DEF Send, goto, ghosts
  <2>8. CASE SendFails(t)
    BY <2>8, SendHeaders DEF SendFails, goto
  <2>9. CASE NoMemory(t)
    BY <2>9, QuietStep DEF NoMemory, returns, goto, Requesting
  <2>10. CASE \E n \in 1..KvLen : HeaderPiece(t, n)
    BY <2>10, HeaderPieceInv
  <2>11. CASE on_headers_complete_cb(t)
    BY <2>11, HeadersCompleteInv
  <2>12. CASE StartPlayer(t)
    <3>1. pc[t] = "complete" /\ pc' = [pc EXCEPT ![t] = "body"] /\ headersOver(t)
          /\ UNCHANGED hdrVars
      BY <2>12 DEF StartPlayer, goto
    <3>2. hdr_state = "COMPLETE" /\ ~overran
      BY <3>1 DEF HeaderInv, Served, Requesting
    <3> QED BY <3>1, <3>2, HeadersEnd DEF Requesting
  <2>13. CASE HeadersBreak(t)
    <3>1. /\ pc[t] = "headers" /\ pc' = [pc EXCEPT ![t] = "close"] /\ ~overran
          /\ headersOver(t) /\ broke' = (hdr_state \in {"KEY", "VALUE"}) /\ UNCHANGED hdrVars
      BY <2>13 DEF HeadersBreak, reading, goto
    <3>2. hdr_state \in {"UNDEF", "COMPLETE"} \/ broke'
      BY <3>1 DEF HeaderInv
    <3> QED BY <3>1, <3>2, HeadersEnd DEF Requesting
  <2>16. CASE HeadersError(t)
    BY <2>16, ErrorHeaders
  <2>17. CASE HeaderReplayed(t)
    BY <2>17, ReplayHeaders
  <2>18. CASE ReplayRefused(t)
    <3>1. /\ pc[t] = "replay" /\ pc' = [pc EXCEPT ![t] = "close"] /\ ~overran
          /\ headersOver(t) /\ UNCHANGED <<hdrVars, broke>>
      BY <2>18 DEF ReplayRefused, goto, ghosts
    <3>2. broke'
      BY <3>1 DEF HeaderInv, Served
    <3> QED BY <3>1, <3>2, HeadersEnd DEF Requesting
  <2>14. CASE BodyEnds(t)
    BY <2>14, QuietStep DEF BodyEnds, goto, ghosts, Requesting
  <2>15. CASE Close(t)
    BY <2>15, QuietStep DEF Close, goto, ghosts, Requesting
  <2> QED
    BY <1>2, <2>1, <2>2, <2>3, <2>4, <2>5, <2>6, <2>7, <2>8, <2>9, <2>10, <2>11, <2>12,
       <2>13, <2>14, <2>15, <2>16, <2>17, <2>18 DEF Step
<1> QED BY <1>1, <1>2 DEF HttpNext

LEMMA HeaderInvariant == HttpSpec => []HeaderInv
<1>1. HttpInit => HeaderInv
  <2> SUFFICES ASSUME HttpInit PROVE HeaderInv
    OBVIOUS
  <2>1. \A t \in Tasks : pc[t] = "idle"
    BY DEF HttpInit
  <2>2. \A t \in Tasks : Served(t)
    BY <2>1 DEF Served, Requesting
  <2> QED BY <2>1, <2>2 DEF HttpInit, HeaderInv, NothingLeft, Requesting
<1> QED BY <1>1, HeaderNextInv, PTL DEF HttpSpec

(* Whatever servers send and wherever the receive buffers cut it, the      *)
(* header buffers are overrun only by a text that is longer than they are, *)
(* or by one that is appended to the rest of a broken response.            *)
THEOREM HeadersAreBounded == HttpSpec => []HeadersFit
<1>1. HeaderInv => HeadersFit
  BY DEF HeaderInv, Served, HeadersFit, tooLong
<1> QED BY <1>1, HeaderInvariant, PTL

(* Whatever servers send, wherever it is cut, and however many connections *)
(* have come and gone before: if the headers can be told apart, the player *)
(* is started with what they say, unless the response before broke off.    *)
THEOREM HeadersUnderstood == HttpSpec => []HeadersAsSent
<1>1. ASSUME HeaderInv PROVE HeadersAsSent
  <2>1. ASSUME NEW t \in Tasks, pc[t] = "complete", ~broke, distinct(response[t]),
               NEW h \in ToSet(response[t])
        PROVE  \E i \in 1..Len(response[t]) : h = response[t][i]
    <3>1. response[t] \in Responses
      BY <1>1, <2>1 DEF HeaderInv, Served, Requesting
    <3>2. response[t] \in Seq(Words \X Words)
      BY <3>1, ResponsesAssumption
    <3> QED BY <2>1, <3>2 DEF ToSet
  <2>2. ASSUME NEW t \in Tasks, pc[t] = "complete", ~broke, distinct(response[t]),
               NEW i \in 1..Len(response[t])
        PROVE  response[t][i] \in ToSet(response[t])
    <3>1. response[t] \in Responses
      BY <1>1, <2>2 DEF HeaderInv, Served, Requesting
    <3>2. response[t] \in Seq(Words \X Words)
      BY <3>1, ResponsesAssumption
    <3> QED BY <2>2, <3>2 DEF ToSet
  <2>3. ASSUME NEW t \in Tasks, pc[t] = "complete", ~broke, distinct(response[t])
        PROVE  Understood(response[t], Len(response[t]))
    BY <1>1, <2>3 DEF HeaderInv, Served
  <2>4. ASSUME NEW t \in Tasks, pc[t] = "complete", ~broke, distinct(response[t]),
               NEW h \in ToSet(response[t])
        PROVE  /\ h[1] = ContentType /\ Last(h[2]) \in Known => content_type = Last(h[2])
               /\ h[1] = IcyMetaint => icymeta_interval = atoi(h[2])
    BY <2>1, <2>3, <2>4 DEF Understood
  <2>5. ASSUME NEW t \in Tasks, pc[t] = "complete", ~broke, distinct(response[t]),
               \A h \in ToSet(response[t]) : h[1] # IcyMetaint
        PROVE  icymeta_interval = 0
    BY <2>2, <2>3, <2>5 DEF Understood
  <2> QED BY <2>4, <2>5 DEF HeadersAsSent
<1> QED BY <1>1, HeaderInvariant, PTL

=============================================================================
