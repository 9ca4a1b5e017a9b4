------------------------------ MODULE Streams ------------------------------
(***************************************************************************)
(* How a server finds messages in what a TCP connection delivers: the      *)
(* HandlePacket of gpcm and gamestats, where a message ends with a         *)
(* delimiter, and of serverbrowser, where it starts with its length.  The  *)
(* frontend reads as much as there is, and makes one call at a time for a  *)
(* connection (main.go): the calls see the stream in pieces that have      *)
(* nothing to do with messages.  The buffers are saved and loaded with the *)
(* state of the servers, so that a reload changes nothing here.            *)
(*                                                                         *)
(* The cells of the stream are numbered.  A message is                     *)
(* [from, len, kind]: the number of cells before it, and its own.  One of  *)
(* serverbrowser has its length in its first two cells, one of the others  *)
(* has the delimiter as its last.                                          *)
(***************************************************************************)
EXTENDS Integers, Sequences, FiniteSets

CONSTANTS
  StreamServers,  \* the servers looked at
  Messages,       \* the sequences of messages a console may send
  MaxPiece,       \* the 1024 of handleConnection
  MaxBuffer       \* 0x4000, and 0x1000 for serverbrowser

VARIABLES
  server,      \* the server of this connection
  messages,    \* what its console sends
  arrived,     \* the number of cells that were delivered
  buffer,      \* ReadBuffer, or connBuffers
  handled,     \* the messages handled, as sequences of cells
  status,      \* "open", or "closed" by the server
  mishaps      \* ghost: what has happened to the connection, see Mishaps

streamVars == <<server, messages, arrived, buffer, handled, status, mishaps>>

\* The shortest message is a length or a delimiter.
Message == [from : Nat, len : Nat \ {0, 1}, kind : {"plain", "panics"}]

\* Messages follow each other without a gap.
IsStream(ms) ==
  /\ ms \in Seq(Message)
  /\ \A k \in DOMAIN ms : ms[k].from = IF k = 1 THEN 0 ELSE ms[k - 1].from + ms[k - 1].len

ASSUME StreamsAssumption ==
  /\ \A ms \in Messages : IsStream(ms)
  /\ MaxPiece \in Nat /\ MaxBuffer \in Nat

\* The cells up to the end of message k.
End(k) == IF k = 0 THEN 0 ELSE messages[k].from + messages[k].len

Cells(k) == [i \in 1 .. messages[k].len |-> messages[k].from + i]

\* The message that cell n is of.
Of(n) == CHOOSE k \in DOMAIN messages : messages[k].from < n /\ n <= End(k)

\* "pipelined": a piece had cells of two messages.
Mishaps == {"dropped", "panicked", "pipelined"}

StreamsInit ==
  /\ server \in StreamServers /\ messages \in Messages
  /\ arrived = 0 /\ buffer = <<>> /\ handled = <<>> /\ status = "open" /\ mishaps = {}

Pipelined(data) == IF Of(data[1]) # Of(data[Len(data)]) THEN {"pipelined"} ELSE {}

Ends(n) == n = End(Of(n))

-----------------------------------------------------------------------------
(* gpcm and gamestats *)

Overflows(data) == Len(buffer) + Len(data) > MaxBuffer

\* The places in a text where a message ends, and the j-th of them.
EndsIn(text) == {n \in 1 .. Len(text) : Ends(text[n])}

NthEnd(text, j) == CHOOSE n \in EndsIn(text) : Cardinality({m \in EndsIn(text) : m <= n}) = j

\* strings.SplitAfter the delimiter, for a text that ends with one.
SplitAfter(text) ==
  [j \in 1 .. Cardinality(EndsIn(text)) |-> SubSeq(text, IF j = 1 THEN 1 ELSE NthEnd(text, j - 1) + 1, NthEnd(text, j))]

\* A handler that panics: "ka" of gamestats, which is the handler of gpcm and expects a session of gpcm.
Panics(text) == server = "gamestats" /\ messages[Of(text[Len(text)])].kind = "panics"

\* The loop over the messages: it ends with the first handler that panics, and the buffer is then left as it is.
HandleAll(text, data) ==
  LET parts == SplitAfter(text)
      bad == {j \in 1 .. Len(parts) : Panics(parts[j])}
      n == IF bad = {} THEN Len(parts) ELSE (CHOOSE j \in bad : \A l \in bad : j <= l) - 1
  IN /\ handled' = handled \o SubSeq(parts, 1, n)
     /\ buffer' = IF bad = {} THEN <<>> ELSE text
     /\ mishaps' = mishaps \cup Pipelined(data) \cup (IF bad = {} THEN {} ELSE {"panicked"})

\* More than fits is dropped, with an entry in the log and nothing else.
GameSpyPacket(data) ==
  /\ IF Overflows(data)
     THEN mishaps' = mishaps \cup Pipelined(data) \cup {"dropped"} /\ UNCHANGED <<buffer, handled>>
     ELSE IF Ends(data[Len(data)])
     THEN HandleAll(buffer \o data, data)
     ELSE /\ buffer' = buffer \o data /\ UNCHANGED handled
          /\ mishaps' = mishaps \cup Pipelined(data)
  /\ UNCHANGED status

-----------------------------------------------------------------------------
(* serverbrowser *)

\* The length that the text starts with.
PacketSize(text) == messages[Of(text[1])].len

HasPacket(text) == text # <<>> /\ Len(text) >= PacketSize(text)

\* Mutant: the buffer is empty after a packet.
RestCleared(text) == <<>>

Rest(text) == SubSeq(text, PacketSize(text) + 1, Len(text))

\* One packet is handled in a call.  Too much data, or a length that cannot be, ends the connection.
BrowserPacket(data) ==
  LET text == buffer \o data
  IN /\ IF Overflows(data)
        THEN status' = "closed" /\ UNCHANGED <<buffer, handled>>
        ELSE IF Len(text) >= 2 /\ PacketSize(text) \notin 3 .. MaxBuffer
        THEN status' = "closed" /\ buffer' = text /\ UNCHANGED handled
        ELSE /\ IF Len(text) >= 2 /\ HasPacket(text)
                THEN handled' = Append(handled, SubSeq(text, 1, PacketSize(text))) /\ buffer' = Rest(text)
                ELSE buffer' = text /\ UNCHANGED handled
             /\ UNCHANGED status
     /\ mishaps' = mishaps \cup Pipelined(data)

-----------------------------------------------------------------------------

\* A read of the frontend, and the call: n cells.
Receive(n) ==
  /\ status = "open"
  /\ arrived + n <= End(Len(messages))
  /\ LET data == [i \in 1 .. n |-> arrived + i]
     IN IF server = "serverbrowser" THEN BrowserPacket(data) ELSE GameSpyPacket(data)
  /\ arrived' = arrived + n
  /\ UNCHANGED <<server, messages>>

StreamsNext == \E n \in 1 .. MaxPiece : Receive(n)

StreamsSpec == StreamsInit /\ [][StreamsNext]_streamVars

-----------------------------------------------------------------------------

\* The stream has no gaps; the buffer never exceeds its bound, and holds what was delivered.
StreamsTypeOK ==
  /\ server \in StreamServers /\ IsStream(messages) /\ status \in {"open", "closed"}
  /\ arrived \in 0 .. End(Len(messages))
  /\ buffer \in Seq(1 .. arrived) /\ Len(buffer) <= MaxBuffer
  /\ handled \in Seq(Seq(1 .. arrived))
  /\ mishaps \subseteq Mishaps

\* However the stream is cut into pieces, the messages are handled as they were sent: in order, each once
\* and complete, and the rest is in the buffer.  Except after data was dropped, or a handler panicked.
Whole ==
  mishaps \cap {"dropped", "panicked"} = {} =>
    /\ Len(handled) <= Len(messages)
    /\ \A j \in DOMAIN handled : handled[j] = Cells(j)
    /\ status = "open" =>
         LET done == End(Len(handled)) IN done <= arrived /\ buffer = [i \in 1 .. arrived - done |-> done + i]

\* For a console that waits for each answer, the call that brings the end of a message handles it, wherever
\* the stream was cut.
HandledAtOnce ==
  status = "open" /\ mishaps = {} => \A k \in DOMAIN messages : End(k) <= arrived => k \in DOMAIN handled

\* From a console that does not wait, gpcm and gamestats leave complete messages in the buffer when a read ends
\* inside the next one, and handle them all with the first read that ends where a message ends.  (serverbrowser
\* handles one packet in a call, and may keep the last for good.)
HandledAtEnd ==
  server # "serverbrowser" /\ mishaps \subseteq {"pipelined"} /\ arrived > 0 /\ Ends(arrived) => buffer = <<>>

\* Data is dropped only from a console that does not wait for answers, has sent a message that is too long, or
\* met a handler that panicked; serverbrowser ends the connection instead.
FitsIsKept ==
  "dropped" \in mishaps =>
    server # "serverbrowser" /\ (mishaps # {"dropped"} \/ \E k \in DOMAIN messages : messages[k].len > MaxBuffer)

\* HandlePacket of gpcm, gamestats and serverbrowser: the messages are handled once, whole and in order, at once if
\* the console waits for the answers, and what is dropped did not fit, or came from a console that does not wait.
MessagesAreCut == Whole /\ HandledAtOnce /\ HandledAtEnd /\ FitsIsKept
=============================================================================
