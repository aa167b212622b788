--------------------------- MODULE RequestBytes ---------------------------
(***************************************************************************)
(* The bytes of one connection: the header lines of its requests, cut out  *)
(* of client_stream by the automaton of read_header however the bytes are  *)
(* packed; the body of a POST on its way to the body file; the output of a *)
(* CGI program on its way to the client; and the bytes a kept connection   *)
(* takes along to its next request (read.c, pipe.c, cgi_header.c, cgi.c,   *)
(* request.c).  A byte is its position, in what the client sends or in     *)
(* what the program prints, so that bytes lost, repeated or moved show.    *)
(* What lines and URIs mean is left to a choice.                           *)
(***************************************************************************)
EXTENDS Integers, Sequences, FiniteSets

CONSTANTS
  Inputs,          \* what the client may send: sequences over Bytes
  SIZE,            \* CLIENT_STREAM_SIZE, which is also BUFFER_SIZE
  Lengths,         \* values of Content-Length
  Outputs          \* what a CGI program may print: a set of Output

Bytes == {"c", "CR", "LF"}
(* n bytes; the header ends with byte head (0: there is no header).  first  *)
(* is what the header begins with.                                          *)
Output == [n: Nat, head: Nat, first: {"Status", "Location", "other"}]

ASSUME SizeAssumption == SIZE \in Nat /\ SIZE > 1
ASSUME InputsAssumption == Inputs \subseteq Seq(Bytes)
ASSUME LengthsAssumption == Lengths \subseteq Nat
ASSUME OutputsAssumption == Outputs \subseteq Output /\ \A o \in Outputs : o.head \in 0 .. o.n

VARIABLES
  input, taken,           \* what the client sends, and how much of it was read
  status, method, simple, logline,
  client_stream,          \* the bytes in it, client_stream_pos = Len(client_stream)
  parse_pos,
  header_line, header_end, \* offsets into client_stream, later into buffer
  data,                   \* the bytes between the two, once they are data
  filesize, filepos,
  is_cgi, cgi_status,     \* whether the output has a header to parse; how far it is
  output, printed,        \* what the program prints, and how much of it was read
  buffered,               \* buffer_start .. buffer_end
  base,                   \* history: the bytes of earlier requests
  lines,                  \* history: the lines that were processed
  written,                \* history: what the body file holds
  sent,                   \* history: what the client got of the output; 0 stands for
                          \* the header lines that the server puts before it
  failed                  \* history: an error reply or a redirection was sent instead

head == <<status, method, simple, logline>>
stream == <<input, taken, client_stream, parse_pos>>
pointers == <<header_line, header_end, data>>
body == <<filesize, filepos, written>>
cgi == <<is_cgi, cgi_status, output, printed>>
reply == <<buffered, sent, failed>>
vars == <<head, stream, pointers, body, cgi, reply, base, lines>>

InHeader == status \in {"READ_HEADER", "ONE_CR", "ONE_LF", "TWO_CR"}
HALF == SIZE \div 2
NONE == [n |-> 0, head |-> 0, first |-> "other"]
First(s, k) == SubSeq(s, 1, k)
From(s, k) == SubSeq(s, k, Len(s))
Positions(from, k) == [i \in 1 .. k |-> from + i]

Init ==
  /\ input \in Inputs /\ taken = 0
  /\ status = "READ_HEADER" /\ method = "GET" /\ simple = FALSE /\ logline = FALSE
  /\ client_stream = <<>> /\ parse_pos = 0
  /\ header_line = 0 /\ header_end = 0 /\ data = <<>>
  /\ filesize = 0 /\ filepos = 0
  /\ is_cgi = FALSE /\ cgi_status = "BUFFER" /\ output = NONE /\ printed = 0
  /\ buffered = <<>> /\ base = 0 /\ lines = <<>> /\ written = <<>> /\ sent = <<>>
  /\ failed = FALSE

-----------------------------------------------------------------------------
(* read_header                                                             *)

ScanForgetsLF(st, b) ==
  CASE b = "CR" -> IF st = "READ_HEADER" THEN "ONE_CR" ELSE IF st = "ONE_LF" THEN "TWO_CR" ELSE st
    [] b = "LF" -> IF st \in {"READ_HEADER", "ONE_CR", "TWO_CR"} THEN "ONE_LF" ELSE "BODY_READ"
    [] OTHER -> "READ_HEADER"

(* the automaton *)
Scan(st, b) ==
  CASE b = "CR" -> IF st = "READ_HEADER" THEN "ONE_CR" ELSE IF st = "ONE_LF" THEN "TWO_CR" ELSE st
    [] b = "LF" -> IF st \in {"READ_HEADER", "ONE_CR"} THEN "ONE_LF" ELSE "BODY_READ"
    [] OTHER -> "READ_HEADER"

Byte == input[client_stream[parse_pos + 1]]
EndSeen == IF status = "READ_HEADER" /\ Byte # "c" THEN parse_pos ELSE header_end

(* one turn of the loop; step is the status it comes to *)
Turn(step) ==
  /\ InHeader /\ buffered = <<>> /\ parse_pos < Len(client_stream)
  /\ Scan(status, Byte) = step
  /\ parse_pos' = parse_pos + 1
  /\ UNCHANGED <<input, taken, client_stream>>

ScanOn ==
  /\ \E step \in {"READ_HEADER", "ONE_CR", "TWO_CR"} : Turn(step) /\ status' = step
  /\ header_end' = EndSeen
  /\ UNCHANGED <<method, simple, logline, header_line, data, body, cgi, reply, base, lines>>

(* an error reply, or one that is complete with this call: close it down *)
Refuse ==
  /\ status' = "DONE" /\ failed' = TRUE
  /\ UNCHANGED <<method, data, body, cgi, buffered, sent>>

(* init_cgi, when everything works *)
init_cgi ==
  /\ status' = "PIPE_READ" /\ output' \in Outputs /\ printed' = 0
  /\ \/ is_cgi' = TRUE /\ cgi_status' = "PARSE" /\ header_line' = HALF
     \/ is_cgi' = FALSE /\ cgi_status' = "BUFFER" /\ header_line' = 0
  /\ header_end' = header_line' /\ data' = <<>> /\ filepos' = 0

(* process_header_end of a GET or HEAD: a native reply or a CGI program *)
ServeGet ==
  \/ /\ status' = "WRITE" /\ UNCHANGED <<pointers, filepos, cgi>>
  \/ init_cgi

(* The end of a line.  The first one says what is asked for (an empty one   *)
(* is no request); a simple request has no other lines.  (What a simple     *)
(* POST goes on with is left to RequestLoop.)                               *)
EndLine ==
  /\ Turn("ONE_LF")
  /\ lines' = Append(lines, SubSeq(client_stream, header_line + 1, EndSeen))
  /\ logline' = TRUE
  /\ \/ Refuse /\ UNCHANGED <<simple, header_line>> /\ header_end' = EndSeen
     \/ /\ ~logline /\ EndSeen > header_line
        /\ method' \in {"GET", "HEAD", "POST"} /\ simple' = FALSE
        /\ status' = "ONE_LF" /\ header_line' = parse_pos' /\ header_end' = EndSeen
        /\ UNCHANGED <<data, body, cgi, reply>>
     \/ /\ ~logline /\ EndSeen > header_line
        /\ method' = "GET" /\ simple' = TRUE
        /\ ServeGet
        /\ UNCHANGED <<filesize, written, reply>>
     \/ /\ logline /\ status' = "ONE_LF" /\ header_line' = parse_pos' /\ header_end' = EndSeen
        /\ UNCHANGED <<method, simple, data, body, cgi, reply>>
  /\ UNCHANGED base

(* what of the body lies behind the header, cut to the Content-Length *)
StartBody(n) ==
  LET here == Len(client_stream) - parse_pos'
      k == IF here > n THEN n ELSE here
  IN  /\ filesize' = n /\ filepos' = 0 /\ status' = "BODY_WRITE"
      /\ header_line' = parse_pos' /\ header_end' = parse_pos' + k
      /\ data' = SubSeq(client_stream, parse_pos' + 1, parse_pos' + k)

(* The empty line.  A POST goes on with its body if Content-Length is good. *)
EndHeader ==
  /\ Turn("BODY_READ")
  /\ \/ Refuse /\ UNCHANGED <<header_line, header_end>>
     \/ method # "POST" /\ ServeGet /\ UNCHANGED <<method, filesize, written, reply>>
     \/ /\ method = "POST" /\ \E n \in Lengths \ {0} : StartBody(n)
        /\ UNCHANGED <<method, written, cgi, reply>>
  /\ UNCHANGED <<simple, logline, base, lines>>

(* everything in the buffer is parsed: read more, if there is room *)
ReadHeader ==
  /\ InHeader /\ buffered = <<>> /\ parse_pos = Len(client_stream)
  /\ \/ /\ Len(client_stream) = SIZE
        /\ status' = "DEAD" /\ UNCHANGED <<taken, client_stream>>
     \/ \E k \in 1 .. SIZE - Len(client_stream) :
          /\ taken + k <= Len(input) /\ taken' = taken + k
          /\ client_stream' = client_stream \o Positions(taken, k)
          /\ UNCHANGED status
     \/ Len(client_stream) < SIZE /\ status' = "DONE" /\ UNCHANGED <<taken, client_stream>>
  /\ UNCHANGED <<method, simple, logline, input, parse_pos, pointers, body, cgi, reply, base, lines>>

(* free_request after a native reply.  A connection that is kept goes on    *)
(* with a new structure, into which the bytes not parsed yet are copied.    *)
Keep ==
  /\ status = "WRITE" /\ ~simple /\ buffered = <<>>
  /\ status' = "READ_HEADER" /\ method' = "GET" /\ logline' = FALSE
  /\ client_stream' = From(client_stream, parse_pos + 1) /\ parse_pos' = 0
  /\ header_line' = 0 /\ header_end' = 0
  /\ base' = base + parse_pos /\ lines' = <<>>
  /\ UNCHANGED <<simple, input, taken, data, body, cgi, reply>>

Close ==
  /\ status = "WRITE" /\ buffered = <<>> /\ status' = "DONE"
  /\ UNCHANGED <<method, simple, logline, stream, pointers, body, cgi, reply, base, lines>>

-----------------------------------------------------------------------------
(* The body of a POST                                                      *)

read_body ==
  /\ status = "BODY_READ" /\ buffered = <<>>
  /\ LET free == SIZE - (header_end - header_line)
         want == filesize - filepos
         most == IF want > free THEN free ELSE want
     IN  \/ /\ most <= 0 /\ status' = "BODY_WRITE" /\ UNCHANGED <<taken, data, header_end>>
         \/ \E k \in 1 .. most :
              /\ taken + k <= Len(input) /\ taken' = taken + k
              /\ data' = data \o Positions(taken, k) /\ header_end' = header_end + k
              /\ status' = "BODY_WRITE"
         \/ most > 0 /\ status' = "DONE" /\ UNCHANGED <<taken, data, header_end>>
  /\ failed' = (failed \/ status' = "DONE")
  /\ UNCHANGED <<method, simple, logline, input, client_stream, parse_pos, header_line, body, cgi,
                 buffered, sent, base, lines>>

WriteResumingAtStart ==
  /\ status = "BODY_WRITE" /\ buffered = <<>>
  /\ LET m == IF filepos + Len(data) > filesize THEN filesize - filepos ELSE Len(data)
     IN  \/ /\ m = 0 /\ filepos >= filesize /\ init_cgi /\ UNCHANGED <<filesize, written, failed>>
         \/ /\ m = 0 /\ filepos < filesize /\ status' = "BODY_READ"
            /\ header_line' = 0 /\ header_end' = 0 /\ data' = <<>>
            /\ UNCHANGED <<body, cgi, failed>>
         \/ \E k \in 1 .. m :
              /\ written' = written \o First(data, k) /\ filepos' = filepos + k
              /\ UNCHANGED <<pointers, status, filesize, cgi, failed>>
         \/ /\ m > 0 /\ status' = "DONE" /\ failed' = TRUE
            /\ UNCHANGED <<pointers, body, cgi>>
  /\ UNCHANGED <<method, simple, logline, stream, buffered, sent, base, lines>>

(* nothing left: the program is started or more is read; else some of it is *)
(* written, or the file system is full                                      *)
write_body ==
  /\ status = "BODY_WRITE" /\ buffered = <<>>
  /\ LET m == IF filepos + Len(data) > filesize THEN filesize - filepos ELSE Len(data)
     IN  \/ /\ m = 0 /\ filepos >= filesize /\ init_cgi /\ UNCHANGED <<filesize, written, failed>>
         \/ /\ m = 0 /\ filepos < filesize /\ status' = "BODY_READ"
            /\ header_line' = 0 /\ header_end' = 0 /\ data' = <<>>
            /\ UNCHANGED <<body, cgi, failed>>
         \/ \E k \in 1 .. m :
              /\ written' = written \o First(data, k) /\ filepos' = filepos + k
              /\ data' = From(data, k + 1) /\ header_line' = header_line + k
              /\ UNCHANGED <<status, header_end, filesize, cgi, failed>>
         \/ /\ m > 0 /\ status' = "DONE" /\ failed' = TRUE
            /\ UNCHANGED <<pointers, body, cgi>>
  /\ UNCHANGED <<method, simple, logline, stream, buffered, sent, base, lines>>

-----------------------------------------------------------------------------
(* The output of a CGI program                                             *)

(* process_cgi_header with the program's state st, the request's status     *)
(* being next unless the header changes it.  reply_ok is the header that    *)
(* send_r_request_ok has written: the data are moved down behind it, and    *)
(* as much as the socket takes is sent.                                     *)
process_cgi_header(st, next) ==
  LET found == output.head > 0 /\ output.head <= Len(data)
      shown == IF method = "HEAD" THEN First(data, output.head - 1) ELSE data
      merged == <<0>> \o shown
  IN  \/ /\ found => ~simple /\ output.first # "Status"
                       /\ (output.first = "other" => Len(merged) > SIZE)
         /\ status' = "DONE" /\ failed' = TRUE /\ cgi_status' = st
         /\ UNCHANGED <<pointers, buffered, sent>>
      \/ /\ found /\ simple
         /\ header_line' = header_line + output.head - 1 /\ data' = From(data, output.head)
         /\ cgi_status' = st /\ status' = next
         /\ UNCHANGED <<header_end, buffered, sent, failed>>
      \/ /\ found /\ ~simple /\ output.first = "Status"
         /\ header_line' = header_line - 1 /\ data' = <<0>> \o data
         /\ cgi_status' = st /\ status' = next
         /\ UNCHANGED <<header_end, buffered, sent, failed>>
      \/ /\ found /\ ~simple /\ output.first = "other" /\ Len(merged) <= SIZE
         /\ \E k \in 0 .. Len(merged) : sent' = sent \o First(merged, k) /\ buffered' = From(merged, k + 1)
         /\ header_line' = Len(merged) /\ header_end' = Len(merged) /\ data' = <<>>
         /\ cgi_status' = IF method = "HEAD" THEN "DONE" ELSE st
         /\ status' = IF method = "HEAD" THEN "DONE" ELSE next
         /\ UNCHANGED failed

(* read_from_pipe with a full buffer *)
ReadFull ==
  /\ header_end = SIZE
  /\ \/ cgi_status = "PARSE" /\ process_cgi_header("BUFFER", "PIPE_READ") /\ UNCHANGED <<is_cgi, output, printed>>
     \/ cgi_status # "PARSE" /\ status' = "PIPE_WRITE" /\ UNCHANGED <<cgi, pointers, reply>>

(* with the end of the output *)
ReadEnd ==
  /\ header_end < SIZE /\ printed = output.n
  /\ \/ cgi_status = "PARSE" /\ process_cgi_header("DONE", "PIPE_WRITE")
     \/ cgi_status # "PARSE" /\ cgi_status' = "DONE" /\ status' = "PIPE_WRITE"
        /\ UNCHANGED <<pointers, reply>>
  /\ UNCHANGED <<is_cgi, output, printed>>

ReadSomeUnbounded ==
  /\ header_end < SIZE
  /\ \E k \in 1 .. SIZE :
       /\ printed + k <= output.n /\ printed' = printed + k
       /\ data' = data \o Positions(printed, k) /\ header_end' = header_end + k
  /\ UNCHANGED <<status, header_line, is_cgi, cgi_status, output, reply>>

ReadSome ==
  /\ header_end < SIZE
  /\ \E k \in 1 .. SIZE - header_end :
       /\ printed + k <= output.n /\ printed' = printed + k
       /\ data' = data \o Positions(printed, k) /\ header_end' = header_end + k
  /\ UNCHANGED <<status, header_line, is_cgi, cgi_status, output, reply>>

read_from_pipe ==
  /\ status = "PIPE_READ" /\ buffered = <<>>
  /\ ReadFull \/ ReadEnd \/ ReadSome
  /\ UNCHANGED <<method, simple, logline, stream, body, base, lines>>

write_from_pipe ==
  /\ status = "PIPE_WRITE" /\ buffered = <<>>
  /\ \/ /\ data = <<>> /\ cgi_status = "DONE" /\ status' = "DONE" /\ UNCHANGED <<pointers, sent, filepos>>
     \/ /\ data = <<>> /\ cgi_status # "DONE" /\ status' = "PIPE_READ"
        /\ header_line' = 0 /\ header_end' = 0 /\ UNCHANGED <<data, sent, filepos>>
     \/ \E k \in 1 .. Len(data) :
          /\ sent' = sent \o First(data, k) /\ data' = From(data, k + 1)
          /\ header_line' = header_line + k /\ filepos' = filepos + k
          /\ UNCHANGED <<status, header_end>>
  /\ UNCHANGED <<method, simple, logline, stream, filesize, written, cgi, buffered, failed, base, lines>>

FlushRepeating ==
  /\ buffered # <<>> /\ status # "DEAD"
  /\ \E k \in 1 .. Len(buffered) :
       sent' = sent \o First(buffered, k)
       /\ buffered' = IF k = Len(buffered) THEN <<>> ELSE buffered
  /\ UNCHANGED <<head, stream, pointers, body, cgi, failed, base, lines>>

(* req_flush, which process_requests calls before anything else *)
req_flush ==
  /\ buffered # <<>> /\ status # "DEAD"
  /\ \E k \in 1 .. Len(buffered) :
       sent' = sent \o First(buffered, k) /\ buffered' = From(buffered, k + 1)
  /\ UNCHANGED <<head, stream, pointers, body, cgi, failed, base, lines>>

(* a write to a client that is gone *)
ClientGone ==
  /\ buffered # <<>> \/ (status = "PIPE_WRITE" /\ data # <<>>)
  /\ status # "DEAD" /\ status' = "DEAD" /\ buffered' = <<>>
  /\ UNCHANGED <<method, simple, logline, stream, pointers, body, cgi, sent, failed, base, lines>>

(* the request is freed and its connection closed *)
Finished == status \in {"DONE", "DEAD"} /\ buffered = <<>>
Freed == Finished /\ UNCHANGED vars

Next ==
  \/ ScanOn \/ EndLine \/ EndHeader \/ ReadHeader \/ Keep \/ Close
  \/ read_body \/ write_body \/ read_from_pipe \/ write_from_pipe
  \/ req_flush \/ ClientGone \/ Freed
Spec == Init /\ [][Next]_vars

-----------------------------------------------------------------------------
(* Properties                                                              *)

TypeOK ==
  /\ input \in Inputs /\ taken \in 0 .. Len(input)
  /\ status \in {"READ_HEADER", "ONE_CR", "ONE_LF", "TWO_CR", "BODY_READ", "BODY_WRITE",
                 "WRITE", "PIPE_READ", "PIPE_WRITE", "DONE", "DEAD"}
  /\ method \in {"GET", "HEAD", "POST"} /\ simple \in BOOLEAN /\ logline \in BOOLEAN
  /\ Len(client_stream) <= SIZE /\ parse_pos \in 0 .. Len(client_stream)
  /\ header_line \in 0 .. SIZE /\ header_end \in 0 .. SIZE
  /\ Len(data) <= SIZE /\ Len(buffered) <= SIZE
  /\ filesize \in Nat /\ filepos \in Nat
  /\ is_cgi \in BOOLEAN /\ cgi_status \in {"PARSE", "BUFFER", "DONE"} /\ output \in Output /\ printed \in 0 .. output.n
  /\ base \in 0 .. taken /\ failed \in BOOLEAN

(* The header of the request that begins behind byte base, as HTTP has it:  *)
(* a line ends with LF, carriage returns before it are not part of the line *)
(* and the second or a later line that is empty ends the header.            *)
LFs == {e \in base + 1 .. Len(input) : input[e] = "LF"}
LineStart(e) == LET before == {d \in LFs : d < e}
                IN  IF before = {} THEN base ELSE CHOOSE d \in before : \A f \in before : f <= d
LineText(e) == {p \in LineStart(e) + 1 .. e - 1 : \E q \in p .. e - 1 : input[q] # "CR"}
Number(e) == Cardinality({d \in LFs : d <= e})
Empty(e) == LineText(e) = {} /\ Number(e) > 1

(* However the bytes are packed, and whatever was pipelined in front: the   *)
(* lines that are processed are the lines of the request, and a request     *)
(* that is served has been parsed up to its empty line, or up to its first  *)
(* line if it is a simple one.                                              *)
LinesAsSent ==
  /\ \A k \in 1 .. Len(lines) : \E e \in LFs :
       /\ Number(e) = k /\ \A d \in LFs : d <= e => ~Empty(d)
       /\ {lines[k][i] : i \in 1 .. Len(lines[k])} = LineText(e)
  /\ status \in {"WRITE", "BODY_READ", "BODY_WRITE", "PIPE_READ", "PIPE_WRITE"} =>
       LET e == base + parse_pos
       IN  /\ e \in LFs
           /\ IF simple THEN Number(e) = 1 ELSE Empty(e) /\ Number(e) = Len(lines) + 1

(* The body file is a prefix of what follows the header, and the program is *)
(* not started before the Content-Length is reached.                        *)
BodyExact ==
  /\ written = Positions(base + parse_pos, Len(written))
  /\ Len(written) <= filesize
  /\ status \in {"PIPE_READ", "PIPE_WRITE"} /\ method = "POST" => Len(written) = filesize

(* what the client is to get of the output, without errors and redirections *)
Expected ==
  LET all == Positions(0, output.n)
  IN  IF ~is_cgi THEN all
      ELSE IF output.head = 0 THEN <<>>
      ELSE IF simple THEN From(all, output.head)
      ELSE IF method = "HEAD" /\ output.first = "other" THEN <<0>> \o First(all, output.head - 1)
      ELSE <<0>> \o all

(* The client gets the output of the program in order, behind the header    *)
(* lines of the server, although header and data share one buffer in two    *)
(* halves and both the pipe and the socket may stop at any byte; a reply    *)
(* that comes to its end is complete, and an error reply is not mixed with  *)
(* output.                                                                  *)
OutputExact ==
  /\ failed => sent = <<>>
  /\ ~failed => sent = First(Expected, Len(sent))
  /\ ~failed /\ Finished /\ status = "DONE" => sent = Expected
=============================================================================
