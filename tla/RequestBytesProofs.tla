------------------------ MODULE RequestBytesProofs ------------------------
(***************************************************************************)
(* Proofs about RequestBytes, for any input, any buffer size, any length   *)
(* of a body and any output of a program: the lines that are processed are *)
(* the lines that were sent, the body file is what follows the header, and *)
(* the client gets the output in order.                                    *)
(***************************************************************************)
EXTENDS RequestBytes, SequenceTheorems, FiniteSetTheorems, TLAPS

-----------------------------------------------------------------------------
(* Runs of bytes                                                           *)

(* Positions(a, k) is a sequence of k numbers.                             *)
LEMMA PositionsSeq ==
  ASSUME NEW a \in Int, NEW k \in Nat
  PROVE  /\ Positions(a, k) \in Seq(Int) /\ Len(Positions(a, k)) = k
         /\ \A i \in 1 .. k : Positions(a, k)[i] = a + i
<1> DEFINE p == Positions(a, k)
<1>1. p \in [1 .. k -> Int] /\ DOMAIN p = 1 .. k /\ \A i \in 1 .. k : p[i] = a + i
  BY DEF Positions
<1> HIDE DEF p
<1>2. p \in Seq(Int)
  BY <1>1, SeqDef
<1>3. Len(p) \in Nat /\ DOMAIN p = 1 .. Len(p)
  BY <1>2, LenProperties
<1>4. Len(p) = k
  BY <1>1, <1>3
<1>5. QED
  BY <1>1, <1>2, <1>4 DEF p

(* None at all is the empty sequence, and only that.                       *)
LEMMA PositionsEmpty ==
  ASSUME NEW a \in Int
  PROVE  Positions(a, 0) = <<>> /\ \A k \in Nat : Positions(a, k) = <<>> => k = 0
<1>1. Positions(a, 0) \in Seq(Int) /\ Len(Positions(a, 0)) = 0
  BY PositionsSeq
<1>2. Positions(a, 0) = <<>>
  BY <1>1, EmptySeq
<1>3. \A k \in Nat : Positions(a, k) = <<>> => k = 0
  BY PositionsSeq, EmptySeq
<1>4. QED
  BY <1>2, <1>3

(* Two runs of which one follows the other are one.                        *)
LEMMA PositionsConcat ==
  ASSUME NEW a \in Int, NEW j \in Nat, NEW k \in Nat
  PROVE  Positions(a, j) \o Positions(a + j, k) = Positions(a, j + k)
<1> DEFINE s == Positions(a, j)
           t == Positions(a + j, k)
           u == Positions(a, j + k)
<1>1. /\ s \in Seq(Int) /\ Len(s) = j /\ \A i \in 1 .. j : s[i] = a + i
      /\ t \in Seq(Int) /\ Len(t) = k /\ \A i \in 1 .. k : t[i] = (a + j) + i
      /\ u \in Seq(Int) /\ Len(u) = j + k /\ \A i \in 1 .. j + k : u[i] = a + i
  BY PositionsSeq
<1> HIDE DEF s, t, u
<1>2. /\ s \o t \in Seq(Int) /\ Len(s \o t) = j + k
      /\ \A i \in 1 .. j + k : (s \o t)[i] = IF i <= j THEN s[i] ELSE t[i - j]
  <2>1. s \in Seq(Int) /\ t \in Seq(Int) /\ Len(s) = j /\ Len(t) = k
    BY <1>1
  <2>2. /\ s \o t \in Seq(Int) /\ Len(s \o t) = Len(s) + Len(t)
        /\ \A i \in 1 .. Len(s) + Len(t) : (s \o t)[i] = IF i <= Len(s) THEN s[i] ELSE t[i - Len(s)]
    BY <2>1, ConcatProperties, Zenon
  <2>3. QED
    BY <2>1, <2>2, Zenon
<1>3. ASSUME NEW i \in 1 .. j + k PROVE (s \o t)[i] = u[i]
  <2>1. CASE i <= j
    BY <1>1, <1>2, <2>1
  <2>2. CASE ~(i <= j)
    <3>1. i - j \in 1 .. k /\ (a + j) + (i - j) = a + i
      BY <2>2
    <3>2. (s \o t)[i] = t[i - j] /\ t[i - j] = (a + j) + (i - j) /\ u[i] = a + i
      BY <1>1, <1>2, <2>2, <3>1
    <3>3. QED
      BY <3>1, <3>2
  <2>3. QED
    BY <2>1, <2>2
<1>4. s \o t = u
  BY <1>1, <1>2, <1>3, SeqEqual
<1>5. QED
  BY <1>4 DEF s, t, u

(* A part of a run is a run.                                               *)
LEMMA PositionsPart ==
  ASSUME NEW a \in Int, NEW k \in Nat, NEW i \in 1 .. k + 1, NEW j \in i - 1 .. k
  PROVE  SubSeq(Positions(a, k), i, j) = Positions(a + i - 1, j - i + 1)
<1> DEFINE s == Positions(a, k)
           u == Positions(a + i - 1, j - i + 1)
           p == SubSeq(s, i, j)
<1>1. /\ a + i - 1 \in Int /\ j - i + 1 \in Nat /\ i \in Int /\ j \in Int
      /\ \A x \in i .. j : x \in 1 .. k
  OBVIOUS
<1>2. /\ \A x \in 1 .. k : s[x] = a + x
      /\ u \in Seq(Int) /\ Len(u) = j - i + 1
      /\ \A x \in 1 .. j - i + 1 : u[x] = (a + i - 1) + x
  BY <1>1, PositionsSeq
<1> HIDE DEF s, u
<1>3. \A x \in i .. j : s[x] \in Int
  BY <1>1, <1>2
<1>4. /\ p \in Seq(Int) /\ Len(p) = IF i <= j THEN j - i + 1 ELSE 0
      /\ \A x \in 1 .. j - i + 1 : p[x] = s[i + x - 1]
  BY <1>1, <1>3, SubSeqProperties
<1> HIDE DEF p
<1>5. Len(p) = Len(u) /\ \A x \in 1 .. Len(p) : p[x] = u[x]
  <2>1. Len(p) = j - i + 1
    BY <1>1, <1>4
  <2>2. \A x \in 1 .. j - i + 1 : i + x - 1 \in 1 .. k
    BY <1>1
  <2>3. ASSUME NEW x \in 1 .. j - i + 1 PROVE p[x] = u[x]
    <3>1. p[x] = s[i + x - 1] /\ s[i + x - 1] = a + (i + x - 1) /\ u[x] = (a + i - 1) + x
      BY <1>2, <1>4, <2>2
    <3>2. a + (i + x - 1) = (a + i - 1) + x
      BY <1>1
    <3>3. QED
      BY <3>1, <3>2
  <2>4. QED
    BY <1>2, <2>1, <2>3
<1>6. p = u
  BY <1>2, <1>4, <1>5, SeqEqual
<1>7. QED
  BY <1>6 DEF p, s, u

(* s holds bytes that follow each other, behind byte a.                    *)
Run(s, a) == a \in Int /\ Len(s) \in Nat /\ s = Positions(a, Len(s))

(* The empty sequence is a run, and so are Positions.                      *)
LEMMA RunMade ==
  ASSUME NEW a \in Int
  PROVE  /\ Run(<<>>, a) /\ Len(<<>>) = 0
         /\ \A k \in Nat : Run(Positions(a, k), a) /\ Len(Positions(a, k)) = k
         /\ \A s : Run(s, a) /\ Len(s) = 0 => s = <<>>
<1>1. Len(<<>>) = 0 /\ Positions(a, 0) = <<>>
  BY EmptySeq, PositionsEmpty
<1>2. \A k \in Nat : Run(Positions(a, k), a) /\ Len(Positions(a, k)) = k
  BY PositionsSeq DEF Run
<1>3. QED
  BY <1>1, <1>2 DEF Run

(* A run that another continues.                                           *)
LEMMA RunJoined ==
  ASSUME NEW s, NEW t, NEW a, NEW b, Run(s, a), Run(t, b), b = a + Len(s)
  PROVE  Run(s \o t, a) /\ Len(s \o t) = Len(s) + Len(t)
<1>1. a \in Int /\ Len(s) \in Nat /\ Len(t) \in Nat /\ Len(s) + Len(t) \in Nat
  BY DEF Run
<1>2. s \o t = Positions(a, Len(s) + Len(t))
  <2>1. PICK j, k \in Nat : j = Len(s) /\ k = Len(t)
    BY <1>1
  <2>2. s = Positions(a, j) /\ t = Positions(a + j, k)
    BY <2>1 DEF Run
  <2>3. Positions(a, j) \o Positions(a + j, k) = Positions(a, j + k)
    BY <1>1, PositionsConcat
  <2>4. QED
    BY <2>1, <2>2, <2>3
<1>3. Len(s \o t) = Len(s) + Len(t)
  BY <1>1, <1>2, PositionsSeq
<1>4. QED
  BY <1>1, <1>2, <1>3 DEF Run

(* The first k bytes of a run, and the rest.                               *)
LEMMA RunCut ==
  ASSUME NEW s, NEW a, Run(s, a), NEW k \in 0 .. Len(s)
  PROVE  /\ Run(First(s, k), a) /\ Len(First(s, k)) = k
         /\ Run(From(s, k + 1), a + k) /\ Len(From(s, k + 1)) = Len(s) - k
<1>1. PICK n : n = Len(s)
  OBVIOUS
<1>2. a \in Int /\ n \in Nat /\ k \in Nat /\ k <= n /\ s = Positions(a, n)
  BY <1>1 DEF Run
<1>3. First(s, k) = Positions(a, k)
  <2>1. SubSeq(Positions(a, n), 1, k) = Positions(a + 1 - 1, k - 1 + 1)
    <3>1. 1 \in 1 .. n + 1 /\ k \in 1 - 1 .. n
      BY <1>2
    <3>2. QED
      BY <1>2, <3>1, PositionsPart
  <2>2. a + 1 - 1 = a /\ k - 1 + 1 = k
    BY <1>2
  <2>3. QED
    BY <1>2, <2>1, <2>2 DEF First
<1>4. From(s, k + 1) = Positions(a + k, n - k)
  <2>1. SubSeq(Positions(a, n), k + 1, n) = Positions(a + (k + 1) - 1, n - (k + 1) + 1)
    <3>1. k + 1 \in 1 .. n + 1 /\ n \in (k + 1) - 1 .. n
      BY <1>2
    <3>2. QED
      BY <1>2, <3>1, PositionsPart
  <2>2. a + (k + 1) - 1 = a + k /\ n - (k + 1) + 1 = n - k
    BY <1>2
  <2>3. QED
    BY <1>1, <1>2, <2>1, <2>2 DEF From
<1>5. a + k \in Int /\ n - k \in Nat
  BY <1>2
<1>6. QED
  BY <1>1, <1>2, <1>3, <1>4, <1>5, RunMade

-----------------------------------------------------------------------------
(* The invariant                                                           *)

InBody == status \in {"BODY_READ", "BODY_WRITE"}
InPipe == status \in {"PIPE_READ", "PIPE_WRITE"}
Over == status \in {"DONE", "DEAD"}

(* client_stream holds what was read behind the earlier requests, and      *)
(* until a body is read nothing else was.                                  *)
StreamInv ==
  /\ Run(client_stream, base) /\ base + Len(client_stream) <= taken
  /\ InHeader \/ status = "WRITE" => taken = base + Len(client_stream)

(* No program has been started.                                            *)
Quiet == sent = <<>> /\ buffered = <<>> /\ ~is_cgi /\ output = NONE /\ printed = 0

(* While the header is read, and with a native reply, nothing else is on   *)
(* its way.                                                                *)
HeadInv ==
  /\ InHeader \/ status = "WRITE" => data = <<>> /\ filesize = 0 /\ written = <<>>
  /\ InHeader \/ InBody => ~simple
  /\ InHeader \/ InBody \/ status = "WRITE" => Quiet /\ ~failed

(* What the body file holds and what waits for it are the bytes behind the *)
(* header; unless they reach the Content-Length, they are all that was     *)
(* read.                                                                   *)
BodyInv ==
  /\ Run(written, base + parse_pos) /\ Len(written) <= filesize
  /\ InBody =>
       /\ method = "POST"
       /\ filepos = Len(written) /\ Run(data, base + parse_pos + filepos)
       /\ filepos + Len(data) <= filesize
       /\ filepos + Len(data) = filesize \/ taken = base + parse_pos + filepos + Len(data)
       /\ header_end = header_line + Len(data)
  /\ status = "BODY_READ" => data = <<>> /\ filepos < filesize /\ header_line = 0
  /\ InPipe /\ method = "POST" => Len(written) = filesize

(* The server's own header lines counting as byte 0, what the client is to *)
(* get are Total bytes behind byte Start.                                  *)
Start == IF ~is_cgi THEN 0 ELSE IF simple THEN output.head - 1 ELSE -1
Total == IF ~is_cgi THEN output.n
         ELSE IF output.head = 0 THEN 0
         ELSE IF simple THEN output.n - output.head + 1
         ELSE IF method = "HEAD" /\ output.first = "other" THEN output.head
         ELSE output.n + 1

(* The program's header is still to be parsed: all it printed is in the    *)
(* upper half of the buffer.                                               *)
Parsing ==
  /\ status = "PIPE_READ" /\ is_cgi /\ sent = <<>> /\ buffered = <<>>
  /\ Run(data, 0) /\ Len(data) = printed /\ header_line = HALF

(* It is parsed, or there is none: what was sent, what waits in front of   *)
(* the data and the data follow each other up to the last byte printed.    *)
Passing ==
  /\ is_cgi => output.head > 0 /\ (simple \/ method # "HEAD" \/ output.first # "other")
  /\ Run(data, Start + Len(sent) + Len(buffered))
  /\ Start + Len(sent) + Len(buffered) + Len(data) = printed
  /\ cgi_status = "DONE" => status = "PIPE_WRITE" /\ printed = output.n

OutputInv ==
  /\ failed => sent = <<>> /\ buffered = <<>> /\ Over
  /\ Run(sent, Start) /\ Run(buffered, Start + Len(sent))
  /\ ~failed => Len(sent) + Len(buffered) <= Total
  /\ ~failed /\ status = "DONE" => Len(sent) + Len(buffered) = Total
  /\ output.head <= output.n
  /\ InPipe => header_end = header_line + Len(data)
  /\ InPipe => IF cgi_status = "PARSE" THEN Parsing ELSE Passing

(* BodyExact and OutputExact follow from this.                             *)
BInv == TypeOK /\ StreamInv /\ HeadInv /\ BodyInv /\ OutputInv

(* The upper half of the buffer begins behind its first byte.              *)
LEMMA HalfRange == HALF \in 1 .. SIZE - 1
BY SizeAssumption DEF HALF

(* NONE is a program's output.                                             *)
LEMMA NoneType == NONE \in Output /\ NONE.n = 0 /\ NONE.head = 0
BY DEF NONE, Output

(* A step after which no program has been started.                         *)
LEMMA QuietOutput ==
  ASSUME Quiet', ~InPipe', failed' => Over'
  PROVE  OutputInv'
<1>1. /\ sent' = <<>> /\ buffered' = <<>> /\ Start' = 0 /\ Total' = 0 /\ output'.head = 0 /\ output'.n = 0
  BY NoneType DEF Quiet, Start, Total
<1>2. Run(sent', 0) /\ Len(sent') = 0 /\ Run(buffered', 0 + 0) /\ Len(buffered') = 0
  BY <1>1, RunMade
<1>3. QED
  BY <1>1, <1>2 DEF OutputInv

(* Initially nothing was read.                                             *)
LEMMA InitBytes == Init => BInv
<1> SUFFICES ASSUME Init PROVE BInv
  OBVIOUS
<1>1. /\ Len(client_stream) = 0 /\ Len(data) = 0 /\ Len(buffered) = 0 /\ Len(written) = 0 /\ Len(sent) = 0
      /\ Run(client_stream, 0) /\ Run(written, 0) /\ Run(sent, 0) /\ Run(buffered, 0)
  BY RunMade DEF Init
<1>2. Len(input) \in Nat
  BY InputsAssumption, LenProperties DEF Init
<1>3. TypeOK
  <2>1. Len(client_stream) <= SIZE /\ parse_pos \in 0 .. Len(client_stream)
        /\ Len(data) <= SIZE /\ Len(buffered) <= SIZE
    <3>1. parse_pos = 0
      BY DEF Init
    <3>2. QED
      BY <1>1, <3>1, SizeAssumption
  <2>2. output \in Output /\ printed \in 0 .. output.n
    BY NoneType DEF Init
  <2>3. /\ taken \in 0 .. Len(input) /\ header_line \in 0 .. SIZE /\ header_end \in 0 .. SIZE
        /\ filesize \in Nat /\ filepos \in Nat /\ base \in 0 .. taken
    BY <1>2, SizeAssumption DEF Init
  <2>4. QED
    BY <2>1, <2>2, <2>3 DEF Init, TypeOK
<1>4. Start = 0 /\ Total = 0 /\ output.head = 0 /\ output.n = 0
  BY NoneType DEF Init, Start, Total
<1>5. StreamInv /\ BodyInv
  BY <1>1 DEF Init, StreamInv, BodyInv, InBody, InPipe
<1>6. HeadInv
  BY DEF Init, HeadInv, Quiet
<1>7. OutputInv
  BY <1>1, <1>4 DEF Init, OutputInv, InPipe, Over
<1>8. QED
  BY <1>3, <1>5, <1>6, <1>7 DEF BInv

-----------------------------------------------------------------------------
(* The steps of a header                                                   *)

(* A step that reads or parses, or ends the request, and does nothing else *)
(* keeps the invariant.                                                    *)
LEMMA HeaderStep ==
  ASSUME BInv, InHeader \/ status = "WRITE",
         InHeader' \/ Over' \/ status' = "WRITE", TypeOK', StreamInv',
         UNCHANGED <<data, body, cgi, buffered, sent>>,
         failed' => Over', ~failed => ~failed' \/ Over', InHeader' => ~simple'
  PROVE  BInv'
<1>1. /\ data = <<>> /\ filesize = 0 /\ written = <<>> /\ Quiet /\ ~failed
  BY DEF BInv, HeadInv
<1>2. Quiet' /\ ~InPipe' /\ ~InBody' /\ (InHeader' \/ status' = "WRITE" => ~failed')
  BY <1>1 DEF Quiet, InPipe, InBody, InHeader, Over, cgi
<1>3. OutputInv'
  BY <1>2, QuietOutput
<1>4. HeadInv'
  BY <1>1, <1>2 DEF HeadInv, body
<1>5. written' = <<>> /\ filesize' = 0 /\ base' + parse_pos' \in Int
  BY <1>1 DEF body, TypeOK
<1>6. Run(written', base' + parse_pos') /\ Len(written') = 0
  BY <1>5, RunMade
<1>7. BodyInv'
  BY <1>2, <1>5, <1>6 DEF BodyInv, InBody
<1>8. QED
  BY <1>3, <1>4, <1>7 DEF BInv

(* read_header finds something in the buffer: a turn of its loop.          *)
LEMMA TurnStream ==
  ASSUME BInv, NEW step, Turn(step), UNCHANGED base,
         InHeader' \/ status' = "WRITE" \/ InBody' \/ InPipe' \/ Over'
  PROVE  /\ StreamInv' /\ InHeader /\ parse_pos' = parse_pos + 1 /\ parse_pos' \in 0 .. Len(client_stream)
         /\ UNCHANGED <<input, taken, client_stream>>
         /\ EndSeen \in 0 .. SIZE
<1>1. /\ InHeader /\ parse_pos < Len(client_stream) /\ parse_pos' = parse_pos + 1
      /\ UNCHANGED <<input, taken, client_stream>>
  BY DEF Turn
<1>2. /\ parse_pos \in 0 .. Len(client_stream) /\ Len(client_stream) <= SIZE
      /\ header_end \in 0 .. SIZE /\ Len(client_stream) \in Nat
  BY DEF BInv, StreamInv, TypeOK, Run
<1>3. EndSeen \in 0 .. SIZE
  BY <1>2, SizeAssumption DEF EndSeen
<1>4. StreamInv'
  BY <1>1 DEF BInv, StreamInv
<1>5. QED
  BY <1>1, <1>2, <1>3, <1>4

(* A byte that ends no line.                                               *)
LEMMA ScanSteps ==
  ASSUME BInv, ScanOn
  PROVE  BInv'
<1>1. PICK step \in {"READ_HEADER", "ONE_CR", "TWO_CR"} : Turn(step) /\ status' = step
  BY DEF ScanOn
<1>2. /\ StreamInv' /\ InHeader /\ parse_pos' \in 0 .. Len(client_stream)
      /\ UNCHANGED <<input, taken, client_stream>> /\ EndSeen \in 0 .. SIZE
  BY <1>1, TurnStream DEF ScanOn, InHeader
<1>3. /\ header_end' = EndSeen /\ InHeader'
      /\ UNCHANGED <<method, simple, logline, header_line, data, body, cgi, reply, base>>
  BY <1>1 DEF ScanOn, InHeader
<1>4. TypeOK'
  BY <1>1, <1>2, <1>3 DEF BInv, TypeOK, body, cgi, reply
<1>5. ~simple /\ ~failed
  BY <1>2 DEF BInv, HeadInv
<1>6. QED
  BY <1>2, <1>3, <1>4, <1>5, HeaderStep DEF reply

(* read_header reads more bytes, finds the buffer full or the connection   *)
(* closed.                                                                 *)
LEMMA ReadHeaderSteps ==
  ASSUME BInv, ReadHeader
  PROVE  BInv'
<1>1. /\ InHeader /\ TypeOK /\ taken = base + Len(client_stream) /\ Run(client_stream, base)
      /\ UNCHANGED <<method, simple, logline, input, parse_pos, pointers, body, cgi, reply, base>>
      /\ ~simple /\ ~failed
  BY DEF ReadHeader, BInv, StreamInv, HeadInv
<1>2. Len(client_stream) \in Nat /\ taken \in Nat /\ base \in Nat /\ Len(input) \in Nat
  BY <1>1, InputsAssumption, LenProperties DEF Run, TypeOK
<1>3. CASE UNCHANGED <<taken, client_stream>> /\ status' \in {"DONE", "DEAD"}
  <2>1. TypeOK' /\ StreamInv'
    BY <1>1, <1>3 DEF TypeOK, StreamInv, InHeader, pointers, body, cgi, reply
  <2>2. QED
    BY <1>1, <1>3, <2>1, HeaderStep DEF InHeader, Over, pointers, reply
<1>4. ASSUME NEW k \in 1 .. SIZE - Len(client_stream), taken + k <= Len(input), taken' = taken + k,
             client_stream' = client_stream \o Positions(taken, k), UNCHANGED status
      PROVE  BInv'
  <2>1. k \in Nat /\ Run(Positions(taken, k), taken) /\ Len(Positions(taken, k)) = k
    BY <1>2, SizeAssumption, RunMade
  <2>2. Run(client_stream', base) /\ Len(client_stream') = Len(client_stream) + k
    BY <1>1, <1>4, <2>1, RunJoined
  <2>3. Len(client_stream') <= SIZE /\ taken' \in 0 .. Len(input)
    BY <1>1, <1>2, <1>4, <2>1, <2>2, SizeAssumption
  <2>4. TypeOK'
    <3>1. UNCHANGED status /\ parse_pos \in 0 .. Len(client_stream') /\ base \in 0 .. taken'
      BY <1>1, <1>2, <1>4, <2>1, <2>2 DEF TypeOK
    <3>2. QED
      BY <1>1, <2>3, <3>1 DEF TypeOK, pointers, body, cgi, reply
  <2>5. StreamInv'
    <3> taken' = taken + k
      BY <1>4
    <3>1. taken' = base' + Len(client_stream') /\ base' = base
      BY <1>1, <1>2, <2>1, <2>2
    <3>2. base' + Len(client_stream') <= taken'
      BY <1>2, <2>1, <2>2, <3>1
    <3>3. QED
      BY <2>2, <3>1, <3>2 DEF StreamInv
  <2>6. QED
    BY <1>1, <1>4, <2>4, <2>5, HeaderStep DEF InHeader, pointers, reply
<1>5. QED
  BY <1>3, <1>4 DEF ReadHeader

(* After a native reply the connection is kept or closed.                  *)
LEMMA KeepSteps ==
  ASSUME BInv, Keep \/ Close
  PROVE  BInv'
<1>1. /\ status = "WRITE" /\ TypeOK /\ taken = base + Len(client_stream) /\ Run(client_stream, base)
      /\ UNCHANGED <<data, body, cgi, reply>> /\ ~failed
  BY DEF Keep, Close, BInv, StreamInv, HeadInv, pointers
<1>2. Len(client_stream) \in Nat /\ taken \in Nat /\ base \in Nat /\ parse_pos \in 0 .. Len(client_stream)
  BY <1>1 DEF Run, TypeOK
<1>3. CASE Close
  <2>1. TypeOK' /\ StreamInv'
    BY <1>1, <1>3 DEF Close, BInv, TypeOK, StreamInv, InHeader, stream, pointers, body, cgi, reply
  <2>2. QED
    BY <1>1, <1>3, <2>1, HeaderStep DEF Close, InHeader, Over, reply
<1>4. CASE Keep
  <2>1. Run(client_stream', base') /\ Len(client_stream') = Len(client_stream) - parse_pos
    BY <1>1, <1>2, <1>4, RunCut DEF Keep
  <2>2. TypeOK'
    <3>1. /\ Len(client_stream') <= SIZE /\ parse_pos' \in 0 .. Len(client_stream')
          /\ base' \in 0 .. taken'
      BY <1>1, <1>2, <1>4, <2>1, SizeAssumption DEF Keep, TypeOK
    <3>2. /\ UNCHANGED <<simple, input, taken>> /\ status' = "READ_HEADER" /\ method' = "GET" /\ logline' = FALSE
          /\ header_line' \in 0 .. SIZE /\ header_end' \in 0 .. SIZE
      BY <1>4, SizeAssumption DEF Keep
    <3>3. QED
      BY <1>1, <3>1, <3>2 DEF TypeOK, body, cgi, reply
  <2>3. StreamInv'
    BY <1>1, <1>2, <1>4, <2>1 DEF Keep, StreamInv
  <2>4. QED
    BY <1>1, <1>4, <2>2, <2>3, HeaderStep DEF Keep, InHeader, reply
<1>5. QED
  BY <1>3, <1>4

(* init_cgi starts a program when the header is parsed, or the body of the *)
(* request is in its file.                                                 *)
LEMMA StartCgi ==
  ASSUME BInv, init_cgi, sent = <<>>, buffered = <<>>, ~failed, StreamInv',
         UNCHANGED <<input, taken, client_stream, base, written, filesize, buffered, sent, failed>>,
         parse_pos' \in 0 .. Len(client_stream), method' \in {"GET", "HEAD", "POST"},
         simple' \in BOOLEAN, logline' \in BOOLEAN,
         Run(written, base + parse_pos'), method' = "POST" => Len(written) = filesize
  PROVE  BInv'
<1>1. /\ status' = "PIPE_READ" /\ output' \in Outputs /\ printed' = 0 /\ data' = <<>>
      /\ header_end' = header_line' /\ filepos' = 0
      /\ \/ is_cgi' = TRUE /\ cgi_status' = "PARSE" /\ header_line' = HALF
         \/ is_cgi' = FALSE /\ cgi_status' = "BUFFER" /\ header_line' = 0
  BY DEF init_cgi
<1>2. /\ output' \in Output /\ output'.head \in Nat /\ output'.n \in Nat /\ output'.head <= output'.n
  BY <1>1, OutputsAssumption DEF Output
<1>3. /\ Len(data') = 0 /\ Len(sent') = 0 /\ Len(buffered') = 0 /\ \A a \in Int : Run(data', a) /\ Run(sent', a) /\ Run(buffered', a)
  BY <1>1, RunMade
<1>4. TypeOK'
  <2>1. printed' \in 0 .. output'.n /\ header_line' \in 0 .. SIZE /\ header_end' \in 0 .. SIZE
    BY <1>1, <1>2, HalfRange, SizeAssumption
  <2>2. filepos' \in Nat /\ is_cgi' \in BOOLEAN /\ cgi_status' \in {"PARSE", "BUFFER", "DONE"}
    BY <1>1
  <2>3. Len(data') <= SIZE
    BY <1>3, SizeAssumption
  <2>4. QED
    BY <1>1, <1>2, <2>1, <2>2, <2>3 DEF BInv, TypeOK
<1>5. HeadInv' /\ InPipe'
  BY <1>1 DEF HeadInv, InHeader, InBody, InPipe
<1>6. BodyInv'
  BY <1>1 DEF BInv, BodyInv, InBody
<1>7. Start' \in Int /\ Total' \in Int /\ Total' >= 0
  <2>1. Start' \in Int
    BY <1>2 DEF Start
  <2>2. Total' \in Int /\ Total' >= 0
    BY <1>2 DEF Total
  <2>3. QED
    BY <2>1, <2>2
<1>8. IF cgi_status' = "PARSE" THEN Parsing' ELSE Passing'
  <2>1. CASE is_cgi' = TRUE /\ cgi_status' = "PARSE" /\ header_line' = HALF
    BY <1>1, <1>3, <2>1 DEF Parsing
  <2>2. CASE is_cgi' = FALSE /\ cgi_status' = "BUFFER"
    <3>1. Start' = 0
      BY <2>2 DEF Start
    <3>2. QED
      BY <1>1, <1>3, <2>2, <3>1 DEF Passing
  <2>3. QED
    BY <1>1, <2>1, <2>2
<1>9. OutputInv'
  <2>1. ~Over' /\ ~failed'
    BY <1>1 DEF Over
  <2>2. Run(sent', Start') /\ Run(buffered', Start' + Len(sent')) /\ Len(sent') + Len(buffered') <= Total'
    BY <1>3, <1>7
  <2>3. header_end' = header_line' + Len(data')
    <3>1. header_end' = header_line' /\ header_line' \in Int
      BY <1>1, <1>4 DEF TypeOK
    <3>2. PICK k, l : k = Len(data') /\ l = header_line'
      OBVIOUS
    <3>3. k = 0 /\ l \in Int
      BY <1>3, <3>1, <3>2
    <3>4. l + k = l
      BY <3>3
    <3>5. QED
      BY <3>1, <3>2, <3>4
  <2>4. QED
    BY <1>2, <1>8, <2>1, <2>2, <2>3 DEF OutputInv, Over
<1>10. QED
  BY <1>4, <1>5, <1>6, <1>9 DEF BInv

(* The end of a line.                                                      *)
LEMMA EndLineSteps ==
  ASSUME BInv, EndLine
  PROVE  BInv'
<1>1. TypeOK /\ Turn("ONE_LF") /\ logline' = TRUE /\ UNCHANGED base
  BY DEF BInv, EndLine
<1>2. status' \in {"ONE_LF", "DONE", "WRITE", "PIPE_READ"}
  BY DEF EndLine, Refuse, ServeGet, init_cgi
<1>3. /\ StreamInv' /\ InHeader /\ parse_pos' = parse_pos + 1 /\ parse_pos' \in 0 .. Len(client_stream)
      /\ UNCHANGED <<input, taken, client_stream>> /\ EndSeen \in 0 .. SIZE
  BY <1>1, <1>2, TurnStream DEF InHeader, InPipe, Over
<1>4. data = <<>> /\ filesize = 0 /\ written = <<>> /\ Quiet /\ ~failed /\ ~simple
  BY <1>3 DEF BInv, HeadInv
<1>5. parse_pos' \in 0 .. SIZE
  BY <1>3, SizeAssumption DEF BInv, TypeOK, StreamInv, Run
<1>6. CASE Refuse /\ UNCHANGED <<simple, header_line>> /\ header_end' = EndSeen
  <2>1. TypeOK'
    BY <1>1, <1>3, <1>6 DEF TypeOK, Refuse, body, cgi
  <2>2. QED
    BY <1>3, <1>4, <1>6, <2>1, HeaderStep DEF Refuse, InHeader, Over
<1>7. ASSUME method' \in {"GET", "HEAD", "POST"}, simple' = FALSE,
             status' = "ONE_LF", header_line' = parse_pos', header_end' = EndSeen,
             UNCHANGED <<data, body, cgi, reply>>
      PROVE  BInv'
  <2>1. TypeOK'
    BY <1>1, <1>3, <1>5, <1>7 DEF TypeOK, body, cgi, reply
  <2>2. QED
    BY <1>3, <1>4, <1>7, <2>1, HeaderStep DEF InHeader, reply
<1>8. ASSUME method' = "GET", simple' = TRUE, ServeGet, UNCHANGED <<filesize, written, reply>>
      PROVE  BInv'
  <2>1. CASE status' = "WRITE" /\ UNCHANGED <<pointers, filepos, cgi>>
    <3>1. TypeOK'
      BY <1>1, <1>3, <1>8, <2>1 DEF TypeOK, pointers, cgi, reply
    <3>2. QED
      BY <1>3, <1>4, <1>8, <2>1, <3>1, HeaderStep DEF InHeader, pointers, body, reply
  <2>2. CASE init_cgi
    <3>1. base + parse_pos' \in Int
      BY <1>1, <1>3 DEF TypeOK
    <3>2. Run(written, base + parse_pos')
      BY <1>4, <3>1, RunMade
    <3>3. QED
      BY <1>1, <1>3, <1>4, <1>8, <2>2, <3>2, StartCgi DEF reply, Quiet
  <2>3. QED
    BY <1>8, <2>1, <2>2 DEF ServeGet
<1>9. CASE /\ logline /\ status' = "ONE_LF" /\ header_line' = parse_pos' /\ header_end' = EndSeen
           /\ UNCHANGED <<method, simple, data, body, cgi, reply>>
  <2>1. method' \in {"GET", "HEAD", "POST"} /\ simple' = FALSE
    BY <1>1, <1>4, <1>9 DEF TypeOK
  <2>2. QED
    BY <1>7, <1>9, <2>1
<1>10. QED
  BY <1>6, <1>7, <1>8, <1>9 DEF EndLine

(* The empty line: the request is served, or its body is next.             *)
LEMMA EndHeaderSteps ==
  ASSUME BInv, EndHeader
  PROVE  BInv'
<1>1. TypeOK /\ Turn("BODY_READ") /\ UNCHANGED <<simple, logline, base>>
  BY DEF BInv, EndHeader
<1>2. status' \in {"DONE", "WRITE", "PIPE_READ", "BODY_WRITE"}
  BY DEF EndHeader, Refuse, ServeGet, init_cgi, StartBody
<1>3. /\ StreamInv' /\ InHeader /\ parse_pos' = parse_pos + 1 /\ parse_pos' \in 0 .. Len(client_stream)
      /\ UNCHANGED <<input, taken, client_stream>>
  BY <1>1, <1>2, TurnStream DEF InBody, InPipe, Over
<1>4. /\ data = <<>> /\ filesize = 0 /\ written = <<>> /\ Quiet /\ ~failed /\ ~simple
      /\ taken = base + Len(client_stream) /\ Run(client_stream, base)
  BY <1>3 DEF BInv, HeadInv, StreamInv
<1>5. /\ base \in Nat /\ Len(client_stream) \in Nat /\ base + parse_pos' \in Int
      /\ Len(client_stream) <= SIZE
  BY <1>1, <1>3, <1>4 DEF TypeOK, Run
<1>6. Run(written, base + parse_pos') /\ Len(written) = 0
  BY <1>4, <1>5, RunMade
<1>7. CASE Refuse /\ UNCHANGED <<header_line, header_end>>
  <2>1. TypeOK'
    BY <1>1, <1>3, <1>7 DEF TypeOK, Refuse, body, cgi
  <2>2. QED
    BY <1>3, <1>4, <1>7, <2>1, HeaderStep DEF Refuse, InHeader, Over
<1>8. CASE method # "POST" /\ ServeGet /\ UNCHANGED <<method, filesize, written, reply>>
  <2>1. CASE status' = "WRITE" /\ UNCHANGED <<pointers, filepos, cgi>>
    <3>1. TypeOK'
      BY <1>1, <1>3, <1>8, <2>1 DEF TypeOK, pointers, cgi, reply
    <3>2. QED
      BY <1>3, <1>4, <1>8, <2>1, <3>1, HeaderStep DEF InHeader, pointers, body, reply
  <2>2. CASE init_cgi
    <3>1. method' \in {"GET", "HEAD", "POST"} /\ simple' \in BOOLEAN /\ logline' \in BOOLEAN /\ method' # "POST"
      BY <1>1, <1>8 DEF TypeOK
    <3>2. QED
      BY <1>3, <1>4, <1>6, <1>8, <2>2, <3>1, StartCgi, <1>1 DEF reply, Quiet
  <2>3. QED
    BY <1>8, <2>1, <2>2 DEF ServeGet
<1>9. ASSUME NEW n \in Lengths \ {0}, StartBody(n), method = "POST", UNCHANGED <<method, written, cgi, reply>>
      PROVE  BInv'
  <2>1. PICK k : k = IF Len(client_stream) - parse_pos' > n THEN n ELSE Len(client_stream) - parse_pos'
    OBVIOUS
  <2>2. /\ n \in Nat /\ k \in Nat /\ k <= n /\ parse_pos' + k <= Len(client_stream)
        /\ k = n \/ parse_pos' + k = Len(client_stream)
    BY <1>3, <1>5, <2>1, LengthsAssumption
  <2>3. /\ filesize' = n /\ filepos' = 0 /\ status' = "BODY_WRITE"
        /\ header_line' = parse_pos' /\ header_end' = parse_pos' + k
        /\ data' = SubSeq(client_stream, parse_pos' + 1, parse_pos' + k)
    BY <1>9, <2>1 DEF StartBody
  <2>4. Run(data', base + parse_pos') /\ Len(data') = k
    <3>1. PICK p, c : p = parse_pos' /\ c = Len(client_stream)
      OBVIOUS
    <3>2. /\ p \in Nat /\ p + k <= c /\ c \in Nat /\ client_stream = Positions(base, c)
      BY <1>3, <1>4, <1>5, <2>2, <3>1 DEF Run
    <3>3. p + 1 \in 1 .. c + 1 /\ p + k \in (p + 1) - 1 .. c
      BY <2>2, <3>2
    <3>4. SubSeq(Positions(base, c), p + 1, p + k) = Positions(base + (p + 1) - 1, (p + k) - (p + 1) + 1)
      <4>1. PICK a, i, j : a = base /\ i = p + 1 /\ j = p + k
        OBVIOUS
      <4>2. a \in Int /\ c \in Nat /\ i \in 1 .. c + 1 /\ j \in i - 1 .. c
        BY <1>5, <3>2, <3>3, <4>1
      <4>3. SubSeq(Positions(a, c), i, j) = Positions(a + i - 1, j - i + 1)
        BY <4>2, PositionsPart
      <4>4. QED
        BY <4>1, <4>3
    <3>5. base + (p + 1) - 1 = base + p /\ (p + k) - (p + 1) + 1 = k
      BY <1>5, <2>2, <3>2
    <3>6. data' = Positions(base + p, k)
      BY <2>3, <3>1, <3>2, <3>4, <3>5
    <3>7. QED
      BY <1>5, <2>2, <3>1, <3>6, RunMade
  <2>5. TypeOK'
    <3>1. /\ header_line' \in 0 .. SIZE /\ header_end' \in 0 .. SIZE /\ Len(data') <= SIZE
          /\ filesize' \in Nat /\ filepos' \in Nat
      <4>1. header_line' = parse_pos' /\ header_end' = parse_pos' + k /\ filesize' = n /\ filepos' = 0
        BY <2>3
      <4>2. QED
        BY <1>3, <1>5, <2>2, <2>4, <4>1, SizeAssumption
    <3>2. status' = "BODY_WRITE"
      BY <2>3
    <3>3. QED
      BY <1>1, <1>3, <1>9, <3>1, <3>2 DEF TypeOK, cgi, reply
  <2>6. InBody' /\ ~InPipe' /\ ~InHeader' /\ status' # "WRITE" /\ status' # "BODY_READ"
    BY <2>3 DEF InBody, InPipe, InHeader
  <2>7. Quiet' /\ ~failed'
    BY <1>4, <1>9 DEF Quiet, cgi, reply
  <2>8. HeadInv' /\ OutputInv'
    BY <1>1, <1>4, <2>6, <2>7, QuietOutput DEF HeadInv
  <2>9. BodyInv'
    <3>1. /\ Len(written') = 0 /\ Run(written', base' + parse_pos') /\ filepos' = 0 /\ filesize' = n
          /\ base' = base /\ taken' = base + Len(client_stream) /\ header_end' = header_line' + k
          /\ method' = "POST"
      BY <1>1, <1>3, <1>4, <1>6, <1>9, <2>3
    <3>2. Run(data', base' + parse_pos' + filepos')
      BY <1>5, <2>4, <3>1
    <3>3. filepos' + Len(data') <= filesize' /\ filepos' = Len(written') /\ Len(written') <= filesize'
      BY <2>2, <2>4, <3>1
    <3>4. filepos' + Len(data') = filesize' \/ taken' = base' + parse_pos' + filepos' + Len(data')
      BY <1>3, <1>5, <2>2, <2>4, <3>1
    <3>5. QED
      BY <2>4, <2>6, <3>1, <3>2, <3>3, <3>4 DEF BodyInv
  <2>10. QED
    BY <1>3, <2>5, <2>8, <2>9 DEF BInv
<1>10. QED
  BY <1>7, <1>8, <1>9 DEF EndHeader

-----------------------------------------------------------------------------
(* The steps of a body                                                     *)

(* What the body's steps leave alone.                                      *)
LEMMA BodyFrame ==
  ASSUME BInv, InBody, InBody' \/ status' = "DONE", TypeOK', BodyInv',
         UNCHANGED <<simple, client_stream, base, cgi, buffered, sent>>, taken' >= taken,
         failed' => Over', InBody' => ~failed'
  PROVE  BInv'
<1>1. Quiet /\ ~simple
  BY DEF BInv, HeadInv
<1>2. Quiet' /\ ~InPipe' /\ ~InHeader' /\ status' # "WRITE"
  BY <1>1 DEF Quiet, InPipe, InHeader, InBody, cgi
<1>3. OutputInv'
  BY <1>2, QuietOutput
<1>4. HeadInv'
  BY <1>1, <1>2 DEF HeadInv
<1>5. StreamInv'
  <2>1. /\ Run(client_stream, base) /\ base + Len(client_stream) <= taken
        /\ Len(client_stream) \in Nat /\ base \in Int /\ taken \in Int /\ taken' \in Int
    BY DEF BInv, StreamInv, TypeOK, Run
  <2>2. base + Len(client_stream) <= taken'
    BY <2>1
  <2>3. QED
    BY <1>2, <2>1, <2>2 DEF StreamInv
<1>6. QED
  BY <1>3, <1>4, <1>5 DEF BInv

(* The request fails in the middle of its body.                            *)
LEMMA BodyFails ==
  ASSUME BInv, InBody, status' = "DONE", failed' = TRUE,
         UNCHANGED <<method, simple, logline, stream, pointers, body, cgi, buffered, sent, base>>
  PROVE  BInv'
<1>1. TypeOK'
  BY DEF BInv, TypeOK, stream, pointers, body, cgi
<1>2. BodyInv'
  BY DEF BInv, BodyInv, InBody, InPipe, stream, body
<1>3. taken' >= taken
  BY DEF BInv, TypeOK, stream
<1>4. QED
  BY <1>1, <1>2, <1>3, BodyFrame DEF stream, InBody, Over

(* read_body reads no further than the Content-Length.                     *)
LEMMA ReadBodySteps ==
  ASSUME BInv, read_body
  PROVE  BInv'
<1>1. /\ status = "BODY_READ" /\ InBody /\ TypeOK /\ ~failed
      /\ UNCHANGED <<method, simple, logline, input, client_stream, parse_pos, header_line, body, cgi,
                     buffered, sent, base>>
      /\ failed' = (failed \/ status' = "DONE")
  BY DEF read_body, BInv, HeadInv, InBody
<1>2. /\ data = <<>> /\ filepos < filesize /\ header_line = 0 /\ filepos = Len(written)
      /\ Run(data, base + parse_pos + filepos) /\ Len(data) = 0 /\ method = "POST"
      /\ Run(written, base + parse_pos) /\ Len(written) <= filesize
  BY <1>1, EmptySeq DEF BInv, BodyInv
<1>3. /\ base \in Nat /\ parse_pos \in Nat /\ filepos \in Nat /\ filesize \in Nat /\ taken \in Nat
  BY <1>1, <1>2 DEF TypeOK, Run
<1>4. taken = base + parse_pos + filepos /\ header_end = 0
  <2>1. filepos + 0 # filesize
    BY <1>2, <1>3
  <2>2. taken = base + parse_pos + filepos + 0 /\ header_end = 0 + 0
    BY <1>1, <1>2, <2>1 DEF BInv, BodyInv
  <2>3. QED
    BY <1>3, <2>2
<1>5. ASSUME NEW k \in 1 .. SIZE, k <= filesize - filepos, taken + k <= Len(input), taken' = taken + k,
             data' = data \o Positions(taken, k), header_end' = header_end + k, status' = "BODY_WRITE"
      PROVE  BInv'
  <2>1. k \in Nat /\ Run(Positions(taken, k), taken) /\ Len(Positions(taken, k)) = k
    BY <1>3, SizeAssumption, RunMade
  <2>2. taken = base + parse_pos + filepos + Len(data)
    BY <1>2, <1>3, <1>4
  <2>3. Run(data', base + parse_pos + filepos) /\ Len(data') = Len(data) + Len(Positions(taken, k))
    BY <1>2, <1>5, <2>1, <2>2, RunJoined
  <2>4. Len(data') = k
    BY <1>2, <2>1, <2>3
  <2>5. taken' = taken + k /\ header_end' = k /\ status' = "BODY_WRITE" /\ k <= SIZE /\ taken' \in 0 .. Len(input)
    <3>1. Len(input) \in Nat
      BY <1>1, InputsAssumption, LenProperties DEF TypeOK
    <3>2. QED
      BY <1>3, <1>4, <1>5, <2>1, <3>1
  <2>6. TypeOK'
    <3>1. header_end' \in 0 .. SIZE /\ Len(data') <= SIZE /\ base \in 0 .. taken'
      BY <1>1, <1>3, <2>1, <2>4, <2>5, SizeAssumption DEF TypeOK
    <3>2. failed' \in BOOLEAN
      BY <1>1
    <3>3. QED
      BY <1>1, <2>5, <3>1, <3>2 DEF TypeOK, body, cgi
  <2>7. BodyInv'
    <3>1. /\ filepos' = filepos /\ filesize' = filesize /\ written' = written /\ base' = base
          /\ parse_pos' = parse_pos /\ header_line' = 0 /\ method' = "POST"
      BY <1>1, <1>2 DEF body
    <3>2. filepos + k <= filesize /\ taken' = base + parse_pos + filepos + k /\ header_end' = 0 + k
      BY <1>3, <1>4, <1>5, <2>1, <2>5
    <3>3. QED
      BY <1>2, <2>3, <2>4, <2>5, <3>1, <3>2 DEF BodyInv, InPipe
  <2>8. InBody' /\ ~failed' /\ taken' >= taken
    <3>1. InBody' /\ taken' >= taken
      BY <1>3, <2>1, <2>5 DEF InBody
    <3>2. status' # "DONE"
      BY <2>5
    <3>3. ~failed'
      BY <1>1, <3>2, Zenon
    <3>4. QED
      BY <3>1, <3>3
  <2>9. QED
    BY <1>1, <2>6, <2>7, <2>8, BodyFrame
<1>6. CASE status' = "DONE" /\ UNCHANGED <<taken, data, header_end>>
  BY <1>1, <1>6, BodyFails DEF stream, pointers
<1>7. PICK most : most = IF filesize - filepos > SIZE - (header_end - header_line)
                         THEN SIZE - (header_end - header_line) ELSE filesize - filepos
  OBVIOUS
<1>8. most > 0 /\ most \in Int /\ most <= SIZE /\ most <= filesize - filepos
  BY <1>2, <1>3, <1>4, <1>7, SizeAssumption
<1>9. \/ most <= 0
      \/ \E k \in 1 .. most :
              /\ taken + k <= Len(input) /\ taken' = taken + k
              /\ data' = data \o Positions(taken, k) /\ header_end' = header_end + k
              /\ status' = "BODY_WRITE"
      \/ most > 0 /\ status' = "DONE" /\ UNCHANGED <<taken, data, header_end>>
  BY <1>7 DEF read_body
<1>10. \A k \in 1 .. most : k \in 1 .. SIZE /\ k <= filesize - filepos
  BY <1>3, <1>8, SizeAssumption
<1>11. QED
  BY <1>5, <1>6, <1>8, <1>9, <1>10

(* write_body moves bytes to the file, and starts the program when all of  *)
(* them are there.                                                         *)
LEMMA WriteBodySteps ==
  ASSUME BInv, write_body
  PROVE  BInv'
<1>1. /\ status = "BODY_WRITE" /\ InBody /\ TypeOK /\ ~failed /\ sent = <<>> /\ buffered = <<>>
      /\ UNCHANGED <<method, simple, logline, stream, buffered, sent, base>>
  BY DEF write_body, BInv, HeadInv, InBody, Quiet
<1>2. /\ filepos = Len(written) /\ Run(data, base + parse_pos + filepos) /\ method = "POST"
      /\ filepos + Len(data) <= filesize /\ header_end = header_line + Len(data)
      /\ filepos + Len(data) = filesize \/ taken = base + parse_pos + filepos + Len(data)
      /\ Run(written, base + parse_pos) /\ Len(written) <= filesize
  BY <1>1 DEF BInv, BodyInv
<1>3. /\ base \in Nat /\ parse_pos \in Nat /\ filepos \in Nat /\ filesize \in Nat /\ taken \in Nat
      /\ Len(data) \in Nat /\ header_line \in Nat /\ header_end \in Nat /\ header_end <= SIZE
  BY <1>1, <1>2, SizeAssumption DEF TypeOK, Run
<1>4. PICK m : m = IF filepos + Len(data) > filesize THEN filesize - filepos ELSE Len(data)
  OBVIOUS
<1>5. m = Len(data)
  BY <1>2, <1>3, <1>4
<1>6. CASE m = 0 /\ filepos >= filesize /\ init_cgi /\ UNCHANGED <<filesize, written, failed>>
  <2>1. Len(written) = filesize
    BY <1>2, <1>3, <1>5, <1>6
  <2>2. StreamInv'
    <3>1. status' = "PIPE_READ"
      BY <1>6 DEF init_cgi
    <3>2. QED
      BY <1>1, <3>1 DEF BInv, StreamInv, InHeader, stream
  <2>3. /\ parse_pos' = parse_pos /\ parse_pos' \in 0 .. Len(client_stream)
        /\ method' \in {"GET", "HEAD", "POST"} /\ simple' \in BOOLEAN /\ logline' \in BOOLEAN
    BY <1>1 DEF TypeOK, stream
  <2>4. QED
    BY <1>1, <1>2, <1>6, <2>1, <2>2, <2>3, StartCgi DEF stream
<1>7. CASE /\ m = 0 /\ filepos < filesize /\ status' = "BODY_READ"
           /\ header_line' = 0 /\ header_end' = 0 /\ data' = <<>>
           /\ UNCHANGED <<body, cgi, failed>>
  <2>1. Len(data') = 0 /\ Run(data', base + parse_pos + filepos)
    <3>1. base + parse_pos + filepos \in Int
      BY <1>3
    <3>2. QED
      BY <1>7, <3>1, RunMade
  <2>2. TypeOK'
    <3>1. header_line' \in 0 .. SIZE /\ header_end' \in 0 .. SIZE /\ Len(data') <= SIZE
      BY <1>7, <2>1, SizeAssumption
    <3>2. QED
      BY <1>1, <1>7, <3>1 DEF TypeOK, stream, body, cgi
  <2>3. BodyInv'
    <3>1. /\ filepos' = filepos /\ filesize' = filesize /\ written' = written /\ base' = base
          /\ parse_pos' = parse_pos /\ header_line' = 0 /\ header_end' = 0 /\ status' = "BODY_READ"
          /\ taken' = taken /\ method' = "POST" /\ data' = <<>>
      BY <1>1, <1>2, <1>7 DEF body, stream
    <3>2. taken = base + parse_pos + filepos + 0 /\ filepos + 0 <= filesize /\ filepos < filesize /\ 0 = 0 + 0
      BY <1>2, <1>3, <1>5, <1>7
    <3>3. QED
      BY <1>2, <2>1, <3>1, <3>2 DEF BodyInv, InPipe
  <2>4. InBody' /\ taken' >= taken
    BY <1>1, <1>3, <1>7 DEF InBody, stream
  <2>5. QED
    BY <1>1, <1>7, <2>2, <2>3, <2>4, BodyFrame DEF stream
<1>8. ASSUME NEW k \in 1 .. m,
             written' = written \o First(data, k), filepos' = filepos + k,
             data' = From(data, k + 1), header_line' = header_line + k,
             UNCHANGED <<status, header_end, filesize, cgi, failed>>
      PROVE  BInv'
  <2>1. k \in Nat /\ k \in 0 .. Len(data) /\ k <= Len(data)
    BY <1>3, <1>5
  <2>2. /\ Run(First(data, k), base + parse_pos + filepos) /\ Len(First(data, k)) = k
        /\ Run(data', base + parse_pos + filepos + k) /\ Len(data') = Len(data) - k
    BY <1>2, <1>8, <2>1, RunCut
  <2>3. Run(written', base + parse_pos) /\ Len(written') = Len(written) + Len(First(data, k))
    BY <1>2, <1>8, <2>2, RunJoined
  <2>4. Len(written') = filepos + k
    BY <1>2, <2>2, <2>3
  <2>5. /\ filepos' = filepos + k /\ header_line' = header_line + k /\ parse_pos' = parse_pos /\ taken' = taken
        /\ base' = base /\ UNCHANGED <<status, header_end, filesize, method, failed>>
    BY <1>1, <1>8 DEF stream
  <2>6. TypeOK'
    <3>1. filepos' \in Nat /\ header_line' \in 0 .. SIZE /\ Len(data') <= SIZE
      <4>1. PICK n, h, e, z, f \in Nat :
              n = Len(data) /\ h = header_line /\ e = header_end /\ z = SIZE /\ f = filepos
        BY <1>3, SizeAssumption
      <4>2. k <= n /\ e = h + n /\ e <= z
        BY <1>2, <1>3, <2>1, <4>1
      <4>3. f + k \in Nat /\ h + k \in 0 .. z /\ n - k <= z
        BY <2>1, <4>2
      <4>4. QED
        BY <2>2, <2>5, <4>1, <4>3
    <3>2. UNCHANGED cgi
      BY <1>8
    <3>3. QED
      BY <1>1, <2>5, <3>1, <3>2 DEF TypeOK, stream, cgi
  <2>7. BodyInv'
    <3>1. Run(data', base' + parse_pos' + filepos')
      <4>1. base' + parse_pos' + filepos' = base + parse_pos + filepos + k
        BY <1>3, <2>1, <2>5
      <4>2. QED
        BY <2>2, <4>1
    <3>2. filepos' + Len(data') = filepos + Len(data) /\ header_end' = header_line' + Len(data')
      BY <1>2, <1>3, <2>1, <2>2, <2>5
    <3>3. base' + parse_pos' + filepos' + Len(data') = base + parse_pos + filepos + Len(data)
      BY <1>3, <2>1, <2>2, <2>5
    <3>4. Len(written') <= filesize' /\ filepos' = Len(written')
      BY <1>2, <1>3, <2>1, <2>4, <2>5
    <3>5. status' = "BODY_WRITE" /\ method' = "POST" /\ Run(written', base' + parse_pos')
      BY <1>1, <1>2, <2>3, <2>5
    <3>6. QED
      BY <1>2, <2>5, <3>1, <3>2, <3>3, <3>4, <3>5 DEF BodyInv, InPipe
  <2>8. InBody' /\ taken' >= taken /\ ~failed'
    BY <1>1, <1>3, <2>5 DEF InBody
  <2>9. UNCHANGED <<simple, client_stream, base, cgi, buffered, sent>>
    BY <1>1, <1>8 DEF stream
  <2>10. QED
    BY <1>1, <2>6, <2>7, <2>8, <2>9, BodyFrame
<1>9. CASE m > 0 /\ status' = "DONE" /\ failed' = TRUE /\ UNCHANGED <<pointers, body, cgi>>
  BY <1>1, <1>9, BodyFails
<1>10. QED
  BY <1>4, <1>6, <1>7, <1>8, <1>9 DEF write_body

-----------------------------------------------------------------------------
(* The steps of a program's output                                         *)

(* What these steps leave alone.                                           *)
LEMMA PipeFrame ==
  ASSUME BInv, InPipe \/ Over, InPipe' \/ Over', InPipe' => InPipe, TypeOK', OutputInv',
         UNCHANGED <<method, stream, filesize, written, base>>
  PROVE  BInv'
<1>1. ~InHeader' /\ ~InBody' /\ status' # "WRITE" /\ status' # "BODY_READ"
  BY DEF InPipe, Over, InHeader, InBody
<1>2. StreamInv' /\ HeadInv'
  BY <1>1 DEF BInv, StreamInv, HeadInv, stream
<1>3. BodyInv'
  BY <1>1 DEF BInv, BodyInv, stream
<1>4. QED
  BY <1>2, <1>3 DEF BInv

(* The numbers of the invariant are numbers.                               *)
LEMMA OutputNumbers ==
  ASSUME BInv
  PROVE  /\ output.n \in Nat /\ output.head \in Nat /\ output.head <= output.n
         /\ Start \in Int /\ Total \in Nat /\ Len(sent) \in Nat /\ Len(buffered) \in Nat
         /\ printed \in Nat /\ printed <= output.n
         /\ header_line \in Nat /\ header_end \in Nat /\ header_line <= SIZE /\ header_end <= SIZE
<1>1. output \in Output /\ printed \in 0 .. output.n /\ header_line \in 0 .. SIZE /\ header_end \in 0 .. SIZE
  BY DEF BInv, TypeOK
<1>2. output.n \in Nat /\ output.head \in Nat
  BY <1>1 DEF Output
<1>3. output.head <= output.n /\ Run(sent, Start) /\ Run(buffered, Start + Len(sent))
  BY DEF BInv, OutputInv
<1>4. Start \in Int /\ Len(sent) \in Nat /\ Len(buffered) \in Nat
  BY <1>3 DEF Run
<1>5. Total \in Nat
  BY <1>2, <1>3 DEF Total
<1>6. QED
  BY <1>1, <1>2, <1>3, <1>4, <1>5, SizeAssumption

(* The header lines of the server are a run of one byte.                   *)
LEMMA ZeroRun == Run(<<0>>, -1) /\ Len(<<0>>) = 1
<1>1. <<0>> \in Seq(Int) /\ Len(<<0>>) = 1 /\ <<0>>[1] = 0
  OBVIOUS
<1>2. /\ Positions(-1, 1) \in Seq(Int) /\ Len(Positions(-1, 1)) = 1
      /\ \A i \in 1 .. 1 : Positions(-1, 1)[i] = -1 + i
  <2>1. PICK a, k : a = -1 /\ k = 1
    OBVIOUS
  <2>2. a \in Int /\ k \in Nat
    BY <2>1
  <2>3. /\ Positions(a, k) \in Seq(Int) /\ Len(Positions(a, k)) = k
        /\ \A i \in 1 .. k : Positions(a, k)[i] = a + i
    BY <2>2, PositionsSeq
  <2>4. QED
    BY <2>1, <2>3
<1>3. Positions(-1, 1)[1] = 0
  BY <1>2
<1>4. \A i \in 1 .. 1 : i = 1
  OBVIOUS
<1>5. <<0>> = Positions(-1, 1)
  BY <1>1, <1>2, <1>3, <1>4, SeqEqual
<1>6. QED
  BY <1>1, <1>5, RunMade

(* process_cgi_header: the reply fails, or the header that the server      *)
(* writes and the program's bytes go on in one sequence, in the buffer's   *)
(* lower half or in place.                                                 *)
LEMMA ProcessSteps ==
  ASSUME BInv, status = "PIPE_READ", cgi_status = "PARSE",
         NEW st \in {"BUFFER", "DONE"}, NEW next \in {"PIPE_READ", "PIPE_WRITE"},
         st = "DONE" => next = "PIPE_WRITE" /\ printed = output.n,
         process_cgi_header(st, next),
         UNCHANGED <<is_cgi, output, printed, method, simple, logline, stream, body, base>>
  PROVE  BInv'
<1>1. /\ TypeOK /\ InPipe /\ is_cgi /\ sent = <<>> /\ buffered = <<>> /\ ~failed
      /\ Run(data, 0) /\ Len(data) = printed /\ header_line = HALF /\ header_end = header_line + Len(data)
  BY DEF BInv, OutputInv, Parsing, InPipe, Over
<1>2. /\ output.n \in Nat /\ output.head \in Nat /\ output.head <= output.n
      /\ Start \in Int /\ Total \in Nat /\ printed \in Nat /\ printed <= output.n
      /\ header_line \in Nat /\ header_end \in Nat /\ header_line <= SIZE /\ header_end <= SIZE
  BY OutputNumbers
<1>3. HALF \in Nat /\ HALF >= 1 /\ HALF + printed <= SIZE /\ SIZE \in Nat /\ header_end = HALF + printed
  BY <1>1, <1>2, HalfRange, SizeAssumption
<1>4. Start' = Start /\ Total' = Total /\ output'.head = output.head /\ output'.n = output.n /\ printed' = printed
  BY DEF Start, Total
<1>5. Len(sent) = 0 /\ Len(buffered) = 0 /\ \A a \in Int : Run(sent, a) /\ Run(buffered, a)
  BY <1>1, RunMade
<1>6. /\ st = "DONE" => next = "PIPE_WRITE" /\ printed = output.n
      /\ st # "PARSE" /\ st \in {"PARSE", "BUFFER", "DONE"}
  OBVIOUS
<1> DEFINE found == output.head > 0 /\ output.head <= Len(data)
           shown == IF method = "HEAD" THEN First(data, output.head - 1) ELSE data
           merged == <<0>> \o shown
<1>7. ASSUME TypeOK', OutputInv', InPipe' \/ Over' PROVE BInv'
  <2>1. UNCHANGED <<method, stream, filesize, written, base>>
    BY DEF body
  <2>2. QED
    BY <1>1, <1>7, <2>1, PipeFrame
<1>8. CASE status' = "DONE" /\ failed' = TRUE /\ cgi_status' = st /\ UNCHANGED <<pointers, buffered, sent>>
  <2>1. TypeOK'
    BY <1>1, <1>6, <1>8 DEF TypeOK, stream, pointers, body
  <2>2. ~InPipe' /\ Over'
    BY <1>8 DEF InPipe, Over
  <2>3. Run(sent', Start') /\ Run(buffered', Start' + Len(sent'))
    BY <1>2, <1>4, <1>5, <1>8
  <2>4. OutputInv'
    BY <1>1, <1>2, <1>4, <1>8, <2>2, <2>3 DEF OutputInv
  <2>5. QED
    BY <1>7, <2>1, <2>2, <2>4
<1>9. CASE /\ found /\ simple
           /\ header_line' = header_line + output.head - 1 /\ data' = From(data, output.head)
           /\ cgi_status' = st /\ status' = next
           /\ UNCHANGED <<header_end, buffered, sent, failed>>
  <2>1. PICK k : k = output.head - 1
    OBVIOUS
  <2>2. k \in 0 .. Len(data) /\ k + 1 = output.head /\ output.head > 0 /\ output.head <= printed
    BY <1>1, <1>2, <1>9, <2>1
  <2>3. Run(data', 0 + k) /\ Len(data') = Len(data) - k
    BY <1>1, <1>9, <2>2, RunCut
  <2>4. Len(data') = printed - k /\ header_line' = HALF + k /\ k \in Nat
    BY <1>1, <1>2, <1>3, <1>9, <2>1, <2>2, <2>3
  <2>5. TypeOK'
    <3>1. header_line' \in 0 .. SIZE /\ Len(data') <= SIZE
      BY <1>2, <1>3, <2>2, <2>4
    <3>2. status' = next /\ cgi_status' = st /\ UNCHANGED <<header_end, buffered, failed>>
      BY <1>9
    <3>3. QED
      BY <1>1, <1>6, <3>1, <3>2 DEF TypeOK, stream, body
  <2>6. Start = k
    BY <1>1, <1>9, <2>1 DEF Start
  <2>7. Passing'
    <3>1. output'.head > 0 /\ simple'
      BY <1>4, <1>9, <2>2
    <3>2. Len(sent') = 0 /\ Len(buffered') = 0 /\ Start' = k /\ printed' = printed
      BY <1>4, <1>5, <1>9, <2>6
    <3>3. Run(data', Start' + Len(sent') + Len(buffered'))
      BY <2>2, <2>3, <3>2
    <3>4. Start' + Len(sent') + Len(buffered') + Len(data') = printed'
      BY <1>2, <2>4, <3>2
    <3>5. cgi_status' = "DONE" => status' = "PIPE_WRITE" /\ printed' = output'.n
      BY <1>4, <1>6, <1>9
    <3>6. QED
      BY <3>1, <3>3, <3>4, <3>5 DEF Passing
  <2>8. InPipe' /\ status' # "DONE" /\ cgi_status' # "PARSE" /\ failed' = failed
    BY <1>6, <1>9 DEF InPipe
  <2>9. OutputInv'
    <3>1. Run(sent', Start') /\ Run(buffered', Start' + Len(sent')) /\ Len(sent') + Len(buffered') <= Total'
      BY <1>2, <1>4, <1>5, <1>9
    <3>2. header_end' = header_line' + Len(data')
      <4>1. header_end' = HALF + printed
        BY <1>3, <1>9
      <4>2. QED
        BY <1>2, <1>3, <2>4, <4>1
    <3>3. QED
      BY <1>1, <1>2, <1>4, <2>7, <2>8, <3>1, <3>2 DEF OutputInv
  <2>10. QED
    BY <1>7, <2>5, <2>8, <2>9
<1>10. CASE /\ found /\ ~simple /\ output.first = "Status"
            /\ header_line' = header_line - 1 /\ data' = <<0>> \o data
            /\ cgi_status' = st /\ status' = next
            /\ UNCHANGED <<header_end, buffered, sent, failed>>
  <2>1. Run(data', -1) /\ Len(data') = Len(<<0>>) + Len(data)
    <3>1. 0 = -1 + Len(<<0>>)
      BY ZeroRun
    <3>2. QED
      BY <1>1, <1>10, <3>1, ZeroRun, RunJoined
  <2>2. Len(data') = 1 + printed
    BY <1>1, <2>1, ZeroRun
  <2>3. header_line' = HALF - 1
    BY <1>1, <1>10
  <2>4. TypeOK'
    <3>1. header_line' \in 0 .. SIZE /\ Len(data') <= SIZE
      BY <1>2, <1>3, <2>2, <2>3
    <3>2. status' = next /\ cgi_status' = st /\ UNCHANGED <<header_end, buffered, failed>>
      BY <1>10
    <3>3. QED
      BY <1>1, <1>6, <3>1, <3>2 DEF TypeOK, stream, body
  <2>5. Start = -1
    BY <1>1, <1>10 DEF Start
  <2>6. Passing'
    <3>1. output'.head > 0 /\ output'.first # "other"
      BY <1>4, <1>10
    <3>2. Len(sent') = 0 /\ Len(buffered') = 0 /\ Start' = -1 /\ printed' = printed
      BY <1>4, <1>5, <1>10, <2>5
    <3>3. Run(data', Start' + Len(sent') + Len(buffered'))
      BY <2>1, <3>2
    <3>4. Start' + Len(sent') + Len(buffered') + Len(data') = printed'
      BY <1>2, <2>2, <3>2
    <3>5. cgi_status' = "DONE" => status' = "PIPE_WRITE" /\ printed' = output'.n
      BY <1>4, <1>6, <1>10
    <3>6. QED
      BY <3>1, <3>3, <3>4, <3>5 DEF Passing
  <2>7. InPipe' /\ status' # "DONE" /\ cgi_status' # "PARSE" /\ failed' = failed
    BY <1>6, <1>10 DEF InPipe
  <2>8. OutputInv'
    <3>1. Run(sent', Start') /\ Run(buffered', Start' + Len(sent')) /\ Len(sent') + Len(buffered') <= Total'
      BY <1>2, <1>4, <1>5, <1>10
    <3>2. header_end' = header_line' + Len(data')
      <4>1. header_end' = HALF + printed
        BY <1>3, <1>10
      <4>2. QED
        BY <1>2, <1>3, <2>2, <2>3, <4>1
    <3>3. QED
      BY <1>1, <1>2, <1>4, <2>6, <2>7, <3>1, <3>2 DEF OutputInv
  <2>9. QED
    BY <1>7, <2>4, <2>7, <2>8
<1>11. ASSUME found, ~simple, output.first = "other", Len(merged) <= SIZE,
              NEW k \in 0 .. Len(merged),
              sent' = sent \o First(merged, k), buffered' = From(merged, k + 1),
              header_line' = Len(merged), header_end' = Len(merged), data' = <<>>,
              cgi_status' = IF method = "HEAD" THEN "DONE" ELSE st,
              status' = IF method = "HEAD" THEN "DONE" ELSE next,
              UNCHANGED failed
       PROVE  BInv'
  <2>1. Run(shown, 0) /\ Len(shown) = IF method = "HEAD" THEN output.head - 1 ELSE printed
    <3>1. output.head - 1 \in 0 .. Len(data)
      BY <1>1, <1>2, <1>11
    <3>2. Run(First(data, output.head - 1), 0) /\ Len(First(data, output.head - 1)) = output.head - 1
      BY <1>1, <3>1, RunCut
    <3>3. QED
      BY <1>1, <3>2
  <2> HIDE DEF shown
  <2>2. Run(merged, -1) /\ Len(merged) = Len(<<0>>) + Len(shown)
    <3>1. 0 = -1 + Len(<<0>>)
      BY ZeroRun
    <3>2. QED
      BY <2>1, <3>1, ZeroRun, RunJoined
  <2>3. Len(merged) = IF method = "HEAD" THEN output.head ELSE printed + 1
    <3>1. Len(merged) = 1 + Len(shown)
      BY <2>2, ZeroRun
    <3>2. QED
      BY <1>2, <2>1, <3>1
  <2>4. PICK l : l = Len(merged)
    OBVIOUS
  <2> HIDE DEF merged
  <2>5. l \in Nat /\ l <= SIZE /\ k \in 0 .. l /\ header_line' = l /\ header_end' = l
    BY <1>2, <1>11, <2>3, <2>4
  <2>6. /\ Run(First(merged, k), -1) /\ Len(First(merged, k)) = k
        /\ Run(buffered', -1 + k) /\ Len(buffered') = l - k
    BY <1>11, <2>2, <2>4, RunCut
  <2>7. Run(sent', -1) /\ Len(sent') = k
    <3>1. Run(sent, -1) /\ -1 = -1 + Len(sent)
      BY <1>5
    <3>2. Run(sent', -1) /\ Len(sent') = Len(sent) + Len(First(merged, k))
      BY <1>11, <2>6, <3>1, RunJoined
    <3>3. QED
      BY <1>5, <2>5, <2>6, <3>2
  <2>8. Len(data') = 0 /\ \A a \in Int : Run(data', a)
    BY <1>11, RunMade
  <2>9. /\ cgi_status' = IF method = "HEAD" THEN "DONE" ELSE st
        /\ status' = IF method = "HEAD" THEN "DONE" ELSE next
        /\ failed' = failed /\ output.first = "other" /\ ~simple /\ output.head > 0
    BY <1>11
  <2>10. TypeOK'
    <3>1. header_line' \in 0 .. SIZE /\ header_end' \in 0 .. SIZE /\ Len(data') <= SIZE /\ Len(buffered') <= SIZE
      BY <1>3, <2>5, <2>6, <2>8
    <3>2. cgi_status' \in {"PARSE", "BUFFER", "DONE"} /\ status' \in {"PIPE_READ", "PIPE_WRITE", "DONE"}
      BY <1>6, <2>9
    <3>3. QED
      BY <1>1, <2>9, <3>1, <3>2 DEF TypeOK, stream, body
  <2>11. Start' = -1
    BY <1>1, <1>4, <2>9 DEF Start
  <2>12. Total' = IF method = "HEAD" THEN output.head ELSE output.n + 1
    BY <1>1, <1>2, <1>4, <2>9 DEF Total
  <2>13. l <= Total' /\ (method = "HEAD" => l = Total') /\ Len(sent') + Len(buffered') = l
    BY <1>2, <2>3, <2>4, <2>5, <2>6, <2>7, <2>12
  <2>14. header_end' = header_line' + Len(data')
    BY <2>5, <2>8
  <2>15. cgi_status' # "PARSE"
    BY <1>6, <2>9
  <2>16. ASSUME method # "HEAD" PROVE Passing'
    <3>1. output'.head > 0 /\ method' # "HEAD"
      BY <1>4, <2>9, <2>16
    <3>2. Start' + Len(sent') + Len(buffered') = -1 + l
      BY <2>5, <2>6, <2>7, <2>11
    <3>3. Run(data', Start' + Len(sent') + Len(buffered'))
      BY <2>5, <2>8, <3>2
    <3>4. Start' + Len(sent') + Len(buffered') + Len(data') = printed'
      BY <1>2, <1>4, <2>3, <2>4, <2>8, <2>16, <3>2
    <3>5. cgi_status' = "DONE" => status' = "PIPE_WRITE" /\ printed' = output'.n
      BY <1>4, <1>6, <2>9, <2>16
    <3>6. QED
      BY <3>1, <3>3, <3>4, <3>5 DEF Passing
  <2>17. /\ InPipe' \/ Over'
         /\ InPipe' => method # "HEAD" /\ (status' = "DONE" => method = "HEAD")
         /\ status' = "DONE" => method = "HEAD"
    BY <2>9 DEF InPipe, Over
  <2>18. OutputInv'
    <3>1. Run(sent', Start') /\ Run(buffered', Start' + Len(sent'))
      BY <2>6, <2>7, <2>11
    <3>2. QED
      BY <1>1, <1>2, <1>4, <2>9, <2>13, <2>14, <2>15, <2>16, <2>17, <3>1 DEF OutputInv
  <2>19. QED
    BY <1>7, <2>10, <2>17, <2>18
<1>12. QED
  BY <1>8, <1>9, <1>10, <1>11 DEF process_cgi_header

(* read_from_pipe: the buffer is full, the output has ended, or some more  *)
(* of it is put behind the data.                                           *)
LEMMA ReadPipeSteps ==
  ASSUME BInv, read_from_pipe
  PROVE  BInv'
<1>1. /\ status = "PIPE_READ" /\ InPipe /\ TypeOK /\ ~failed
      /\ UNCHANGED <<method, simple, logline, stream, body, base>>
  BY DEF read_from_pipe, BInv, OutputInv, InPipe, Over
<1>2. /\ output.n \in Nat /\ output.head \in Nat /\ output.head <= output.n
      /\ Start \in Int /\ Total \in Nat /\ Len(sent) \in Nat /\ Len(buffered) \in Nat
      /\ printed \in Nat /\ printed <= output.n
      /\ header_line \in Nat /\ header_end \in Nat /\ header_line <= SIZE /\ header_end <= SIZE
  BY OutputNumbers
<1>3. ASSUME TypeOK', OutputInv', InPipe' PROVE BInv'
  <2>1. UNCHANGED <<method, stream, filesize, written, base>>
    BY <1>1 DEF body
  <2>2. QED
    BY <1>1, <1>3, <2>1, PipeFrame
<1>4. CASE cgi_status = "PARSE" /\ (ReadFull \/ ReadEnd)
  <2>1. CASE process_cgi_header("BUFFER", "PIPE_READ") /\ UNCHANGED <<is_cgi, output, printed>>
    BY <1>1, <1>4, <2>1, ProcessSteps
  <2>2. CASE process_cgi_header("DONE", "PIPE_WRITE") /\ printed = output.n /\ UNCHANGED <<is_cgi, output, printed>>
    BY <1>1, <1>4, <2>2, ProcessSteps
  <2>3. QED
    BY <1>4, <2>1, <2>2 DEF ReadFull, ReadEnd
<1>5. CASE cgi_status # "PARSE" /\ (ReadFull \/ ReadEnd)
  <2>1. /\ status' = "PIPE_WRITE" /\ UNCHANGED <<is_cgi, output, printed, pointers, reply>>
        /\ cgi_status' = cgi_status \/ (cgi_status' = "DONE" /\ printed = output.n)
    BY <1>5 DEF ReadFull, ReadEnd, cgi
  <2>2. TypeOK' /\ InPipe' /\ ~Over' /\ status' # "DONE" /\ cgi_status' # "PARSE"
    BY <1>1, <1>5, <2>1 DEF TypeOK, stream, body, pointers, reply, InPipe, Over
  <2>3. Start' = Start /\ Total' = Total
    BY <1>1, <2>1 DEF Start, Total
  <2>4. Passing
    BY <1>1, <1>5 DEF BInv, OutputInv
  <2>5. Passing'
    BY <1>1, <2>1, <2>3, <2>4 DEF Passing, pointers, reply
  <2>6. OutputInv'
    BY <1>1, <2>1, <2>2, <2>3, <2>5 DEF BInv, OutputInv, pointers, reply
  <2>7. QED
    BY <1>3, <2>2, <2>6
<1>6. ASSUME NEW k \in 1 .. SIZE - header_end, printed + k <= output.n, printed' = printed + k,
             data' = data \o Positions(printed, k), header_end' = header_end + k,
             UNCHANGED <<status, header_line, is_cgi, cgi_status, output, reply>>
      PROVE  BInv'
  <2>1. /\ k \in Nat /\ Run(Positions(printed, k), printed) /\ Len(Positions(printed, k)) = k
        /\ header_end + k <= SIZE
    BY <1>2, SizeAssumption, RunMade
  <2>2. PICK b : Run(data, b) /\ printed = b + Len(data)
                 /\ b = IF cgi_status = "PARSE" THEN 0 ELSE Start + Len(sent) + Len(buffered)
    <3>1. CASE cgi_status = "PARSE"
      <4>1. Run(data, 0) /\ printed = 0 + Len(data)
        BY <1>1, <1>2, <3>1 DEF BInv, OutputInv, Parsing
      <4>2. QED
        BY <3>1, <4>1
    <3>2. CASE cgi_status # "PARSE"
      BY <1>1, <3>2 DEF BInv, OutputInv, Passing
    <3>3. QED
      BY <3>1, <3>2
  <2>3. Run(data', b) /\ Len(data') = Len(data) + Len(Positions(printed, k))
    BY <1>6, <2>1, <2>2, RunJoined
  <2>4. b \in Int /\ Len(data) \in Nat /\ Len(data') = Len(data) + k
    BY <2>1, <2>2, <2>3 DEF Run
  <2>5. /\ printed' = printed + k /\ header_end' = header_end + k /\ printed + k <= output.n
        /\ UNCHANGED <<status, header_line, is_cgi, cgi_status, output, reply>>
    BY <1>6
  <2>6. header_end = header_line + Len(data)
    BY <1>1 DEF BInv, OutputInv
  <2>7. TypeOK'
    <3>1. header_end' \in 0 .. SIZE /\ Len(data') <= SIZE /\ printed' \in 0 .. output.n
      BY <1>2, <2>1, <2>4, <2>5, <2>6, SizeAssumption
    <3>2. QED
      BY <1>1, <2>5, <3>1 DEF TypeOK, stream, body, reply
  <2>8. Start' = Start /\ Total' = Total
    BY <1>1, <2>5 DEF Start, Total
  <2>9. header_end' = header_line' + Len(data') /\ b + Len(data') = printed'
    <3>1. printed = b + Len(data) /\ header_line' = header_line
      BY <2>2, <2>5
    <3>2. QED
      BY <1>2, <2>1, <2>4, <2>5, <2>6, <3>1
  <2>10. InPipe' /\ status' = "PIPE_READ" /\ status' # "DONE" /\ failed' = failed
    BY <1>1, <2>5 DEF InPipe, reply
  <2>11. ASSUME cgi_status' = "PARSE" PROVE Parsing'
    <3>1. Parsing /\ b = 0
      BY <1>1, <2>2, <2>5, <2>11 DEF BInv, OutputInv
    <3>2. Len(data') = printed'
      BY <2>1, <2>4, <2>9, <3>1
    <3>3. QED
      BY <2>3, <2>5, <2>10, <3>1, <3>2 DEF Parsing, reply
  <2>12. ASSUME cgi_status' # "PARSE" PROVE Passing'
    <3>1. Passing /\ b = Start + Len(sent) + Len(buffered)
      BY <1>1, <2>2, <2>5, <2>12 DEF BInv, OutputInv
    <3>2. Start' + Len(sent') + Len(buffered') = b
      BY <2>5, <2>8, <3>1 DEF reply
    <3>3. cgi_status' # "DONE"
      BY <1>1, <2>5, <3>1 DEF Passing
    <3>4. is_cgi' => output'.head > 0 /\ (simple' \/ method' # "HEAD" \/ output'.first # "other")
      BY <1>1, <2>5, <3>1 DEF Passing
    <3>5. QED
      BY <2>3, <2>9, <3>2, <3>3, <3>4 DEF Passing
  <2>13. OutputInv'
    BY <1>1, <2>5, <2>8, <2>9, <2>10, <2>11, <2>12 DEF BInv, OutputInv, reply
  <2>14. QED
    BY <1>3, <2>7, <2>10, <2>13
<1>7. QED
  BY <1>4, <1>5, <1>6 DEF read_from_pipe, ReadSome

(* write_from_pipe: some of the data is sent, more is read, or the reply   *)
(* is complete.                                                            *)
LEMMA WritePipeSteps ==
  ASSUME BInv, write_from_pipe
  PROVE  BInv'
<1>1. /\ status = "PIPE_WRITE" /\ InPipe /\ TypeOK /\ ~failed /\ buffered = <<>>
      /\ UNCHANGED <<method, simple, logline, stream, filesize, written, cgi, buffered, failed, base>>
  BY DEF write_from_pipe, BInv, OutputInv, InPipe, Over
<1>2. /\ output.n \in Nat /\ output.head \in Nat /\ output.head <= output.n
      /\ Start \in Int /\ Total \in Nat /\ Len(sent) \in Nat /\ Len(buffered) \in Nat
      /\ printed \in Nat /\ printed <= output.n
      /\ header_line \in Nat /\ header_end \in Nat /\ header_line <= SIZE /\ header_end <= SIZE
  BY OutputNumbers
<1>3. ASSUME TypeOK', OutputInv', InPipe' \/ Over' PROVE BInv'
  BY <1>1, <1>3, PipeFrame
<1>4. Passing /\ cgi_status # "PARSE" /\ header_end = header_line + Len(data)
  BY <1>1 DEF BInv, OutputInv, Parsing
<1>5. Len(buffered) = 0
  BY <1>1, EmptySeq
<1>6. /\ Run(data, Start + Len(sent)) /\ Start + Len(sent) + Len(data) = printed /\ Len(data) \in Nat
      /\ Run(sent, Start) /\ Len(sent) <= Total
  <2>1. Run(data, Start + Len(sent) + 0) /\ Start + Len(sent) + 0 + Len(data) = printed
    BY <1>4, <1>5 DEF Passing
  <2>2. Run(sent, Start) /\ Len(sent) + 0 <= Total
    BY <1>1, <1>5 DEF BInv, OutputInv
  <2>3. Start + Len(sent) + 0 = Start + Len(sent)
    BY <1>2
  <2>4. QED
    BY <1>2, <2>1, <2>2, <2>3 DEF Run
<1>7. Start' = Start /\ Total' = Total /\ output' = output /\ cgi_status' = cgi_status /\ printed' = printed
      /\ is_cgi' = is_cgi
  BY <1>1 DEF Start, Total, cgi
<1>8. CASE data = <<>> /\ cgi_status = "DONE" /\ status' = "DONE" /\ UNCHANGED <<pointers, sent, filepos>>
  <2>1. TypeOK' /\ ~InPipe' /\ Over' /\ failed' = failed
    BY <1>1, <1>8 DEF TypeOK, stream, cgi, pointers, InPipe, Over
  <2>2. printed = output.n /\ Len(data) = 0
    BY <1>4, <1>8, EmptySeq DEF Passing
  <2>3. Start + Len(sent) = output.n
    BY <1>2, <1>6, <2>2
  <2>4. Len(sent) = Total
    <3>1. CASE ~is_cgi
      BY <1>2, <2>3, <3>1 DEF Start, Total
    <3>2. CASE is_cgi /\ simple
      <4>1. Start = output.head - 1 /\ Total = output.n - output.head + 1
        BY <1>2, <1>4, <3>2 DEF Start, Total, Passing
      <4>2. QED
        BY <1>2, <2>3, <4>1
    <3>3. CASE is_cgi /\ ~simple
      <4>1. Start = -1 /\ Total = output.n + 1
        BY <1>2, <1>4, <3>3 DEF Start, Total, Passing
      <4>2. QED
        BY <1>2, <2>3, <4>1
    <3>4. QED
      BY <3>1, <3>2, <3>3
  <2>5. Len(sent') = Len(sent) /\ Len(buffered') = 0 /\ Len(sent) + 0 = Total
    BY <1>1, <1>2, <1>5, <1>8, <2>4
  <2>6. OutputInv'
    BY <1>1, <1>2, <1>7, <1>8, <2>1, <2>4, <2>5 DEF BInv, OutputInv
  <2>7. QED
    BY <1>3, <2>1, <2>6
<1>9. CASE /\ data = <<>> /\ cgi_status # "DONE" /\ status' = "PIPE_READ"
           /\ header_line' = 0 /\ header_end' = 0 /\ UNCHANGED <<data, sent, filepos>>
  <2>1. TypeOK'
    <3>1. header_line' \in 0 .. SIZE /\ header_end' \in 0 .. SIZE
      BY <1>9, SizeAssumption
    <3>2. QED
      BY <1>1, <1>9, <3>1 DEF TypeOK, stream, cgi
  <2>2. InPipe' /\ status' # "DONE"
    BY <1>9 DEF InPipe
  <2>3. header_end' = header_line' + Len(data')
    <3>1. Len(data') = 0 /\ header_line' = 0 /\ header_end' = 0
      BY <1>9, EmptySeq
    <3>2. QED
      BY <3>1
  <2>4. Passing'
    BY <1>1, <1>4, <1>7, <1>9 DEF Passing
  <2>5. OutputInv'
    BY <1>1, <1>4, <1>7, <1>9, <2>2, <2>3, <2>4 DEF BInv, OutputInv
  <2>6. QED
    BY <1>3, <2>1, <2>2, <2>5
<1>10. ASSUME NEW k \in 1 .. Len(data),
              sent' = sent \o First(data, k), data' = From(data, k + 1),
              header_line' = header_line + k, filepos' = filepos + k,
              UNCHANGED <<status, header_end>>
       PROVE  BInv'
  <2>1. k \in Nat /\ k \in 0 .. Len(data) /\ k <= Len(data)
    BY <1>6
  <2>2. /\ Run(First(data, k), Start + Len(sent)) /\ Len(First(data, k)) = k
        /\ Run(data', Start + Len(sent) + k) /\ Len(data') = Len(data) - k
    BY <1>6, <1>10, <2>1, RunCut
  <2>3. Run(sent', Start) /\ Len(sent') = Len(sent) + Len(First(data, k))
    BY <1>6, <1>10, <2>2, RunJoined
  <2>4. Len(sent') = Len(sent) + k
    BY <2>2, <2>3
  <2>5. header_line' = header_line + k /\ filepos' = filepos + k /\ UNCHANGED <<status, header_end>>
    BY <1>10
  <2>6. TypeOK'
    <3>1. header_line' \in 0 .. SIZE /\ filepos' \in Nat /\ Len(data') <= SIZE
      <4>1. filepos \in Nat /\ filepos' = filepos + k /\ header_line' = header_line + k
        BY <1>1, <2>5 DEF TypeOK
      <4>2. header_line + Len(data) <= SIZE
        BY <1>2, <1>4
      <4>3. QED
        BY <1>2, <1>6, <2>1, <2>2, <4>1, <4>2, SizeAssumption
    <3>2. QED
      BY <1>1, <2>5, <3>1 DEF TypeOK, stream, cgi
  <2>7. InPipe' /\ status' = "PIPE_WRITE" /\ failed' = failed
    BY <1>1, <2>5 DEF InPipe
  <2>8. Len(buffered') = 0 /\ buffered' = <<>>
    BY <1>1, <1>5
  <2>9. Start' + Len(sent') + Len(buffered') = Start + Len(sent) + k
    BY <1>2, <1>7, <2>1, <2>4, <2>8
  <2>10. Passing'
    <3>1. Start + Len(sent) + k + Len(data') = printed
      <4>1. PICK a \in Int, n, b, d \in Nat : a = Start /\ n = Len(data) /\ b = Len(sent) /\ d = printed
        BY <1>2, <1>6
      <4>2. a + b + k + (n - k) = d
        BY <1>6, <2>1, <4>1
      <4>3. QED
        BY <2>2, <4>1, <4>2
    <3>2. is_cgi' => output'.head > 0 /\ (simple' \/ method' # "HEAD" \/ output'.first # "other")
      BY <1>1, <1>4, <1>7 DEF Passing
    <3>3. cgi_status' = "DONE" => status' = "PIPE_WRITE" /\ printed' = output'.n
      BY <1>4, <1>7, <2>7 DEF Passing
    <3>4. QED
      BY <1>7, <2>2, <2>9, <3>1, <3>2, <3>3 DEF Passing
  <2>11. Len(sent') + Len(buffered') <= Total'
    <3>1. Start + Len(sent) + k <= printed
      BY <1>2, <1>6, <2>1
    <3>2. Start + Total >= printed
      <4>1. CASE ~is_cgi
        BY <1>2, <4>1 DEF Start, Total
      <4>2. CASE is_cgi /\ simple
        <5>1. Start = output.head - 1 /\ Total = output.n - output.head + 1
          BY <1>2, <1>4, <4>2 DEF Start, Total, Passing
        <5>2. PICK h, n, d \in Nat : h = output.head /\ n = output.n /\ d = printed /\ d <= n
          BY <1>2
        <5>3. h - 1 + (n - h + 1) >= d
          BY <5>2
        <5>4. QED
          BY <5>1, <5>2, <5>3
      <4>3. CASE is_cgi /\ ~simple
        <5>1. Start = -1 /\ Total = output.n + 1
          BY <1>2, <1>4, <4>3 DEF Start, Total, Passing
        <5>2. PICK n, d \in Nat : n = output.n /\ d = printed /\ d <= n
          BY <1>2
        <5>3. -1 + (n + 1) >= d
          BY <5>2
        <5>4. QED
          BY <5>1, <5>2, <5>3
      <4>4. QED
        BY <4>1, <4>2, <4>3
    <3>3. QED
      BY <1>2, <1>7, <2>1, <2>4, <2>8, <3>1, <3>2
  <2>12. OutputInv'
    <3>1. Run(sent', Start') /\ Run(buffered', Start' + Len(sent'))
      <4>1. Start' + Len(sent') \in Int
        BY <1>2, <1>7, <2>1, <2>4
      <4>2. QED
        BY <1>7, <2>3, <2>8, <4>1, RunMade
    <3>2. header_end' = header_line' + Len(data')
      BY <1>2, <1>4, <1>6, <2>1, <2>2, <2>5
    <3>3. QED
      BY <1>1, <1>2, <1>4, <1>7, <2>7, <2>10, <2>11, <3>1, <3>2 DEF OutputInv
  <2>13. QED
    BY <1>3, <2>6, <2>7, <2>12
<1>11. QED
  BY <1>8, <1>9, <1>10 DEF write_from_pipe

(* What was sent and what waits to be sent are shifted against each other, *)
(* or the client has gone.                                                 *)
LEMMA FlushSteps ==
  ASSUME BInv, req_flush \/ ClientGone
  PROVE  BInv'
<1>1. /\ TypeOK /\ UNCHANGED <<method, simple, logline, stream, pointers, body, cgi, failed, base>>
      /\ status # "DEAD"
  BY DEF BInv, req_flush, ClientGone, head
<1>2. /\ output.n \in Nat /\ output.head \in Nat /\ output.head <= output.n
      /\ Start \in Int /\ Total \in Nat /\ Len(sent) \in Nat /\ Len(buffered) \in Nat
  BY OutputNumbers
<1>3. InPipe \/ Over
  <2>1. status = "PIPE_WRITE" \/ ~Quiet
    BY DEF req_flush, ClientGone, Quiet
  <2>2. QED
    BY <1>1, <2>1 DEF BInv, HeadInv, TypeOK, InHeader, InBody, InPipe, Over
<1>4. UNCHANGED <<method, stream, filesize, written, base>>
  BY <1>1 DEF body
<1>5. /\ Start' = Start /\ Total' = Total /\ output' = output /\ cgi_status' = cgi_status
      /\ printed' = printed /\ is_cgi' = is_cgi
  BY <1>1 DEF Start, Total, cgi
<1>6. /\ Run(sent, Start) /\ Run(buffered, Start + Len(sent)) /\ ~failed
      /\ Len(sent) + Len(buffered) <= Total
  BY DEF BInv, OutputInv, Over, req_flush, ClientGone
<1>7. CASE ClientGone
  <2>1. status' = "DEAD" /\ buffered' = <<>> /\ sent' = sent /\ UNCHANGED failed
    BY <1>1, <1>7 DEF ClientGone
  <2>2. Len(buffered') = 0 /\ Run(buffered', Start + Len(sent))
    <3>1. Start + Len(sent) \in Int
      BY <1>2
    <3>2. QED
      BY <2>1, <3>1, RunMade
  <2>3. TypeOK'
    <3>1. Len(buffered') <= SIZE
      BY <2>2, SizeAssumption
    <3>2. QED
      BY <1>1, <2>1, <3>1 DEF TypeOK, stream, pointers, body, cgi
  <2>4. Over' /\ ~InPipe' /\ status' # "DONE"
    BY <2>1 DEF Over, InPipe
  <2>5. Len(sent') + Len(buffered') <= Total'
    BY <1>2, <1>5, <1>6, <2>1, <2>2
  <2>6. OutputInv'
    BY <1>2, <1>5, <1>6, <2>1, <2>2, <2>4, <2>5 DEF OutputInv
  <2>7. QED
    BY <1>3, <1>4, <2>3, <2>4, <2>6, PipeFrame
<1>8. ASSUME NEW k \in 1 .. Len(buffered), buffered # <<>>, UNCHANGED status,
             sent' = sent \o First(buffered, k), buffered' = From(buffered, k + 1)
      PROVE  BInv'
  <2>1. k \in Nat /\ k \in 0 .. Len(buffered) /\ k <= Len(buffered)
    BY <1>2
  <2>2. /\ Run(First(buffered, k), Start + Len(sent)) /\ Len(First(buffered, k)) = k
        /\ Run(buffered', Start + Len(sent) + k) /\ Len(buffered') = Len(buffered) - k
    BY <1>6, <1>8, <2>1, RunCut
  <2>3. Run(sent', Start) /\ Len(sent') = Len(sent) + Len(First(buffered, k))
    BY <1>6, <1>8, <2>2, RunJoined
  <2>4. Len(sent') = Len(sent) + k
    BY <2>2, <2>3
  <2>5. UNCHANGED status
    BY <1>8
  <2>6. TypeOK'
    <3>1. Len(buffered') <= SIZE
      BY <1>1, <1>2, <2>1, <2>2, SizeAssumption DEF TypeOK
    <3>2. QED
      BY <1>1, <2>5, <3>1 DEF TypeOK, stream, pointers, body, cgi
  <2>7. Run(sent', Start') /\ Run(buffered', Start' + Len(sent'))
    <3>1. Start' + Len(sent') = Start + Len(sent) + k
      BY <1>2, <1>5, <2>1, <2>4
    <3>2. QED
      BY <1>5, <2>2, <2>3, <3>1
  <2>8. Len(sent') + Len(buffered') = Len(sent) + Len(buffered)
    BY <1>2, <2>1, <2>2, <2>4
  <2>9. Start' + Len(sent') + Len(buffered') = Start + Len(sent) + Len(buffered)
    BY <1>2, <1>5, <2>1, <2>2, <2>4
  <2>10. ASSUME InPipe' PROVE Passing' /\ cgi_status' # "PARSE" /\ header_end' = header_line' + Len(data')
    <3>1. InPipe
      BY <2>5, <2>10 DEF InPipe
    <3>2. Passing /\ cgi_status # "PARSE" /\ header_end = header_line + Len(data)
      BY <1>8, <3>1 DEF BInv, OutputInv, Parsing
    <3>3. Run(data', Start' + Len(sent') + Len(buffered'))
      BY <1>1, <2>9, <3>2 DEF Passing, pointers
    <3>4. Start' + Len(sent') + Len(buffered') + Len(data') = printed'
      BY <1>1, <1>5, <2>9, <3>2 DEF Passing, pointers
    <3>5. is_cgi' => output'.head > 0 /\ (simple' \/ method' # "HEAD" \/ output'.first # "other")
      BY <1>1, <1>5, <3>2 DEF Passing
    <3>6. cgi_status' = "DONE" => status' = "PIPE_WRITE" /\ printed' = output'.n
      BY <1>5, <2>5, <3>2 DEF Passing
    <3>7. Passing'
      BY <3>3, <3>4, <3>5, <3>6 DEF Passing
    <3>8. QED
      BY <1>1, <1>5, <3>2, <3>7 DEF pointers
  <2>11. ~failed' /\ (status' = "DONE" => Len(sent) + Len(buffered) = Total)
    BY <1>1, <1>6, <2>5 DEF BInv, OutputInv
  <2>12. OutputInv'
    BY <1>2, <1>5, <1>6, <2>7, <2>8, <2>10, <2>11 DEF OutputInv
  <2>13. InPipe' => InPipe
    BY <2>5 DEF InPipe
  <2>14. InPipe' \/ Over'
    BY <1>3, <2>5 DEF InPipe, Over
  <2>15. QED
    BY <1>3, <1>4, <2>6, <2>12, <2>13, <2>14, PipeFrame
<1>9. QED
  BY <1>7, <1>8 DEF req_flush, head

(* Every step keeps the invariant.                                         *)
LEMMA BInvInductive == BInv /\ [Next]_vars => BInv'
<1> SUFFICES ASSUME BInv, [Next]_vars PROVE BInv'
  OBVIOUS
<1>1. CASE UNCHANGED vars
  <2>1. /\ UNCHANGED <<head, stream, pointers, body, cgi, reply, base>>
        /\ UNCHANGED <<status, method, simple, logline, input, taken, client_stream, parse_pos,
                       header_line, header_end, data>>
        /\ UNCHANGED <<filesize, filepos, written, is_cgi, cgi_status, output, printed, buffered,
                       sent, failed>>
    BY <1>1 DEF vars, head, stream, pointers, body, cgi, reply
  <2>2. TypeOK'
    BY <2>1 DEF BInv, TypeOK
  <2>3. StreamInv' /\ HeadInv'
    BY <2>1 DEF BInv, StreamInv, HeadInv, Quiet, InHeader, InBody
  <2>4. BodyInv'
    BY <2>1 DEF BInv, BodyInv, InBody, InPipe
  <2>5. Start' = Start /\ Total' = Total
    BY <2>1 DEF Start, Total
  <2>6. OutputInv'
    BY <2>1, <2>5 DEF BInv, OutputInv, Parsing, Passing, InPipe, Over
  <2>7. QED
    BY <2>2, <2>3, <2>4, <2>6 DEF BInv
<1>2. CASE Freed
  BY <1>1, <1>2 DEF Freed
<1>3. QED
  BY <1>1, <1>2, ScanSteps, EndLineSteps, EndHeaderSteps, ReadHeaderSteps, KeepSteps,
     ReadBodySteps, WriteBodySteps, ReadPipeSteps, WritePipeSteps, FlushSteps DEF Next

(* So it always holds.                                                    *)
LEMMA BInvHolds == Spec => []BInv
BY InitBytes, BInvInductive, PTL DEF Spec

(* No offset or length of a connection leaves its buffer, whatever the     *)
(* client and the program send.                                            *)
THEOREM BytesTypes == Spec => []TypeOK
<1>1. BInv => TypeOK
  BY DEF BInv
<1>2. QED
  BY <1>1, BInvHolds, PTL

(* The body file holds the bytes that follow the header, none lost,        *)
(* repeated or moved, and the program starts when it holds all of them.    *)
THEOREM BodyIsExact == Spec => []BodyExact
<1>1. BInv => BodyExact
  BY DEF BInv, BodyInv, BodyExact, InPipe, Run
<1>2. QED
  BY <1>1, BInvHolds, PTL

(* What the client is to get is a run of bytes.                            *)
LEMMA ExpectedRun ==
  ASSUME BInv
  PROVE  Run(Expected, Start) /\ Len(Expected) = Total
<1>1. /\ output.n \in Nat /\ output.head \in Nat /\ output.head <= output.n
      /\ Start \in Int /\ Total \in Nat
  BY OutputNumbers
<1> DEFINE all == Positions(0, output.n)
<1>2. Run(all, 0) /\ Len(all) = output.n
  BY <1>1, RunMade
<1> HIDE DEF all
<1>3. Expected = IF ~is_cgi THEN all
                 ELSE IF output.head = 0 THEN <<>>
                 ELSE IF simple THEN From(all, output.head)
                 ELSE IF method = "HEAD" /\ output.first = "other"
                      THEN <<0>> \o First(all, output.head - 1)
                 ELSE <<0>> \o all
  BY DEF Expected, all
<1> HIDE DEF Expected
<1>4. CASE ~is_cgi
  <2>1. Expected = all /\ Start = 0 /\ Total = output.n
    BY <1>3, <1>4 DEF Start, Total
  <2>2. QED
    BY <1>2, <2>1
<1>5. CASE is_cgi /\ output.head = 0
  <2>1. Expected = <<>> /\ Total = 0
    BY <1>3, <1>5 DEF Total
  <2>2. QED
    BY <1>1, <2>1, RunMade
<1>6. CASE is_cgi /\ output.head # 0
  <2>1. PICK k : k = output.head - 1
    OBVIOUS
  <2>2. k \in 0 .. Len(all) /\ output.head = k + 1
    BY <1>1, <1>2, <1>6, <2>1
  <2>3. /\ Run(First(all, k), 0) /\ Len(First(all, k)) = k
        /\ Run(From(all, k + 1), 0 + k) /\ Len(From(all, k + 1)) = Len(all) - k
    BY <1>2, <2>2, RunCut
  <2>4. CASE simple
    <3>1. Expected = From(all, k + 1) /\ Start = k /\ Total = output.n - output.head + 1
      BY <1>3, <1>6, <2>1, <2>2, <2>4 DEF Start, Total
    <3>2. QED
      BY <1>1, <1>2, <2>2, <2>3, <3>1
  <2>5. 0 = -1 + Len(<<0>>) /\ Run(<<0>>, -1) /\ Len(<<0>>) = 1
    BY ZeroRun
  <2>6. CASE ~simple /\ method = "HEAD" /\ output.first = "other"
    <3>1. Expected = <<0>> \o First(all, k) /\ Start = -1 /\ Total = k + 1
      BY <1>3, <1>6, <2>1, <2>2, <2>6 DEF Start, Total
    <3>2. Run(Expected, -1) /\ Len(Expected) = Len(<<0>>) + Len(First(all, k))
      BY <2>3, <2>5, <3>1, RunJoined
    <3>3. Len(Expected) = Total
      BY <2>2, <2>3, <2>5, <3>1, <3>2
    <3>4. QED
      BY <3>1, <3>2, <3>3
  <2>7. CASE ~simple /\ ~(method = "HEAD" /\ output.first = "other")
    <3>1. Expected = <<0>> \o all /\ Start = -1 /\ Total = output.n + 1
      BY <1>3, <1>6, <2>7 DEF Start, Total
    <3>2. Run(Expected, -1) /\ Len(Expected) = Len(<<0>>) + Len(all)
      BY <1>2, <2>5, <3>1, RunJoined
    <3>3. Len(Expected) = Total
      BY <1>1, <1>2, <2>5, <3>1, <3>2
    <3>4. QED
      BY <3>1, <3>2, <3>3
  <2>8. QED
    BY <2>4, <2>6, <2>7
<1>7. QED
  BY <1>4, <1>5, <1>6

(* The client gets the server's header and the output of the program in    *)
(* order and, when a reply comes to its end, all of it; an error reply is  *)
(* not mixed with output.                                                  *)
THEOREM OutputIsExact == Spec => []OutputExact
<1>1. ASSUME BInv PROVE OutputExact
  <2>1. Run(Expected, Start) /\ Len(Expected) = Total
    BY <1>1, ExpectedRun
  <2>2. /\ Run(sent, Start) /\ Len(sent) \in Nat /\ Len(buffered) \in Nat /\ Total \in Nat
        /\ ~failed => Len(sent) + Len(buffered) <= Total
        /\ ~failed /\ status = "DONE" => Len(sent) + Len(buffered) = Total
        /\ failed => sent = <<>>
    BY <1>1, OutputNumbers DEF BInv, OutputInv
  <2> HIDE DEF Expected
  <2>3. ASSUME ~failed PROVE sent = First(Expected, Len(sent))
    <3>1. PICK k : k = Len(sent)
      OBVIOUS
    <3>2. k \in 0 .. Len(Expected)
      BY <2>1, <2>2, <2>3, <3>1
    <3>3. Run(First(Expected, k), Start) /\ Len(First(Expected, k)) = k
      BY <2>1, <3>2, RunCut
    <3>4. First(Expected, k) = Positions(Start, k) /\ sent = Positions(Start, k)
      BY <2>2, <3>1, <3>3 DEF Run
    <3>5. QED
      BY <3>1, <3>4
  <2>4. ASSUME ~failed, Finished, status = "DONE" PROVE sent = Expected
    <3>1. Len(buffered) = 0
      BY <2>4, EmptySeq DEF Finished
    <3>2. Len(sent) = Len(Expected)
      BY <2>1, <2>2, <2>4, <3>1
    <3>3. QED
      BY <2>1, <2>2, <3>2 DEF Run
  <2>5. QED
    BY <2>2, <2>3, <2>4 DEF OutputExact
<1>2. BInv => OutputExact
  BY <1>1
<1>3. QED
  BY <1>2, BInvHolds, PTL

-----------------------------------------------------------------------------
(* Lines                                                                   *)

AllCR(a, b) == \A q \in a + 1 .. b : input[q] = "CR"
NoLF(a, b) == \A q \in a + 1 .. b : input[q] # "LF"

(* A line feed with none between it and the end of the line before, or the *)
(* beginning of the request, ends the next line.                           *)
LEMMA NextLine ==
  ASSUME base \in Nat, Len(input) \in Nat, NEW l \in Nat, NEW e \in LFs,
         base <= l, l < e, l = base \/ l \in LFs, NoLF(l, e - 1)
  PROVE  /\ LineStart(e) = l
         /\ \A d \in LFs : d <= e => d <= l \/ d = e
         /\ Number(e) = Number(l) + 1 /\ Number(e) \in Nat /\ Number(l) \in Nat
<1>1. e \in Nat /\ base + 1 <= e /\ LFs \subseteq base + 1 .. Len(input)
  BY DEF LFs
<1>2. ASSUME NEW d \in LFs, d <= e PROVE d <= l \/ d = e
  <2>1. d \in Int /\ input[d] = "LF"
    BY <1>1 DEF LFs
  <2>2. l < d /\ d < e => d \in l + 1 .. e - 1
    BY <1>1, <2>1
  <2>3. ~(l < d /\ d < e)
    BY <2>1, <2>2 DEF NoLF
  <2>4. QED
    BY <1>1, <1>2, <2>1, <2>3
<1>3. LineStart(e) = l
  <2> DEFINE before == {d \in LFs : d < e}
  <2>1. LineStart(e) = IF before = {} THEN base ELSE CHOOSE d \in before : \A f \in before : f <= d
    BY DEF LineStart
  <2>2. \A d \in before : d \in Int /\ d <= l /\ base + 1 <= d
    BY <1>1, <1>2
  <2>3. CASE l = base
    <3>1. before = {}
      BY <2>2, <2>3
    <3>2. QED
      BY <2>1, <2>3, <3>1
  <2>4. CASE l \in LFs
    <3>1. l \in before /\ \A f \in before : f <= l
      BY <2>2, <2>4
    <3>2. \A d \in before : (\A f \in before : f <= d) => d = l
      BY <2>2, <3>1
    <3> HIDE DEF before
    <3> DEFINE P(d) == d \in before /\ \A f \in before : f <= d
    <3>3. P(l) /\ \A d : P(d) => d = l
      BY <3>1, <3>2
    <3>4. LineStart(e) = CHOOSE d : P(d)
      BY <2>1, <3>1
    <3> HIDE DEF P
    <3>5. QED
      BY <3>3, <3>4, Zenon
  <2>5. QED
    BY <2>3, <2>4
<1>4. /\ Number(e) = Number(l) + 1 /\ Number(e) \in Nat /\ Number(l) \in Nat
  <2> DEFINE S == {d \in LFs : d <= l}
  <2>1. {d \in LFs : d <= e} = S \cup {e} /\ e \notin S
    <3>1. \A d \in LFs : d \in Int
      BY <1>1
    <3>2. \A d \in LFs : d <= e <=> d <= l \/ d = e
      BY <1>1, <1>2, <3>1
    <3>3. ~(e <= l)
      BY <1>1
    <3>4. QED
      BY <3>2, <3>3
  <2>2. IsFiniteSet(S)
    <3>1. base + 1 \in Int /\ Len(input) \in Int
      OBVIOUS
    <3>2. IsFiniteSet(base + 1 .. Len(input))
      BY <3>1, FS_Interval
    <3>3. S \subseteq base + 1 .. Len(input)
      BY <1>1
    <3>4. QED
      BY <3>2, <3>3, FS_Subset
  <2>3. Number(l) = Cardinality(S) /\ Number(e) = Cardinality(S \cup {e})
    BY <2>1 DEF Number
  <2> HIDE DEF S
  <2>4. QED
    BY <2>1, <2>2, <2>3, FS_AddElement, FS_CardinalityType
<1>5. QED
  BY <1>2, <1>3, <1>4

(* Its text ends where only carriage returns follow.                       *)
LEMMA TextOfLine ==
  ASSUME NEW l \in Nat, NEW e \in Nat, LineStart(e) = l,
         NEW h \in l .. e - 1, AllCR(h, e - 1), h = l \/ input[h] # "CR"
  PROVE  LineText(e) = l + 1 .. h
<1>1. LineText(e) = {p \in l + 1 .. e - 1 : \E q \in p .. e - 1 : input[q] # "CR"}
  BY DEF LineText
<1>2. ASSUME NEW p \in l + 1 .. h PROVE p \in LineText(e)
  <2>1. h # l /\ h \in p .. e - 1 /\ p \in l + 1 .. e - 1
    OBVIOUS
  <2>2. QED
    BY <1>1, <2>1
<1>3. ASSUME NEW p \in LineText(e) PROVE p \in l + 1 .. h
  <2>1. PICK q \in p .. e - 1 : input[q] # "CR" /\ p \in l + 1 .. e - 1
    BY <1>1
  <2>2. q <= h
    BY <2>1 DEF AllCR
  <2>3. QED
    BY <2>1, <2>2
<1>4. QED
  BY <1>2, <1>3

(* Lines depend on the input and on where the request begins only.         *)
LEMMA SameLines ==
  ASSUME UNCHANGED <<base, input>>
  PROVE  LFs' = LFs /\ \A e : /\ LineText(e)' = LineText(e) /\ Number(e)' = Number(e)
                              /\ Empty(e)' <=> Empty(e)
<1>1. LFs' = LFs
  BY DEF LFs
<1>2. \A e : LineStart(e)' = LineStart(e)
  BY <1>1 DEF LineStart
<1>3. \A e : LineText(e)' = LineText(e)
  BY <1>2 DEF LineText
<1>4. \A e : Number(e)' = Number(e)
  BY <1>1 DEF Number
<1>5. QED
  BY <1>1, <1>3, <1>4 DEF Empty

(* The k lines up to byte l are read, and the next one begins behind it.   *)
Begins(l, k) ==
  /\ base <= l /\ (l = base <=> k = 0) /\ (k # 0 => l \in LFs)
  /\ Number(l) = k /\ \A d \in LFs : d <= l => ~Empty(d)

(* What status st says of the line that begins behind byte l when byte p   *)
(* is the last one scanned: h is the last byte of its text, once a         *)
(* carriage return has been seen.                                          *)
Seen(st, l, p, h) ==
  /\ l <= p /\ NoLF(l, p)
  /\ st = "READ_HEADER" => (l = p /\ l = base) \/ (l < p /\ input[p] = "c")
  /\ st = "ONE_CR" => /\ l <= h /\ h < p /\ AllCR(h, p)
                      /\ (h = l /\ l = base) \/ (l < h /\ input[h] = "c")
  /\ st = "ONE_LF" => l = p /\ l # base
  /\ st = "TWO_CR" => l < p /\ AllCR(l, p) /\ l # base

(* Line k was processed with the text s.                                   *)
LineIs(s, k) ==
  \E e \in LFs : /\ Number(e) = k /\ \A d \in LFs : d <= e => ~Empty(d)
                 /\ {s[i] : i \in 1 .. Len(s)} = LineText(e)

(* The header ends with byte e.                                            *)
Arrived(e, s, k) ==
  e \in LFs /\ IF s THEN Number(e) = 1 ELSE Empty(e) /\ Number(e) = k + 1

Served == status = "WRITE" \/ InBody \/ InPipe

LineInv ==
  /\ lines \in Seq(Seq(Int))
  /\ \A k \in 1 .. Len(lines) : \A s : s = lines[k] => LineIs(s, k)
  /\ InHeader =>
       /\ logline <=> lines # <<>>
       /\ \E l, p, h \in Int, k \in Nat :
            /\ l = base + header_line /\ p = base + parse_pos /\ h = base + header_end /\ k = Len(lines)
            /\ Begins(l, k) /\ Seen(status, l, p, h)
  /\ Served => \E e \in Int, k \in Nat : e = base + parse_pos /\ k = Len(lines) /\ Arrived(e, simple, k)

(* All of this depends on the input and on where the request begins only.  *)
LEMMA SameMeaning ==
  ASSUME UNCHANGED <<base, input>>
  PROVE  /\ \A l, k : Begins(l, k)' <=> Begins(l, k)
         /\ \A st, l, p, h : Seen(st, l, p, h)' <=> Seen(st, l, p, h)
         /\ \A s, k : LineIs(s, k)' <=> LineIs(s, k)
         /\ \A e, s, k : Arrived(e, s, k)' <=> Arrived(e, s, k)
<1>1. /\ LFs' = LFs /\ \A e : LineText(e)' = LineText(e) /\ Number(e)' = Number(e)
      /\ \A e : Empty(e)' <=> Empty(e)
  BY SameLines
<1>2. \A a, b : (AllCR(a, b)' <=> AllCR(a, b)) /\ (NoLF(a, b)' <=> NoLF(a, b))
  BY DEF AllCR, NoLF
<1>3. \A l, k : Begins(l, k)' <=> Begins(l, k)
  BY <1>1 DEF Begins
<1>4. \A st, l, p, h : Seen(st, l, p, h)' <=> Seen(st, l, p, h)
  BY <1>2 DEF Seen
<1>5. \A s, k : LineIs(s, k)' <=> LineIs(s, k)
  BY <1>1, Zenon DEF LineIs
<1>6. \A e, s, k : Arrived(e, s, k)' <=> Arrived(e, s, k)
  BY <1>1 DEF Arrived
<1>7. QED
  BY <1>3, <1>4, <1>5, <1>6

(* One byte more, which is not a line feed.                                *)
LEMMA SeenOn ==
  ASSUME base \in Nat, NEW l \in Int, NEW p \in Int, NEW h \in Int, NEW g \in Int, NEW st,
         base <= l, Seen(st, l, p, h), st \in {"READ_HEADER", "ONE_CR", "ONE_LF", "TWO_CR"},
         NEW b \in {"c", "CR"}, b = input[p + 1],
         g = IF st = "READ_HEADER" /\ b # "c" THEN p ELSE h
  PROVE  Seen(Scan(st, b), l, p + 1, g)
<1>1. \A q \in l + 1 .. p + 1 : q \in l + 1 .. p \/ q = p + 1
  OBVIOUS
<1>2. l <= p + 1 /\ NoLF(l, p + 1)
  BY <1>1 DEF Seen, NoLF
<1>3. CASE b = "c"
  <2>1. Scan(st, b) = "READ_HEADER" /\ l < p + 1
    BY <1>3 DEF Scan, Seen
  <2>2. QED
    BY <1>2, <1>3, <2>1 DEF Seen
<1>4. CASE b = "CR"
  <2>0. (\A a \in Int : AllCR(a, p) => AllCR(a, p + 1)) /\ AllCR(p, p)
    <3>1. \A a \in Int : \A q \in a + 1 .. p + 1 : q \in a + 1 .. p \/ q = p + 1
      OBVIOUS
    <3>2. input[p + 1] = "CR"
      BY <1>4
    <3>3. \A q \in p + 1 .. p : FALSE
      OBVIOUS
    <3>4. QED
      BY <3>1, <3>2, <3>3 DEF AllCR
  <2>1. CASE st = "READ_HEADER"
    <3>1. Scan(st, b) = "ONE_CR" /\ g = p /\ AllCR(p, p + 1)
      BY <1>4, <2>0, <2>1 DEF Scan
    <3>2. (p = l /\ l = base) \/ (l < p /\ input[p] = "c")
      BY <2>1 DEF Seen
    <3>3. QED
      BY <1>2, <3>1, <3>2 DEF Seen
  <2>2. CASE st = "ONE_CR"
    <3>1. /\ Scan(st, b) = "ONE_CR" /\ g = h /\ l <= h /\ h < p /\ AllCR(h, p)
          /\ (h = l /\ l = base) \/ (l < h /\ input[h] = "c")
      BY <1>4, <2>2 DEF Scan, Seen
    <3>2. AllCR(h, p + 1)
      BY <2>0, <3>1
    <3>3. h < p + 1
      BY <3>1
    <3>4. QED
      BY <1>2, <3>1, <3>2, <3>3 DEF Seen
  <2>3. CASE st = "ONE_LF"
    <3>1. Scan(st, b) = "TWO_CR" /\ l = p /\ l # base
      BY <1>4, <2>3 DEF Scan, Seen
    <3>2. AllCR(l, p + 1) /\ l < p + 1
      BY <2>0, <3>1
    <3>3. QED
      BY <1>2, <3>1, <3>2 DEF Seen
  <2>4. CASE st = "TWO_CR"
    <3>1. Scan(st, b) = "TWO_CR" /\ l < p /\ AllCR(l, p) /\ l # base
      BY <1>4, <2>4 DEF Scan, Seen
    <3>2. AllCR(l, p + 1) /\ l < p + 1
      BY <2>0, <3>1
    <3>3. QED
      BY <1>2, <3>1, <3>2 DEF Seen
  <2>5. QED
    BY <2>1, <2>2, <2>3, <2>4
<1>5. QED
  BY <1>3, <1>4

(* A line feed: the end of the line or of the header.                      *)
LEMMA SeenEnd ==
  ASSUME base \in Nat, NEW l \in Int, NEW p \in Int, NEW h \in Int, NEW g \in Int, NEW st,
         base <= l, Seen(st, l, p, h), st \in {"READ_HEADER", "ONE_CR", "ONE_LF", "TWO_CR"},
         g = IF st = "READ_HEADER" THEN p ELSE h
  PROVE  /\ Scan(st, "LF") = "ONE_LF" => /\ l <= g /\ g <= p /\ AllCR(g, p)
                                         /\ (g = l /\ l = base) \/ (l < g /\ input[g] = "c")
         /\ Scan(st, "LF") = "BODY_READ" => l # base /\ AllCR(l, p)
         /\ l <= p /\ NoLF(l, p)
<1>1. CASE st = "READ_HEADER"
  BY <1>1 DEF Seen, Scan, AllCR
<1>2. CASE st = "ONE_CR"
  <2>1. /\ l <= h /\ h < p /\ AllCR(h, p) /\ ((h = l /\ l = base) \/ (l < h /\ input[h] = "c"))
        /\ g = h /\ l <= p /\ NoLF(l, p) /\ Scan(st, "LF") = "ONE_LF"
    BY <1>2 DEF Seen, Scan
  <2>2. QED
    BY <2>1
<1>3. CASE st = "ONE_LF"
  BY <1>3 DEF Seen, Scan, AllCR
<1>4. CASE st = "TWO_CR"
  BY <1>4 DEF Seen, Scan
<1>5. QED
  BY <1>1, <1>2, <1>3, <1>4

(* The byte that the loop of read_header looks at.                         *)
LEMMA HeaderByte ==
  ASSUME BInv, InHeader, parse_pos < Len(client_stream)
  PROVE  /\ base \in Nat /\ parse_pos \in Nat /\ Len(input) \in Nat
         /\ base + parse_pos + 1 <= Len(input)
         /\ Byte = input[base + parse_pos + 1] /\ Byte \in Bytes
<1>1. PICK k : k = Len(client_stream)
  OBVIOUS
<1>2. /\ k \in Nat /\ client_stream = Positions(base, k) /\ taken = base + k
      /\ base \in Nat /\ taken \in 0 .. Len(input) /\ parse_pos \in 0 .. k /\ parse_pos < k
  BY <1>1 DEF BInv, StreamInv, Run, TypeOK
<1>3. Len(input) \in Nat /\ \A q \in 1 .. Len(input) : input[q] \in Bytes
  BY InputsAssumption, LenProperties, ElementOfSeq DEF BInv, TypeOK
<1>4. parse_pos + 1 \in 1 .. k /\ base + parse_pos + 1 \in 1 .. Len(input) /\ parse_pos \in Nat
  BY <1>2, <1>3
<1>5. client_stream[parse_pos + 1] = base + parse_pos + 1
  <2>1. Positions(base, k)[parse_pos + 1] = base + (parse_pos + 1)
    <3>1. base \in Int /\ k \in Nat
      BY <1>2
    <3>2. \A i \in 1 .. k : Positions(base, k)[i] = base + i
      BY <3>1, PositionsSeq
    <3>3. QED
      BY <1>4, <3>2
  <2>2. base + (parse_pos + 1) = base + parse_pos + 1
    BY <1>2
  <2>3. QED
    BY <1>2, <2>1, <2>2
<1>6. QED
  BY <1>2, <1>3, <1>4, <1>5 DEF Byte

(* A step outside the header that moves no request on to being served.     *)
LEMMA LineQuiet ==
  ASSUME LineInv, UNCHANGED <<base, input, parse_pos, lines, simple>>, ~InHeader', Served' => Served
  PROVE  LineInv'
<1>1. /\ \A s, k : LineIs(s, k)' <=> LineIs(s, k)
      /\ \A e, s, k : Arrived(e, s, k)' <=> Arrived(e, s, k)
  BY SameMeaning
<1>2. lines' = lines /\ base' = base /\ parse_pos' = parse_pos /\ simple' = simple
  OBVIOUS
<1>3. \A k \in 1 .. Len(lines') : \A s : s = lines'[k] => LineIs(s, k)'
  BY <1>1, <1>2 DEF LineInv
<1>4. Served' => \E e \in Int, k \in Nat :
        e = base' + parse_pos' /\ k = Len(lines') /\ Arrived(e, simple, k)'
  <2> SUFFICES ASSUME Served' PROVE \E e \in Int, k \in Nat :
        e = base' + parse_pos' /\ k = Len(lines') /\ Arrived(e, simple, k)'
    OBVIOUS
  <2>1. PICK e \in Int, k \in Nat : e = base + parse_pos /\ k = Len(lines) /\ Arrived(e, simple, k)
    BY DEF LineInv
  <2>2. PICK s : s = simple
    OBVIOUS
  <2>3. Arrived(e, s, k)'
    BY <1>1, <2>1, <2>2
  <2>4. QED
    BY <1>2, <2>1, <2>2, <2>3
<1>5. QED
  BY <1>2, <1>3, <1>4 DEF LineInv

(* read_header reads more bytes, finds the buffer full or the connection   *)
(* closed.                                                                 *)
LEMMA ReadHeaderLines ==
  ASSUME LineInv, ReadHeader
  PROVE  LineInv'
<1>1. /\ InHeader /\ UNCHANGED <<simple, logline, input, parse_pos, header_line, header_end, base, lines>>
      /\ status' = status \/ status' \in {"DONE", "DEAD"}
  BY DEF ReadHeader, pointers
<1>2. CASE status' \in {"DONE", "DEAD"}
  BY <1>1, <1>2, LineQuiet DEF InHeader, Served, InBody, InPipe
<1>3. CASE status' = status
  <2>1. /\ \A l, k : Begins(l, k)' <=> Begins(l, k)
        /\ \A st, l, p, h : Seen(st, l, p, h)' <=> Seen(st, l, p, h)
        /\ \A s, k : LineIs(s, k)' <=> LineIs(s, k)
    BY <1>1, SameMeaning
  <2>2. InHeader' /\ ~Served'
    BY <1>1, <1>3 DEF InHeader, Served, InBody, InPipe
  <2>3. \A k \in 1 .. Len(lines') : \A s : s = lines'[k] => LineIs(s, k)'
    BY <1>1, <2>1 DEF LineInv
  <2>4. PICK l, p, h \in Int, k \in Nat :
          /\ l = base + header_line /\ p = base + parse_pos /\ h = base + header_end /\ k = Len(lines)
          /\ Begins(l, k) /\ Seen(status, l, p, h)
    BY <1>1 DEF LineInv
  <2>5. PICK st : st = status
    OBVIOUS
  <2>6. Begins(l, k)' /\ Seen(st, l, p, h)' /\ st = status'
    BY <1>3, <2>1, <2>4, <2>5
  <2>7. logline' <=> lines' # <<>>
    BY <1>1 DEF LineInv
  <2>8. /\ l = base' + header_line' /\ p = base' + parse_pos' /\ h = base' + header_end'
        /\ k = Len(lines') /\ lines' \in Seq(Seq(Int))
    BY <1>1, <2>4 DEF LineInv
  <2>9. QED
    BY <2>2, <2>3, <2>6, <2>7, <2>8 DEF LineInv
<1>4. QED
  BY <1>1, <1>2, <1>3

(* A byte that ends no line.                                               *)
LEMMA ScanLines ==
  ASSUME BInv, LineInv, ScanOn
  PROVE  LineInv'
<1>1. /\ InHeader /\ parse_pos < Len(client_stream) /\ status' \in {"READ_HEADER", "ONE_CR", "TWO_CR"}
      /\ status' = Scan(status, Byte) /\ parse_pos' = parse_pos + 1 /\ header_end' = EndSeen
      /\ UNCHANGED <<simple, logline, input, header_line, base, lines>>
  BY DEF ScanOn, Turn
<1>2. /\ base \in Nat /\ parse_pos \in Nat /\ Byte = input[base + parse_pos + 1] /\ Byte \in Bytes
      /\ header_end \in Nat
  BY <1>1, HeaderByte, SizeAssumption DEF BInv, TypeOK
<1>3. PICK l, p, h \in Int, k \in Nat :
        /\ l = base + header_line /\ p = base + parse_pos /\ h = base + header_end /\ k = Len(lines)
        /\ Begins(l, k) /\ Seen(status, l, p, h)
  BY <1>1 DEF LineInv
<1>4. PICK st, b, g : st = status /\ b = Byte /\ g = IF st = "READ_HEADER" /\ b # "c" THEN p ELSE h
  OBVIOUS
<1>5. g \in Int /\ g = base + EndSeen
  BY <1>2, <1>3, <1>4 DEF EndSeen
<1>6. b \in {"c", "CR"} /\ b = input[p + 1]
  <2>1. b # "LF"
    BY <1>1, <1>4 DEF Scan
  <2>2. QED
    BY <1>2, <1>3, <1>4, <2>1 DEF Bytes
<1>7. base <= l /\ Seen(st, l, p, h) /\ st \in {"READ_HEADER", "ONE_CR", "ONE_LF", "TWO_CR"}
  BY <1>1, <1>3, <1>4 DEF Begins, InHeader
<1>8. Seen(Scan(st, b), l, p + 1, g)
  BY <1>2, <1>4, <1>5, <1>6, <1>7, SeenOn
<1>9. PICK n, q : n = Scan(st, b) /\ q = p + 1
  OBVIOUS
<1>10. /\ \A i, j : Begins(i, j)' <=> Begins(i, j)
       /\ \A x, i, j, y : Seen(x, i, j, y)' <=> Seen(x, i, j, y)
       /\ \A s, j : LineIs(s, j)' <=> LineIs(s, j)
  BY <1>1, SameMeaning
<1>11. Begins(l, k)' /\ Seen(n, l, q, g)' /\ n = status'
  BY <1>1, <1>3, <1>4, <1>8, <1>9, <1>10
<1>12. InHeader' /\ ~Served'
  BY <1>1 DEF InHeader, Served, InBody, InPipe
<1>13. \A j \in 1 .. Len(lines') : \A s : s = lines'[j] => LineIs(s, j)'
  BY <1>1, <1>10 DEF LineInv
<1>14. /\ l = base' + header_line' /\ q = base' + parse_pos' /\ g = base' + header_end'
       /\ q \in Int
  BY <1>1, <1>2, <1>3, <1>5, <1>9
<1>15. k = Len(lines') /\ lines' \in Seq(Seq(Int)) /\ (logline' <=> lines' # <<>>)
  BY <1>1, <1>3 DEF LineInv
<1>16. QED
  BY <1>5, <1>11, <1>12, <1>13, <1>14, <1>15 DEF LineInv

(* The line that a line feed ends.                                         *)
LEMMA AtLF ==
  ASSUME BInv, LineInv, NEW step \in {"ONE_LF", "BODY_READ"}, Turn(step)
  PROVE  \E l \in Nat, e \in LFs, g \in Int, k \in Nat :
           /\ l = base + header_line /\ e = base + parse_pos + 1 /\ g = base + EndSeen /\ k = Len(lines)
           /\ Begins(l, k) /\ Number(e) = k + 1 /\ e \in Nat /\ base < e
           /\ \A d \in LFs : d <= e => d <= l \/ d = e
           /\ step = "ONE_LF" => l <= g /\ g < e /\ LineText(e) = l + 1 .. g /\ (g = l => k = 0)
           /\ step = "BODY_READ" => Empty(e) /\ k > 0
<1>1. InHeader /\ parse_pos < Len(client_stream) /\ Scan(status, Byte) = step
  BY DEF Turn
<1>2. /\ base \in Nat /\ parse_pos \in Nat /\ Byte = input[base + parse_pos + 1] /\ Byte \in Bytes
      /\ header_end \in Nat /\ Len(input) \in Nat /\ base + parse_pos + 1 <= Len(input)
  BY <1>1, HeaderByte, SizeAssumption DEF BInv, TypeOK
<1>3. PICK l, p, h \in Int, k \in Nat :
        /\ l = base + header_line /\ p = base + parse_pos /\ h = base + header_end /\ k = Len(lines)
        /\ Begins(l, k) /\ Seen(status, l, p, h)
  BY <1>1 DEF LineInv
<1>4. PICK st, g, e : st = status /\ g = (IF st = "READ_HEADER" THEN p ELSE h) /\ e = p + 1
  OBVIOUS
<1>5. Byte = "LF"
  BY <1>1, <1>2 DEF Scan, Bytes, InHeader
<1>6. /\ g \in Int /\ g = base + EndSeen /\ e \in Nat /\ base < e /\ e = base + parse_pos + 1
  BY <1>2, <1>3, <1>4, <1>5 DEF EndSeen
<1>7. e \in LFs
  <2>1. e \in base + 1 .. Len(input)
    BY <1>2, <1>6
  <2>2. input[e] = "LF"
    BY <1>2, <1>5, <1>6
  <2>3. QED
    BY <2>1, <2>2 DEF LFs
<1>8. base <= l /\ Seen(st, l, p, h) /\ st \in {"READ_HEADER", "ONE_CR", "ONE_LF", "TWO_CR"}
  BY <1>1, <1>3, <1>4 DEF Begins, InHeader
<1>9. /\ step = "ONE_LF" => /\ l <= g /\ g <= p /\ AllCR(g, p)
                            /\ (g = l /\ l = base) \/ (l < g /\ input[g] = "c")
      /\ step = "BODY_READ" => l # base /\ AllCR(l, p)
      /\ l <= p /\ NoLF(l, p)
  <2>1. Scan(st, "LF") = step
    BY <1>1, <1>4, <1>5
  <2>2. g = IF st = "READ_HEADER" THEN p ELSE h
    BY <1>4
  <2>3. QED
    BY <1>2, <1>6, <1>8, <2>1, <2>2, SeenEnd
<1>10. l \in Nat /\ l < e /\ e - 1 = p /\ (l = base \/ l \in LFs) /\ (l = base <=> k = 0)
  BY <1>2, <1>3, <1>4, <1>8, <1>9 DEF Begins
<1>11. /\ LineStart(e) = l /\ Number(e) = Number(l) + 1
       /\ \A d \in LFs : d <= e => d <= l \/ d = e
  BY <1>2, <1>7, <1>8, <1>9, <1>10, NextLine
<1>12. Number(e) = k + 1
  BY <1>3, <1>11 DEF Begins
<1>13. ASSUME step = "ONE_LF"
       PROVE  l <= g /\ g < e /\ LineText(e) = l + 1 .. g /\ (g = l => k = 0)
  <2>1. /\ l <= g /\ g <= p /\ AllCR(g, e - 1) /\ (g = l \/ input[g] # "CR") /\ (g = l => k = 0)
    <3>1. l <= g /\ g <= p /\ AllCR(g, p) /\ ((g = l /\ l = base) \/ (l < g /\ input[g] = "c"))
      BY <1>9, <1>13
    <3>2. QED
      BY <1>6, <1>10, <3>1
  <2>2. g \in l .. e - 1 /\ g < e
    BY <1>3, <1>4, <1>6, <2>1
  <2>3. QED
    BY <1>6, <1>10, <1>11, <2>1, <2>2, TextOfLine
<1>14. ASSUME step = "BODY_READ" PROVE Empty(e) /\ k > 0
  <2>1. k > 0 /\ AllCR(l, e - 1) /\ l \in l .. e - 1
    BY <1>9, <1>10, <1>14
  <2>2. LineText(e) = l + 1 .. l
    BY <1>6, <1>10, <1>11, <2>1, TextOfLine
  <2>3. LineText(e) = {}
    BY <1>3, <2>2
  <2>4. QED
    BY <1>12, <2>1, <2>3 DEF Empty
<1> l \in Nat /\ e \in LFs /\ g \in Int
  BY <1>6, <1>7, <1>10
<1> WITNESS l \in Nat, e \in LFs, g \in Int, k \in Nat
<1>15. QED
  BY <1>3, <1>6, <1>11, <1>12, <1>13, <1>14

(* The end of a line.                                                      *)
LEMMA EndLineLines ==
  ASSUME BInv, LineInv, EndLine
  PROVE  LineInv'
<1>1. /\ Turn("ONE_LF") /\ lines' = Append(lines, SubSeq(client_stream, header_line + 1, EndSeen))
      /\ logline' = TRUE /\ base' = base /\ parse_pos' = parse_pos + 1 /\ input' = input
      /\ InHeader /\ parse_pos < Len(client_stream)
  BY DEF EndLine, Turn
<1>2. PICK l \in Nat, e \in LFs, g \in Int, k \in Nat :
        /\ l = base + header_line /\ e = base + parse_pos + 1 /\ g = base + EndSeen /\ k = Len(lines)
        /\ Begins(l, k) /\ Number(e) = k + 1 /\ e \in Nat /\ base < e
        /\ \A d \in LFs : d <= e => d <= l \/ d = e
        /\ l <= g /\ g < e /\ LineText(e) = l + 1 .. g /\ (g = l => k = 0)
  BY <1>1, AtLF
<1>3. ~Empty(e) /\ \A d \in LFs : d <= e => ~Empty(d)
  <2>1. ~Empty(e)
    <3>1. CASE g = l
      BY <1>2, <3>1 DEF Empty
    <3>2. CASE g # l
      <4>1. g \in LineText(e)
        BY <1>2, <3>2
      <4>2. QED
        BY <4>1 DEF Empty
    <3>3. QED
      BY <3>1, <3>2
  <2>2. QED
    BY <1>2, <2>1 DEF Begins
<1>4. PICK t : t = SubSeq(client_stream, header_line + 1, EndSeen)
  OBVIOUS
<1>5. t \in Seq(Int) /\ {t[i] : i \in 1 .. Len(t)} = l + 1 .. g
  <2>1. PICK n, a, b, c : n = Len(client_stream) /\ a = header_line /\ b = EndSeen /\ c = base
    OBVIOUS
  <2>2. /\ n \in Nat /\ client_stream = Positions(c, n) /\ c \in Nat /\ a \in Nat /\ b \in Nat
        /\ parse_pos \in Nat /\ parse_pos < n
    BY <1>1, <2>1, HeaderByte, SizeAssumption DEF BInv, StreamInv, Run, TypeOK, EndSeen
  <2>3. l = c + a /\ g = c + b /\ a <= b /\ b < n
    BY <1>2, <2>1, <2>2
  <2>4. a + 1 \in 1 .. n + 1 /\ b \in (a + 1) - 1 .. n /\ c \in Int
    BY <2>2, <2>3
  <2>5. t = Positions(c + (a + 1) - 1, b - (a + 1) + 1)
    <3>1. SubSeq(Positions(c, n), a + 1, b) = Positions(c + (a + 1) - 1, b - (a + 1) + 1)
      BY <2>2, <2>4, PositionsPart
    <3>2. t = SubSeq(Positions(c, n), a + 1, b)
      BY <1>4, <2>1, <2>2
    <3>3. QED
      BY <3>1, <3>2
  <2>6. c + (a + 1) - 1 = l /\ b - (a + 1) + 1 = g - l /\ g - l \in Nat /\ l \in Int
    BY <2>2, <2>3
  <2>7. t = Positions(l, g - l)
    BY <2>5, <2>6
  <2>8. t \in Seq(Int) /\ Len(t) = g - l /\ \A i \in 1 .. g - l : t[i] = l + i
    BY <2>6, <2>7, PositionsSeq
  <2>9. QED
    <3>1. ASSUME NEW x \in l + 1 .. g PROVE \E i \in 1 .. Len(t) : x = t[i]
      <4>1. x - l \in 1 .. g - l /\ l + (x - l) = x
        BY <1>2
      <4>2. QED
        BY <2>8, <4>1
    <3>2. ASSUME NEW i \in 1 .. Len(t) PROVE t[i] \in l + 1 .. g
      BY <2>6, <2>8
    <3>3. QED
      BY <2>8, <3>1, <3>2
<1>6. LineIs(t, k + 1)
  BY <1>2, <1>3, <1>5 DEF LineIs
<1>7. PICK m : m = k + 1
  OBVIOUS
<1>8. /\ lines' \in Seq(Seq(Int)) /\ lines' # <<>> /\ Len(lines') = m /\ m \in Nat /\ lines'[m] = t
      /\ \A i \in 1 .. k : lines'[i] = lines[i]
  <2>1. lines \in Seq(Seq(Int)) /\ lines' = Append(lines, t)
    BY <1>1, <1>4 DEF LineInv
  <2>2. QED
    BY <1>2, <1>5, <1>7, <2>1, AppendProperties
<1>9. /\ \A i, j : Begins(i, j)' <=> Begins(i, j)
      /\ \A x, i, j, y : Seen(x, i, j, y)' <=> Seen(x, i, j, y)
      /\ \A s, j : LineIs(s, j)' <=> LineIs(s, j)
      /\ \A x, s, j : Arrived(x, s, j)' <=> Arrived(x, s, j)
  BY <1>1, SameMeaning
<1>10. \A j \in 1 .. Len(lines') : \A s : s = lines'[j] => LineIs(s, j)'
  <2> SUFFICES ASSUME NEW j \in 1 .. m, NEW s, s = lines'[j] PROVE LineIs(s, j)
    BY <1>8, <1>9
  <2>1. CASE j = m
    BY <1>6, <1>7, <1>8, <2>1
  <2>2. CASE j # m
    <3>1. j \in 1 .. k
      BY <1>2, <1>7, <2>2
    <3>2. s = lines[j]
      BY <1>8, <3>1
    <3>3. QED
      BY <1>2, <3>1, <3>2 DEF LineInv
  <2>3. QED
    BY <2>1, <2>2
<1>11. /\ e = base' + parse_pos' /\ e \in Int /\ Begins(e, m)
  <2>1. e = base' + parse_pos'
    <3>1. base \in Nat /\ parse_pos \in Nat
      BY <1>1, HeaderByte
    <3>2. QED
      BY <1>1, <1>2, <3>1
  <2>2. base \in Nat /\ base <= e /\ e # base /\ m # 0
    <3>1. base \in Nat
      BY <1>1, HeaderByte
    <3>2. QED
      BY <1>2, <1>7, <3>1
  <2>3. QED
    BY <1>2, <1>3, <1>7, <2>1, <2>2 DEF Begins
<1>12. CASE status' = "DONE"
  <2>1. ~InHeader' /\ ~Served'
    BY <1>12 DEF InHeader, Served, InBody, InPipe
  <2>2. QED
    BY <1>8, <1>10, <2>1 DEF LineInv
<1>13. CASE status' = "ONE_LF" /\ header_line' = parse_pos' /\ header_end' = EndSeen
  <2>1. InHeader' /\ ~Served'
    BY <1>13 DEF InHeader, Served, InBody, InPipe
  <2>2. Seen("ONE_LF", e, e, g)
    BY <1>2 DEF Seen, NoLF
  <2>3. PICK st : st = "ONE_LF"
    OBVIOUS
  <2>4. Begins(e, m)' /\ Seen(st, e, e, g)' /\ st = status'
    BY <1>9, <1>11, <1>13, <2>2, <2>3
  <2>5. e = base' + header_line' /\ g = base' + header_end'
    BY <1>1, <1>2, <1>11, <1>13
  <2>6. QED
    BY <1>1, <1>8, <1>10, <1>11, <2>1, <2>4, <2>5 DEF LineInv
<1>14. CASE ~logline /\ simple' = TRUE /\ status' \in {"WRITE", "PIPE_READ"}
  <2>1. ~InHeader'
    BY <1>14 DEF InHeader
  <2>2. k = 0
    BY <1>1, <1>2, <1>14, EmptySeq DEF LineInv
  <2>3. Arrived(e, TRUE, m)
    BY <1>2, <2>2 DEF Arrived
  <2>4. PICK s : s = TRUE
    OBVIOUS
  <2>5. Arrived(e, s, m)' /\ s = simple'
    BY <1>9, <1>14, <2>3, <2>4
  <2>6. QED
    BY <1>8, <1>10, <1>11, <2>1, <2>5 DEF LineInv
<1>15. QED
  BY <1>12, <1>13, <1>14 DEF EndLine, Refuse, ServeGet, init_cgi

(* The empty line.                                                         *)
LEMMA EndHeaderLines ==
  ASSUME BInv, LineInv, EndHeader
  PROVE  LineInv'
<1>1. /\ Turn("BODY_READ") /\ base' = base /\ parse_pos' = parse_pos + 1 /\ UNCHANGED <<input, lines, simple>>
      /\ InHeader /\ ~simple /\ parse_pos < Len(client_stream)
  BY DEF EndHeader, Turn, BInv, HeadInv
<1>2. PICK l \in Nat, e \in LFs, g \in Int, k \in Nat :
        /\ e = base + parse_pos + 1 /\ k = Len(lines) /\ Number(e) = k + 1 /\ e \in Nat /\ Empty(e)
  BY <1>1, AtLF
<1>3. /\ \A s, j : LineIs(s, j)' <=> LineIs(s, j)
      /\ \A x, s, j : Arrived(x, s, j)' <=> Arrived(x, s, j)
  BY <1>1, SameMeaning
<1>4. ~InHeader'
  BY DEF EndHeader, Refuse, ServeGet, init_cgi, StartBody, InHeader
<1>5. Arrived(e, FALSE, k)
  BY <1>2 DEF Arrived
<1>6. PICK s : s = simple'
  OBVIOUS
<1>7. s = FALSE \/ ~s
  BY <1>1, <1>6
<1>8. Arrived(e, s, k)'
  BY <1>2, <1>3, <1>7 DEF Arrived
<1>9. e = base' + parse_pos' /\ k = Len(lines') /\ e \in Int /\ lines' \in Seq(Seq(Int))
  <2>1. base \in Nat /\ parse_pos \in Nat
    BY <1>1, HeaderByte
  <2>2. QED
    BY <1>1, <1>2, <2>1 DEF LineInv
<1>10. \A j \in 1 .. Len(lines') : \A t : t = lines'[j] => LineIs(t, j)'
  BY <1>1, <1>3 DEF LineInv
<1>11. QED
  BY <1>4, <1>6, <1>8, <1>9, <1>10 DEF LineInv

(* A request begins: no line of it is read yet.                            *)
LEMMA InitLines == Init => LineInv
<1> SUFFICES ASSUME Init PROVE LineInv
  OBVIOUS
<1>1. /\ lines = <<>> /\ base = 0 /\ header_line = 0 /\ header_end = 0 /\ parse_pos = 0
      /\ status = "READ_HEADER" /\ logline = FALSE
  BY DEF Init
<1>2. InHeader /\ ~Served
  BY <1>1 DEF InHeader, Served, InBody, InPipe
<1>3. lines \in Seq(Seq(Int)) /\ Len(lines) = 0
  BY <1>1, EmptySeq
<1>4. Len(input) \in Nat
  BY InitBytes, InputsAssumption, LenProperties DEF BInv, TypeOK
<1>5. \A d \in LFs : d \in Int /\ 0 < d
  BY <1>1, <1>4 DEF LFs
<1>6. {d \in LFs : d <= 0} = {}
  BY <1>5
<1>7. Number(0) = 0
  BY <1>6, FS_EmptySet DEF Number
<1>8. Begins(0, 0)
  BY <1>1, <1>5, <1>7 DEF Begins
<1>9. Seen(status, 0, 0, 0)
  BY <1>1 DEF Seen, NoLF
<1>10. 0 = base + header_line /\ 0 = base + parse_pos /\ 0 = base + header_end
  BY <1>1
<1>11. QED
  BY <1>1, <1>2, <1>3, <1>8, <1>9, <1>10 DEF LineInv

(* The connection is kept: the next request begins behind the header of    *)
(* this one.                                                               *)
LEMMA KeepLines ==
  ASSUME BInv, LineInv, Keep
  PROVE  LineInv'
<1>1. /\ lines' = <<>> /\ base' = base + parse_pos /\ header_line' = 0 /\ header_end' = 0 /\ parse_pos' = 0
      /\ status' = "READ_HEADER" /\ logline' = FALSE /\ input' = input
  BY DEF Keep
<1>2. PICK b : b = base'
  OBVIOUS
<1>3. b \in Nat /\ Len(input') \in Nat
  <2>1. base \in Nat /\ parse_pos \in Nat /\ input \in Inputs
    BY DEF BInv, TypeOK, StreamInv, Run
  <2>2. QED
    BY <1>1, <1>2, <2>1, InputsAssumption, LenProperties
<1>4. InHeader' /\ ~Served'
  BY <1>1 DEF InHeader, Served, InBody, InPipe
<1>5. lines' \in Seq(Seq(Int)) /\ Len(lines') = 0
  BY <1>1, EmptySeq
<1>6. \A d \in LFs' : d \in Int /\ b < d
  <2>1. PICK n : n = Len(input')
    OBVIOUS
  <2>2. \A d \in LFs' : d \in b + 1 .. n
    BY <1>2, <2>1 DEF LFs
  <2>3. QED
    BY <1>3, <2>1, <2>2
<1>7. {d \in LFs' : d <= b} = {}
  BY <1>3, <1>6
<1>8. Number(b)' = 0
  BY <1>7, FS_EmptySet DEF Number
<1>9. PICK z : z = 0
  OBVIOUS
<1>10. Begins(b, z)'
  <2>1. \A d \in LFs' : ~(d <= b)
    BY <1>3, <1>6
  <2>2. QED
    BY <1>2, <1>3, <1>8, <1>9, <2>1 DEF Begins
<1>11. PICK st : st = status'
  OBVIOUS
<1>12. Seen(st, b, b, b)'
  BY <1>1, <1>2, <1>3, <1>11 DEF Seen, NoLF
<1>13. b = base' + header_line' /\ b = base' + parse_pos' /\ b = base' + header_end'
  BY <1>1, <1>2, <1>3
<1>14. /\ \A k \in 1 .. Len(lines') : \A s : s = lines'[k] => LineIs(s, k)'
       /\ logline' <=> lines' # <<>>
       /\ b \in Int /\ z \in Nat /\ z = Len(lines')
  BY <1>1, <1>3, <1>5, <1>9
<1>15. QED
  BY <1>4, <1>5, <1>10, <1>11, <1>12, <1>13, <1>14 DEF LineInv

(* Every step keeps the invariant of the lines.                            *)
LEMMA LineInvInductive == BInv /\ LineInv /\ [Next]_vars => LineInv'
<1> SUFFICES ASSUME BInv, LineInv, [Next]_vars PROVE LineInv'
  OBVIOUS
<1>1. CASE UNCHANGED vars
  <2>1. UNCHANGED <<status, simple, logline, input, parse_pos, header_line, header_end, base, lines>>
    BY <1>1 DEF vars, head, stream, pointers
  <2>2. CASE ~InHeader
    BY <2>1, <2>2, LineQuiet DEF InHeader, Served, InBody, InPipe
  <2>3. CASE InHeader
    <3>1. /\ \A l, k : Begins(l, k)' <=> Begins(l, k)
          /\ \A st, l, p, h : Seen(st, l, p, h)' <=> Seen(st, l, p, h)
          /\ \A s, k : LineIs(s, k)' <=> LineIs(s, k)
      BY <2>1, SameMeaning
    <3>2. InHeader' /\ ~Served'
      BY <2>1, <2>3 DEF InHeader, Served, InBody, InPipe
    <3>3. \A k \in 1 .. Len(lines') : \A s : s = lines'[k] => LineIs(s, k)'
      BY <2>1, <3>1 DEF LineInv
    <3>4. PICK l, p, h \in Int, k \in Nat :
            /\ l = base + header_line /\ p = base + parse_pos /\ h = base + header_end /\ k = Len(lines)
            /\ Begins(l, k) /\ Seen(status, l, p, h)
      BY <2>3 DEF LineInv
    <3>5. PICK st : st = status
      OBVIOUS
    <3>6. Begins(l, k)' /\ Seen(st, l, p, h)' /\ st = status'
      BY <2>1, <3>1, <3>4, <3>5
    <3>7. /\ l = base' + header_line' /\ p = base' + parse_pos' /\ h = base' + header_end'
          /\ k = Len(lines') /\ lines' \in Seq(Seq(Int)) /\ (logline' <=> lines' # <<>>)
      BY <2>1, <2>3, <3>4 DEF LineInv
    <3>8. QED
      BY <3>2, <3>3, <3>6, <3>7 DEF LineInv
  <2>4. QED
    BY <2>2, <2>3
<1>2. CASE Close \/ ClientGone
  BY <1>2, LineQuiet DEF Close, ClientGone, stream, InHeader, Served, InBody, InPipe
<1>3. CASE read_body \/ write_body
  BY <1>3, LineQuiet DEF read_body, write_body, init_cgi, stream, InHeader, Served, InBody, InPipe
<1>4. CASE read_from_pipe
  BY <1>4, LineQuiet DEF read_from_pipe, ReadFull, ReadEnd, ReadSome, process_cgi_header, stream,
     InHeader, Served, InBody, InPipe
<1>5. CASE write_from_pipe
  BY <1>5, LineQuiet DEF write_from_pipe, stream, InHeader, Served, InBody, InPipe
<1>6. CASE req_flush
  <2>1. ~InHeader
    BY <1>6 DEF req_flush, BInv, HeadInv, Quiet
  <2>2. UNCHANGED <<status, simple, input, parse_pos, base, lines>>
    BY <1>6 DEF req_flush, head, stream
  <2>3. QED
    BY <2>1, <2>2, LineQuiet DEF InHeader, Served, InBody, InPipe
<1>7. CASE Freed
  BY <1>1, <1>7 DEF Freed
<1>8. QED
  BY <1>1, <1>2, <1>3, <1>4, <1>5, <1>6, <1>7, ScanLines, EndLineLines, EndHeaderLines,
     ReadHeaderLines, KeepLines DEF Next

(* However the client's bytes are packed into reads and whatever was       *)
(* pipelined in front, the lines that read_header processes are the lines  *)
(* that were sent, and a request is served exactly at the end of its       *)
(* header.                                                                 *)
THEOREM LinesAreAsSent == Spec => []LinesAsSent
<1>1. BInv /\ LineInv => LinesAsSent
  <2> SUFFICES ASSUME LineInv PROVE LinesAsSent
    OBVIOUS
  <2>1. ASSUME NEW k \in 1 .. Len(lines)
        PROVE  \E e \in LFs : /\ Number(e) = k /\ \A d \in LFs : d <= e => ~Empty(d)
                              /\ {lines[k][i] : i \in 1 .. Len(lines[k])} = LineText(e)
    BY DEF LineInv, LineIs
  <2>2. ASSUME status \in {"WRITE", "BODY_READ", "BODY_WRITE", "PIPE_READ", "PIPE_WRITE"}
        PROVE  /\ base + parse_pos \in LFs
               /\ IF simple THEN Number(base + parse_pos) = 1
                  ELSE Empty(base + parse_pos) /\ Number(base + parse_pos) = Len(lines) + 1
    <3>1. Served
      BY <2>2 DEF Served, InBody, InPipe
    <3>2. QED
      BY <3>1 DEF LineInv, Arrived
  <2>3. QED
    BY <2>1, <2>2 DEF LinesAsSent
<1>2. Init => BInv /\ LineInv
  BY InitBytes, InitLines
<1>3. BInv /\ LineInv /\ [Next]_vars => (BInv /\ LineInv)'
  BY BInvInductive, LineInvInductive
<1>4. QED
  BY <1>1, <1>2, <1>3, PTL DEF Spec

=============================================================================
