---------------------------- MODULE FileServerProofs ----------------------------
(***************************************************************************)
(* Proofs about FileServer for any number of clients, any lengths of lines *)
(* headers and files, and connections of any capacity: an invariant of how *)
(* much is in the connections and in the files, and one of what is in them.*)
(*                                                                         *)
(* The first part is about the exchange of messages between one client and *)
(* its child: an invariant of where the two are and what the connection    *)
(* between them holds, and what one write or one read does to it.  The two *)
(* sides are parameters there; the second part says it of the state and the*)
(* steps of FileServer.                                                    *)
(***************************************************************************)
EXTENDS FileServer, SequenceTheorems, FiniteSetTheorems, TLAPS

-------------------------------------------------------------------------------
\* The exchange of a client and its child.

Streams == Seq(Units)

ClientPcs == {"prompt", "reply", "skip", "get.reply", "get.length", "get.data",
              "put.reply", "put.data", "garbled", "gone"}

\* Numbers of whole lines.
Multiple(a) == \E j \in 0 .. a : a = j * LINEMAX

\* A line of its own, which begins with u.
Starts(s, u) == Len(s) = LINEMAX /\ s[1] = u

\* k units, a long, and then the front of the data, of which n units are to come.
Ahead(s, k, n) ==
    /\ Len(s) > k
    /\ \E m \in 0 .. MaxSize : s[k + 1] = Long(m) /\ m = Len(s) - (k + 1) + n
    /\ n > 0 => Multiple(Len(s) - (k + 1))

\* put: n units of the file are not sent yet.
Putting(pc, left, up, n) ==
    \/ pc = "put.ready" /\ Ahead(up, LINEMAX, n)
    \/ pc = "put.length" /\ Ahead(up, 0, n)
    \/ pc = "put.data" /\ left = Len(up) + n /\ (n > 0 => Multiple(Len(up)))

\* What the child finds in the connection, whether its client is there or gone:
\* no more than the messages of one command, in the order it reads them.
ServerSide(pc, left, up) ==
    /\ pc # "garbled"
    /\ pc = "request" => Len(up) = 0 \/ \E t \in Requests : Starts(up, Text(t))
    /\ pc \in {"put.ready", "put.length"} =>
        Len(up) = 0 \/ \E n \in 0 .. MaxSize : Putting(pc, left, up, n)
    /\ pc = "put.data" => \E n \in 0 .. MaxSize : Putting(pc, left, up, n)
    /\ pc \notin {"request", "put.ready", "put.length", "put.data"} => Len(up) = 0

\* get: of n units there are some in the connection, and whole lines only unless
\* the terminator follows.
Getting(pc, left, have, n) ==
    \/ pc = "get.data" /\ n = have + left /\ Multiple(have)
    \/ pc = "request" /\ have = n + LINEMAX

GettingAhead(pc, left, dn, k) ==
    Len(dn) > k /\ \E n \in 0 .. MaxSize :
        dn[k + 1] = Long(n) /\ Getting(pc, left, Len(dn) - (k + 1), n)

\* Lines and the terminator.
Listing(s) ==
    \E k \in 0 .. Len(s) :
        /\ Len(s) = (k + 1) * LINEMAX
        /\ \A j \in 0 .. k : s[j * LINEMAX + 1] = IF j = k THEN Nul ELSE Text("line")

Headed(s) == Len(s) >= LINEMAX /\ s[1] = Text("header")
Header(s) == Len(s) = HEADER /\ s[1] = Text("header")

\* Where the child can be, and what is in the connection, for each place of the client.
InReply(pc, up, dn) ==
    \/ pc = "request" /\ Len(dn) = 0 /\ \E t \in {"text", "ls", "rm"} : Starts(up, Text(t))
    \/ pc \in {"text", "ls", "rm"} /\ Len(up) = 0 /\ Len(dn) = 0
    \/ pc = "listing" /\ Len(up) = 0 /\ (Len(dn) = 0 \/ Header(dn))
    \/ pc = "request" /\ Len(up) = 0 /\ (Listing(dn) \/ Headed(dn))

InSkip(skip, pc, left, up, dn) ==
    \/ skip = 2 /\ pc = "request" /\ Len(dn) = 0 /\ Starts(up, Text("bad"))
    \/ skip = 2 /\ pc = "bad" /\ Len(dn) = 0 /\ Len(up) = 0
    \/ pc = "request" /\ Len(up) = 0 /\ Len(dn) = skip * LINEMAX
    \/ skip = 1 /\ pc = "get.data" /\ left = 0 /\ Len(dn) = 0 /\ Len(up) = 0
    \/ skip = 1 /\ Len(dn) = 0 /\ Putting(pc, left, up, 0)

InGetReply(pc, left, up, dn) ==
    \/ pc = "request" /\ Len(dn) = 0 /\ \E t \in {"get", "cat"} : Starts(up, Text(t))
    \/ pc \in {"get.open", "get.stat"} /\ Len(up) = 0 /\ Len(dn) = 0
    \/ pc = "request" /\ Len(up) = 0 /\ Len(dn) = 4 * LINEMAX /\ dn[1] = Text("Error")
    \/ Len(up) = 0 /\ dn[1] = Text("found") /\ GettingAhead(pc, left, dn, LINEMAX)

InPutReply(pc, up, dn) ==
    \/ pc = "request" /\ Len(dn) = 0 /\ Starts(up, Text("put"))
    \/ pc \in {"put.check", "put.open"} /\ Len(up) = 0 /\ Len(dn) = 0
    \/ pc = "request" /\ Len(up) = 0 /\ Len(dn) = 2 * LINEMAX /\ dn[1] = Text("error")
    \/ pc = "put.ready" /\ Len(up) = 0 /\ Starts(dn, Text("opened"))

InPutData(n, pc, left, up, dn) ==
    \/ Len(dn) = 0 /\ Putting(pc, left, up, n)
    \/ n = 0 /\ pc = "request" /\ Len(up) = 0 /\ Len(dn) = LINEMAX

BothSides(where, skip, n, pc, left, up, dn) ==
    /\ where # "garbled"
    /\ where = "prompt" => pc = "request" /\ Len(up) = 0 /\ Len(dn) = 0
    /\ where = "reply" => InReply(pc, up, dn)
    /\ where = "skip" => InSkip(skip, pc, left, up, dn)
    /\ where = "get.reply" => InGetReply(pc, left, up, dn)
    /\ where = "get.length" => Len(up) = 0 /\ GettingAhead(pc, left, dn, 0)
    /\ where = "get.data" => Len(up) = 0 /\ Getting(pc, left, Len(dn), n)
    /\ where = "put.reply" => InPutReply(pc, up, dn)
    /\ where = "put.data" => InPutData(n, pc, left, up, dn)

-------------------------------------------------------------------------------
\* What the assumption on the constants says, in the form the proofs use: a line has
\* more than one unit, as a header is shorter than a line and not empty.
LEMMA Constants ==
    /\ LINEMAX \in Nat /\ LINEMAX > 1 /\ HEADER \in 1 .. LINEMAX - 1
    /\ MaxSize \in Nat /\ MaxLines \in Nat /\ Capacity \in Nat
    /\ \A c \in Clients : Size[c] \in Nat /\ Size[c] <= MaxSize
    /\ NoInode \notin Inodes
BY ServerAssumption

\* A number of lines is a number of whole lines.
LEMMA MultipleIs ==
    ASSUME NEW j \in Nat
    PROVE  j * LINEMAX \in Nat /\ j <= j * LINEMAX /\ Multiple(j * LINEMAX)
<1>1. j * LINEMAX \in Nat /\ j <= j * LINEMAX
  <2>1. \A i, k \in Nat : k > 0 => i <= i * k
    OBVIOUS
  <2> QED BY <2>1, Constants
<1>2. j \in 0 .. j * LINEMAX
  BY <1>1
<1> QED BY <1>1, <1>2 DEF Multiple

\* No line at all is a number of whole lines.
LEMMA MultipleOfNone == Multiple(0)
BY MultipleIs, Constants

\* One more line keeps whole lines whole.
LEMMA MultipleUp ==
    ASSUME NEW a \in Nat, Multiple(a)
    PROVE  Multiple(a + LINEMAX)
<1>1. PICK j \in 0 .. a : a = j * LINEMAX
  BY DEF Multiple
<1>2. j + 1 \in Nat /\ a + LINEMAX = (j + 1) * LINEMAX
  BY <1>1, Constants
<1> QED BY <1>2, MultipleIs

\* So does one line less, of which there is at least one when anything is left.
LEMMA MultipleDown ==
    ASSUME NEW a \in Nat, Multiple(a), a # 0
    PROVE  a >= LINEMAX /\ Multiple(a - LINEMAX)
<1>1. PICK j \in 0 .. a : a = j * LINEMAX
  BY DEF Multiple
<1>2. j # 0
  BY <1>1, Constants
<1>3. j - 1 \in Nat /\ (j - 1) * LINEMAX \in Nat /\ a = ((j - 1) * LINEMAX) + LINEMAX
  BY <1>1, <1>2, Constants
<1>4. a >= LINEMAX /\ a - LINEMAX = (j - 1) * LINEMAX
  BY <1>3, Constants
<1> QED BY <1>3, <1>4, MultipleIs

\* The first unit of a line, and only that, is at a place that leaves 1.
LEMMA FirstOfLine ==
    ASSUME NEW j \in Nat
    PROVE  (j * LINEMAX + 1) % LINEMAX = 1
<1> DEFINE a == j * LINEMAX + 1
           q == a \div LINEMAX
           r == a % LINEMAX
<1>1. /\ LINEMAX \in Nat /\ LINEMAX > 1 /\ j * LINEMAX \in Nat /\ a \in Nat
  BY Constants
<1>2. q \in Nat /\ r \in 0 .. LINEMAX - 1 /\ a = (LINEMAX * q) + r
  <2> HIDE DEF a
  <2> QED BY <1>1
<1> HIDE DEF q, r
<1>3. j * LINEMAX = LINEMAX * j /\ LINEMAX * q \in Nat
  BY <1>1, <1>2
<1>4. CASE q = j
  BY <1>1, <1>2, <1>3, <1>4 DEF r
<1>5. ASSUME q > j PROVE FALSE
  <2>1. LINEMAX * q >= LINEMAX * (j + 1)
    BY <1>1, <1>2, <1>5
  <2>2. LINEMAX * (j + 1) = (LINEMAX * j) + LINEMAX
    BY <1>1
  <2> QED BY <1>1, <1>2, <1>3, <2>1, <2>2
<1>6. ASSUME q < j PROVE FALSE
  <2>1. LINEMAX * j >= LINEMAX * (q + 1)
    BY <1>1, <1>2, <1>6
  <2>2. LINEMAX * (q + 1) = (LINEMAX * q) + LINEMAX
    BY <1>1, <1>2
  <2> QED BY <1>1, <1>2, <1>3, <2>1, <2>2
<1> QED BY <1>1, <1>2, <1>4, <1>5, <1>6

-------------------------------------------------------------------------------
\* Units.
LEMMA UnitTypes ==
    /\ \A t \in Requests \cup Careless \cup Replies : Text(t) \in Units
    /\ Nul \in Units /\ Rest \in Units
    /\ \A n \in 0 .. MaxSize : Long(n) \in Units
    /\ \A c \in Clients : \A i \in 1 .. MaxSize : Data(c, i) \in Units
<1>1. \A t \in Requests \cup Careless \cup Replies : Text(t) \in Units
  BY DEF Units
<1>2. Nul \in Units /\ Rest \in Units
  BY DEF Units
<1>3. \A n \in 0 .. MaxSize : Long(n) \in Units
  BY DEF Units
<1>4. \A c \in Clients : \A i \in 1 .. MaxSize : Data(c, i) \in Units
  BY DEF Units, Datas
<1> QED BY <1>1, <1>2, <1>3, <1>4

\* What kind of unit each is.
LEMMA Kinds ==
    /\ \A t : Text(t).kind = "text" /\ Text(t).val = t
    /\ Nul.kind = "nul" /\ Rest.kind = "rest"
    /\ \A n : Long(n).kind = "long" /\ Long(n).val = n
BY DEF Text, Nul, Rest, Long

\* A unit that is a long holds the length of a file.
LEMMA LongUnits ==
    ASSUME NEW u \in Units, u.kind = "long"
    PROVE  u.val \in 0 .. MaxSize /\ u = Long(u.val)
BY DEF Units, Datas, Text, Nul, Rest, Long, Data

\* Streams.
LEMMA Appended ==
    ASSUME NEW x \in Streams, NEW y \in Streams
    PROVE  /\ x \o y \in Streams /\ Len(x \o y) = Len(x) + Len(y)
           /\ x # <<>> => Head(x \o y) = Head(x) /\ x \o y # <<>>
BY DEF Streams

\* What a read leaves in the connection.
LEMMA Taken ==
    ASSUME NEW s \in Streams, NEW n \in 0 .. Len(s)
    PROVE  /\ Without(s, n) \in Streams /\ Len(Without(s, n)) = Len(s) - n
           /\ \A i \in 1 .. Len(s) - n : Without(s, n)[i] = s[n + i]
           /\ n = 0 => Without(s, n) = s
           /\ n = Len(s) => Without(s, n) = <<>>
<1>1. Len(s) \in Nat /\ n \in Nat /\ n + 1 \in Int /\ s \in Seq(Units)
  BY DEF Streams
<1>2. \A i \in n + 1 .. Len(s) : s[i] \in Units
  BY <1>1
<1>3. /\ SubSeq(s, n + 1, Len(s)) \in Seq(Units)
      /\ Len(SubSeq(s, n + 1, Len(s))) = IF n + 1 <= Len(s) THEN Len(s) - (n + 1) + 1 ELSE 0
      /\ \A i \in 1 .. Len(s) - (n + 1) + 1 : SubSeq(s, n + 1, Len(s))[i] = s[(n + 1) + i - 1]
  BY <1>1, <1>2, SubSeqProperties
<1>4. n = 0 => Without(s, n) = s
  BY <1>1, SubSeqFull DEF Without
<1>5. n = Len(s) => Without(s, n) = <<>>
  BY <1>1, SubSeqEmpty DEF Without
<1> QED BY <1>1, <1>3, <1>4, <1>5 DEF Without, Streams

-------------------------------------------------------------------------------
\* Messages.
LEMMA RestsAre ==
    ASSUME NEW n \in Nat
    PROVE  Rests(n) \in Streams /\ Len(Rests(n)) = n
BY UnitTypes DEF Rests, Streams

\* n units of which the first is u.
LEMMA Led ==
    ASSUME NEW u \in Units, NEW n \in Nat, n > 0
    PROVE  /\ <<u>> \o Rests(n - 1) \in Streams /\ Len(<<u>> \o Rests(n - 1)) = n
           /\ (<<u>> \o Rests(n - 1))[1] = u
<1>1. <<u>> \in Streams /\ Len(<<u>>) = 1 /\ <<u>>[1] = u
  BY DEF Streams
<1>2. n - 1 \in Nat /\ Rests(n - 1) \in Streams /\ Len(Rests(n - 1)) = n - 1
  BY RestsAre
<1> HIDE DEF Streams
<1> QED BY <1>1, <1>2, ConcatProperties DEF Streams

\* A line of text is a whole line that begins with the text.
LEMMA LineIs ==
    ASSUME NEW t \in Requests \cup Careless \cup Replies
    PROVE  Line(t) \in Streams /\ Starts(Line(t), Text(t))
<1>1. LINEMAX \in Nat /\ LINEMAX > 0 /\ Text(t) \in Units
  BY Constants, UnitTypes
<1> QED BY <1>1, Led DEF Line, Starts

\* So is the terminator, the empty line.
LEMMA TerminatorIs ==
    Terminator \in Streams /\ Starts(Terminator, Nul)
<1>1. LINEMAX \in Nat /\ LINEMAX > 0 /\ Nul \in Units
  BY Constants, UnitTypes
<1> QED BY <1>1, Led DEF Terminator, Starts

HeaderLine == <<Text("header")>> \o Rests(HEADER - 1)
\* The header of "ls pathname" is shorter than a line.
LEMMA HeaderIs ==
    HeaderLine \in Streams /\ Header(HeaderLine)
<1>1. HEADER \in Nat /\ HEADER > 0
  BY Constants
<1>2. Text("header") \in Units
  BY UnitTypes DEF Replies
<1> QED BY <1>1, <1>2, Led DEF HeaderLine, Header

\* k lines are whole lines, each of which begins with its text.
LEMMA LinesAre ==
    ASSUME NEW k \in Nat
    PROVE  /\ Lines(k) \in Streams /\ Len(Lines(k)) = k * LINEMAX
           /\ \A j \in 0 .. k - 1 : Lines(k)[j * LINEMAX + 1] = Text("line")
<1>1. k * LINEMAX \in Nat
  BY MultipleIs
<1>2. Text("line") \in Units /\ Rest \in Units
  BY UnitTypes DEF Replies
<1>3. Lines(k) \in Streams /\ Len(Lines(k)) = k * LINEMAX
  BY <1>1, <1>2 DEF Lines, Streams
<1>4. ASSUME NEW j \in 0 .. k - 1
      PROVE  Lines(k)[j * LINEMAX + 1] = Text("line")
  <2>1. j * LINEMAX + 1 \in 1 .. k * LINEMAX
    <3>1. j \in Nat /\ j * LINEMAX \in Nat /\ (k - j) - 1 \in Nat
      BY MultipleIs
    <3>2. ((k - j) - 1) * LINEMAX \in Nat
      BY <3>1, MultipleIs
    <3>3. k * LINEMAX = ((j * LINEMAX) + ((k - j) - 1) * LINEMAX) + LINEMAX
      BY <3>1, Constants
    <3> QED BY <3>1, <3>2, <3>3, <1>1, Constants
  <2>2. (j * LINEMAX + 1) % LINEMAX = 1
    BY FirstOfLine
  <2> QED BY <2>1, <2>2 DEF Lines
<1> QED BY <1>3, <1>4

\* A read that is not cut short.
LEMMA ReadAll ==
    ASSUME NEW c, NEW s \in Streams, NEW want \in Nat, NEW n \in Amounts(c, s, want)
    PROVE  /\ n \in 1 .. Len(s) /\ n <= want
           /\ Cut(s, want, n) = {} => n = Least(want, Len(s))
<1>1. Len(s) \in Nat
  BY DEF Streams
<1>2. Least(want, Len(s)) \in Nat /\ Least(want, Len(s)) <= want /\ Least(want, Len(s)) <= Len(s)
  BY <1>1 DEF Least
<1>3. n \in 1 .. Least(want, Len(s))
  BY <1>1, <1>2 DEF Amounts
<1>4. Cut(s, want, n) = {} => ~(n < Least(want, Len(s)))
  BY Zenon DEF Cut
<1> QED BY <1>1, <1>2, <1>3, <1>4

-------------------------------------------------------------------------------
\* The exchange of messages, a step of the child at a time.
\* Where the client is while the child is busy.
LEMMA Where ==
    ASSUME NEW where \in ClientPcs, where # "gone", NEW skip \in 0 .. 3, NEW n \in 0 .. MaxSize,
           NEW pc, NEW left \in 0 .. MaxSize, NEW up \in Streams, NEW dn \in Streams,
           BothSides(where, skip, n, pc, left, up, dn)
    PROVE  /\ pc \in {"text", "ls", "rm"} => where = "reply" /\ Len(up) = 0 /\ Len(dn) = 0
           /\ pc = "listing" => where = "reply" /\ Len(up) = 0 /\ (Len(dn) = 0 \/ Header(dn))
           /\ pc = "bad" => where = "skip" /\ skip = 2 /\ Len(up) = 0 /\ Len(dn) = 0
           /\ pc \in {"get.open", "get.stat"} => where = "get.reply" /\ Len(up) = 0 /\ Len(dn) = 0
           /\ pc \in {"put.check", "put.open"} => where = "put.reply" /\ Len(up) = 0 /\ Len(dn) = 0
           /\ pc # "gone"
<1>0. Len(up) \in Nat /\ Len(dn) \in Nat
  BY DEF Streams
<1>1. CASE where = "reply"
  BY <1>0, <1>1 DEF BothSides, InReply
<1>2. CASE where = "skip"
  BY <1>0, <1>2 DEF BothSides, InSkip, Putting
<1>3. CASE where = "get.reply"
  BY <1>0, <1>3 DEF BothSides, InGetReply, GettingAhead, Getting
<1>4. CASE where \in {"get.length", "get.data"}
  BY <1>0, <1>4 DEF BothSides, GettingAhead, Getting
<1>5. CASE where = "put.reply"
  BY <1>0, <1>5 DEF BothSides, InPutReply
<1>6. CASE where = "put.data"
  BY <1>0, <1>6 DEF BothSides, InPutData, Putting
<1>7. CASE where \in {"prompt", "garbled"}
  BY <1>0, <1>7 DEF BothSides
<1> QED BY <1>1, <1>2, <1>3, <1>4, <1>5, <1>6, <1>7 DEF ClientPcs

\* Where the child is not while the client is there.
LEMMA Nowhere ==
    ASSUME NEW where \in ClientPcs, where # "gone", NEW skip \in 0 .. 3, NEW n \in 0 .. MaxSize,
           NEW pc, NEW left \in 0 .. MaxSize, NEW up \in Streams, NEW dn \in Streams,
           BothSides(where, skip, n, pc, left, up, dn)
    PROVE  pc \notin {"stale", "get nothing", "put nothing"}
<1>1. CASE where \in {"reply", "skip"}
  BY <1>1 DEF BothSides, InReply, InSkip, Putting
<1>2. CASE where \in {"get.reply", "get.length", "get.data"}
  BY <1>2 DEF BothSides, InGetReply, GettingAhead, Getting
<1>3. CASE where \in {"put.reply", "put.data"}
  BY <1>3 DEF BothSides, InPutReply, InPutData, Putting
<1>4. CASE where \in {"prompt", "garbled"}
  BY <1>4 DEF BothSides
<1> QED BY <1>1, <1>2, <1>3, <1>4 DEF ClientPcs

\* Where each request takes the child.
LEMMA HandlerIs ==
    /\ \A t \in {"text", "ls", "rm", "bad"} : Handler(t) = t
    /\ \A t \in {"get", "cat"} : Handler(t) = "get.open"
    /\ Handler("put") = "put.check" /\ Handler("quit") = "gone"
    /\ \A t \in Requests :
        Handler(t) \in {"text", "ls", "rm", "bad", "get.open", "put.check", "gone"}
    /\ \A t : Handler(t) \in {"text", "ls", "rm", "bad", "get.open", "put.check", "gone",
                             "get nothing", "put nothing", "garbled"}
<1>1. \A t \in {"text", "ls", "rm", "bad"} : Handler(t) = t
  BY DEF Handler
<1>2. \A t \in {"get", "cat"} : Handler(t) = "get.open"
  BY DEF Handler
<1>3. Handler("put") = "put.check" /\ Handler("quit") = "gone"
  BY DEF Handler
<1>4. \A t \in Requests :
        Handler(t) \in {"text", "ls", "rm", "bad", "get.open", "put.check", "gone"}
  BY <1>1, <1>2, <1>3 DEF Requests
<1>5. \A t : Handler(t) \in {"text", "ls", "rm", "bad", "get.open", "put.check", "gone",
                            "get nothing", "put nothing", "garbled"}
  BY DEF Handler
<1> QED BY <1>1, <1>2, <1>3, <1>4, <1>5

\* The child has read a request.
LEMMA AfterRequest ==
    ASSUME NEW where \in ClientPcs, where # "gone", NEW skip \in 0 .. 3, NEW n \in 0 .. MaxSize,
           NEW left \in 0 .. MaxSize, NEW up \in Streams, NEW dn \in Streams,
           BothSides(where, skip, n, "request", left, up, dn),
           NEW t \in Requests, Starts(up, Text(t)), NEW rest \in Streams, Len(rest) = 0
    PROVE  BothSides(where, skip, n, Handler(t), left, rest, dn)
<1>0. Len(up) = LINEMAX /\ LINEMAX > 1 /\ LINEMAX \in Nat /\ Len(dn) \in Nat
  BY Constants DEF Streams, Starts
<1>1. \A r : Starts(up, Text(r)) => r = t
  <2>1. ASSUME NEW r, Text(r) = Text(t) PROVE r = t
    <3>1. Text(r).val = r /\ Text(t).val = t
      BY Kinds
    <3> QED BY <2>1, <3>1
  <2> QED BY <2>1 DEF Starts
<1>2. CASE where = "reply"
  <2>1. t \in {"text", "ls", "rm"} /\ Len(dn) = 0
    BY <1>0, <1>1, <1>2 DEF BothSides, InReply
  <2> QED BY <1>2, <2>1, HandlerIs DEF BothSides, InReply
<1>3. CASE where = "skip"
  <2>1. t = "bad" /\ Len(dn) = 0 /\ skip = 2
    BY <1>0, <1>1, <1>3 DEF BothSides, InSkip, Putting
  <2> QED BY <1>3, <2>1, HandlerIs DEF BothSides, InSkip
<1>4. CASE where = "get.reply"
  <2>1. t \in {"get", "cat"} /\ Len(dn) = 0
    BY <1>0, <1>1, <1>4 DEF BothSides, InGetReply
  <2> QED BY <1>4, <2>1, HandlerIs DEF BothSides, InGetReply
<1>5. CASE where = "put.reply"
  <2>1. t = "put" /\ Len(dn) = 0
    BY <1>0, <1>1, <1>5 DEF BothSides, InPutReply
  <2> QED BY <1>5, <2>1, HandlerIs DEF BothSides, InPutReply
<1>6. where \notin {"get.length", "get.data", "put.data", "prompt", "garbled"}
  BY <1>0 DEF BothSides, InPutData, Putting
<1> QED BY <1>2, <1>3, <1>4, <1>5, <1>6 DEF ClientPcs

\* The child has sent lines and the terminator, or their header.
LEMMA AfterLines ==
    ASSUME NEW skip \in 0 .. 3, NEW n \in 0 .. MaxSize, NEW left \in 0 .. MaxSize,
           NEW up \in Streams, NEW dn \in Streams, Len(up) = 0, Listing(dn) \/ Headed(dn)
    PROVE  BothSides("reply", skip, n, "request", left, up, dn)
BY DEF BothSides, InReply

\* Lines and the terminator are a listing.
LEMMA ListingIs ==
    ASSUME NEW k \in Nat
    PROVE  /\ Lines(k) \o Terminator \in Streams
           /\ Listing(Lines(k) \o Terminator)
<1> DEFINE s == Lines(k) \o Terminator
<1>1. /\ Lines(k) \in Streams /\ Terminator \in Streams /\ Terminator[1] = Nul
      /\ Len(Lines(k)) = k * LINEMAX /\ Len(Terminator) = LINEMAX /\ k * LINEMAX \in Nat
  BY LinesAre, TerminatorIs, MultipleIs DEF Starts
<1>2. /\ s \in Streams /\ Len(s) = k * LINEMAX + LINEMAX
      /\ \A i \in 1 .. k * LINEMAX : s[i] = Lines(k)[i]
      /\ s[k * LINEMAX + 1] = Nul
  <2>1. /\ s \in Streams /\ Len(s) = Len(Lines(k)) + Len(Terminator)
        /\ \A i \in 1 .. Len(s) : s[i] = IF i <= Len(Lines(k)) THEN Lines(k)[i]
                                         ELSE Terminator[i - Len(Lines(k))]
    BY <1>1, ConcatProperties DEF Streams
  <2> HIDE DEF s
  <2> QED BY <1>1, <2>1, Constants
<1>3. (k + 1) * LINEMAX = k * LINEMAX + LINEMAX /\ k \in 0 .. k * LINEMAX + LINEMAX
  BY <1>1, MultipleIs, Constants
<1>4. ASSUME NEW j \in 0 .. k
      PROVE  s[j * LINEMAX + 1] = IF j = k THEN Nul ELSE Text("line")
  <2>1. CASE j = k
    BY <1>2, <2>1
  <2>2. CASE j # k
    <3>1. j \in 0 .. k - 1 /\ j \in Nat /\ (k - j) - 1 \in Nat
      BY <2>2
    <3>2. j * LINEMAX \in Nat /\ ((k - j) - 1) * LINEMAX \in Nat
      BY <3>1, MultipleIs
    <3>3. k * LINEMAX = ((j * LINEMAX) + ((k - j) - 1) * LINEMAX) + LINEMAX
      BY <3>1, Constants
    <3>4. j * LINEMAX + 1 \in 1 .. k * LINEMAX
      BY <3>2, <3>3, <1>1, Constants
    <3> HIDE DEF s
    <3> QED BY <2>2, <3>1, <3>4, <1>2, LinesAre
  <2> QED BY <2>1, <2>2
<1> HIDE DEF s
<1>5. Listing(s)
  BY <1>2, <1>3, <1>4 DEF Listing
<1> QED BY <1>2, <1>5 DEF s

\* The child of an unknown command has sent a line and the terminator.
LEMMA AfterNotFound ==
    ASSUME NEW n \in 0 .. MaxSize, NEW left \in 0 .. MaxSize,
           NEW up \in Streams, NEW dn \in Streams, NEW skip \in 0 .. 3,
           Len(up) = 0, Len(dn) = skip * LINEMAX
    PROVE  BothSides("skip", skip, n, "request", left, up, dn)
BY DEF BothSides, InSkip

\* get: the file is not there.
LEMMA AfterGetError ==
    ASSUME NEW n \in 0 .. MaxSize, NEW left \in 0 .. MaxSize,
           NEW up \in Streams, NEW dn \in Streams, NEW skip \in 0 .. 3,
           Len(up) = 0, Len(dn) = 4 * LINEMAX, dn[1] = Text("Error")
    PROVE  BothSides("get.reply", skip, n, "request", left, up, dn)
BY DEF BothSides, InGetReply

\* A line and something more.
LEMMA LineAnd ==
    ASSUME NEW t \in Requests \cup Careless \cup Replies, NEW s \in Streams
    PROVE  /\ Line(t) \o s \in Streams /\ Len(Line(t) \o s) = LINEMAX + Len(s)
           /\ (Line(t) \o s)[1] = Text(t)
           /\ Len(s) > 0 => (Line(t) \o s)[LINEMAX + 1] = s[1]
<1>1. /\ Line(t) \in Streams /\ Len(Line(t)) = LINEMAX /\ Line(t)[1] = Text(t)
  BY LineIs DEF Starts
<1>2. /\ Line(t) \o s \in Streams /\ Len(Line(t) \o s) = Len(Line(t)) + Len(s)
      /\ \A i \in 1 .. Len(Line(t) \o s) : (Line(t) \o s)[i] =
            IF i <= Len(Line(t)) THEN Line(t)[i] ELSE s[i - Len(Line(t))]
  BY <1>1, ConcatProperties DEF Streams
<1>3. Len(s) \in Nat
  BY DEF Streams
<1> QED BY <1>1, <1>2, <1>3, Constants

ErrorLines == Line("Error") \o Lines(2) \o Terminator
\* The three lines of the error and the terminator are four whole lines.
LEMMA ErrorLinesAre ==
    ErrorLines \in Streams /\ Len(ErrorLines) = 4 * LINEMAX /\ ErrorLines[1] = Text("Error")
<1> DEFINE s == Line("Error") \o Lines(2)
<1>1. /\ Line("Error") \in Streams /\ Len(Line("Error")) = LINEMAX
      /\ Line("Error")[1] = Text("Error")
      /\ Lines(2) \in Streams /\ Len(Lines(2)) = 2 * LINEMAX
      /\ Terminator \in Streams /\ Len(Terminator) = LINEMAX
  BY LineIs, LinesAre, TerminatorIs DEF Starts, Replies
<1>2. s \in Streams /\ Len(s) = 3 * LINEMAX /\ s[1] = Text("Error")
  <2>1. s \in Streams /\ Len(s) = LINEMAX + 2 * LINEMAX /\ s[1] = Text("Error")
    BY <1>1, LineAnd DEF Replies
  <2> QED BY <2>1, Constants
<1> HIDE DEF s
<1>3. /\ s \o Terminator \in Streams /\ Len(s \o Terminator) = Len(s) + Len(Terminator)
      /\ \A i \in 1 .. Len(s \o Terminator) : (s \o Terminator)[i] =
            IF i <= Len(s) THEN s[i] ELSE Terminator[i - Len(s)]
  BY <1>1, <1>2, ConcatProperties DEF Streams
<1>4. ErrorLines = s \o Terminator
  BY DEF ErrorLines, s
<1> HIDE DEF ErrorLines
<1> QED BY <1>1, <1>2, <1>3, <1>4, Constants

\* get: the reply and the length.
LEMMA AfterFound ==
    ASSUME NEW n \in 0 .. MaxSize, NEW left \in 0 .. MaxSize,
           NEW up \in Streams, NEW dn \in Streams, NEW skip \in 0 .. 3, Len(up) = 0,
           dn[1] = Text("found"), Len(dn) = LINEMAX + 1, dn[LINEMAX + 1] = Long(left)
    PROVE  BothSides("get.reply", skip, n, "get.data", left, up, dn)
<1>1. Len(dn) > LINEMAX /\ Len(dn) - (LINEMAX + 1) = 0
  BY Constants
<1>2. Getting("get.data", left, Len(dn) - (LINEMAX + 1), left)
  BY <1>1, MultipleOfNone DEF Getting
<1>3. GettingAhead("get.data", left, dn, LINEMAX)
  BY <1>1, <1>2 DEF GettingAhead
<1> QED BY <1>3 DEF BothSides, InGetReply

\* A write puts its units behind those that are in the connection.
LEMMA Joined ==
    ASSUME NEW x \in Streams, NEW y \in Streams
    PROVE  /\ x \o y \in Streams /\ Len(x \o y) = Len(x) + Len(y)
           /\ Len(x) \in Nat /\ Len(y) \in Nat
           /\ \A i \in 1 .. Len(x) : (x \o y)[i] = x[i]
           /\ \A i \in 1 .. Len(y) : (x \o y)[Len(x) + i] = y[i]
<1>1. /\ x \o y \in Streams /\ Len(x \o y) = Len(x) + Len(y)
      /\ \A i \in 1 .. Len(x \o y) : (x \o y)[i] = IF i <= Len(x) THEN x[i] ELSE y[i - Len(x)]
  BY ConcatProperties DEF Streams
<1>2. Len(x) \in Nat /\ Len(y) \in Nat
  BY DEF Streams
<1>3. ASSUME NEW i \in 1 .. Len(y)
      PROVE  (x \o y)[Len(x) + i] = y[i]
  <2>1. Len(x) + i \in 1 .. Len(x \o y) /\ ~(Len(x) + i <= Len(x)) /\ (Len(x) + i) - Len(x) = i
    BY <1>1, <1>2
  <2> QED BY <1>1, <2>1
<1> QED BY <1>1, <1>2, <1>3

\* get: the child has sent more of the file, s, or all of it and the terminator.
LEMMA GettingMore ==
    ASSUME NEW left \in 0 .. MaxSize, NEW more \in {LINEMAX, left + LINEMAX},
           NEW pc, NEW rest \in Nat,
           \/ pc = "get.data" /\ more = LINEMAX /\ rest = left - LINEMAX
           \/ pc = "request" /\ more = left + LINEMAX
    PROVE  /\ \A have, m \in Nat :
                Getting("get.data", left, have, m) => Getting(pc, rest, have + more, m)
           /\ \A dn, s \in Streams : \A k \in Nat :
                GettingAhead("get.data", left, dn, k) /\ Len(s) = more =>
                    GettingAhead(pc, rest, dn \o s, k)
<1>0. LINEMAX \in Nat /\ more \in Nat /\ MaxSize \in Nat
  BY Constants
<1>1. ASSUME NEW have \in Nat, NEW m \in Nat, Getting("get.data", left, have, m)
      PROVE  Getting(pc, rest, have + more, m)
  <2>1. m = have + left /\ Multiple(have)
    BY <1>1 DEF Getting
  <2>2. CASE pc = "get.data"
    <3>1. Multiple(have + LINEMAX)
      BY <2>1, MultipleUp
    <3> QED BY <1>0, <2>1, <2>2, <3>1 DEF Getting
  <2>3. CASE pc = "request"
    BY <1>0, <2>1, <2>3 DEF Getting
  <2> QED BY <2>2, <2>3
<1>2. ASSUME NEW dn \in Streams, NEW s \in Streams, NEW k \in Nat,
             GettingAhead("get.data", left, dn, k), Len(s) = more
      PROVE  GettingAhead(pc, rest, dn \o s, k)
  <2>1. PICK m \in 0 .. MaxSize :
            Len(dn) > k /\ dn[k + 1] = Long(m) /\ Getting("get.data", left, Len(dn) - (k + 1), m)
    BY <1>2 DEF GettingAhead
  <2>2. /\ Len(dn) \in Nat /\ Len(dn \o s) = Len(dn) + more
        /\ (dn \o s)[k + 1] = dn[k + 1]
    <3>1. Len(dn) \in Nat /\ Len(dn \o s) = Len(dn) + more
      BY <1>2, Joined
    <3>2. k + 1 \in 1 .. Len(dn)
      BY <2>1, <3>1
    <3> QED BY <3>1, <3>2, Joined
  <2>3. Len(dn) - (k + 1) \in Nat /\ m \in Nat
    BY <2>1, <2>2, <1>0
  <2>4. Getting(pc, rest, (Len(dn) - (k + 1)) + more, m)
    BY <1>1, <2>1, <2>3
  <2>5. (Len(dn) - (k + 1)) + more = Len(dn \o s) - (k + 1) /\ Len(dn \o s) > k
    BY <1>0, <2>1, <2>2
  <2> HIDE DEF Getting
  <2> QED BY <2>1, <2>2, <2>4, <2>5 DEF GettingAhead
<1> QED BY <1>1, <1>2

\* After units of the file have been sent, with or without the terminator, wherever
\* the client is in its get.
LEMMA AfterData ==
    ASSUME NEW where \in ClientPcs, where # "gone", NEW skip \in 0 .. 3, NEW n \in 0 .. MaxSize,
           NEW left \in 0 .. MaxSize, NEW up \in Streams, NEW dn \in Streams,
           BothSides(where, skip, n, "get.data", left, up, dn),
           NEW s \in Streams, NEW pc, NEW rest \in Nat,
           \/ pc = "get.data" /\ left > LINEMAX /\ Len(s) = LINEMAX /\ rest = left - LINEMAX
           \/ pc = "request" /\ Len(s) = left + LINEMAX
    PROVE  BothSides(where, skip, n, pc, rest, up, dn \o s)
<1>0. /\ LINEMAX \in Nat /\ MaxSize \in Nat /\ LINEMAX > 1 /\ Len(s) \in {LINEMAX, left + LINEMAX}
      /\ Len(dn) \in Nat /\ Len(dn \o s) = Len(dn) + Len(s)
      /\ Len(dn) > 0 => (dn \o s)[1] = dn[1]
      /\ n \in Nat
  BY Constants, Joined
<1>1. /\ Getting("get.data", left, Len(dn), n) => Getting(pc, rest, Len(dn \o s), n)
      /\ GettingAhead("get.data", left, dn, 0) => GettingAhead(pc, rest, dn \o s, 0)
      /\ GettingAhead("get.data", left, dn, LINEMAX) => GettingAhead(pc, rest, dn \o s, LINEMAX)
  BY <1>0, GettingMore
<1>2. CASE where = "skip"
  <2>1. skip = 1 /\ left = 0 /\ Len(dn) = 0 /\ Len(up) = 0
    BY <1>2 DEF BothSides, InSkip, Putting
  <2>2. pc = "request" /\ Len(dn \o s) = skip * LINEMAX
    BY <1>0, <2>1
  <2> QED BY <1>2, <2>1, <2>2 DEF BothSides, InSkip
<1>3. CASE where = "get.reply"
  <2>1. Len(up) = 0 /\ dn[1] = Text("found") /\ GettingAhead("get.data", left, dn, LINEMAX)
    BY <1>3 DEF BothSides, InGetReply
  <2>2. Len(dn) > 0
    BY <2>1, <1>0 DEF GettingAhead
  <2> QED BY <1>0, <1>1, <1>3, <2>1, <2>2 DEF BothSides, InGetReply
<1>4. CASE where = "get.length"
  BY <1>1, <1>4 DEF BothSides
<1>5. CASE where = "get.data"
  BY <1>1, <1>5 DEF BothSides
<1>6. where \notin {"reply", "put.reply", "put.data", "prompt", "garbled"}
  BY DEF BothSides, InReply, InPutReply, InPutData, Putting
<1> QED BY <1>2, <1>3, <1>4, <1>5, <1>6 DEF ClientPcs

-------------------------------------------------------------------------------
\* The child has read the line or the length.
LEMMA AfterAhead ==
    ASSUME NEW up \in Streams, NEW k \in Nat, NEW want \in Nat, NEW n \in Nat,
           Ahead(up, k, n), want <= k
    PROVE  Without(up, want) \in Streams /\ Ahead(Without(up, want), k - want, n)
<1>1. PICK m \in 0 .. MaxSize : up[k + 1] = Long(m) /\ m = Len(up) - (k + 1) + n
  BY DEF Ahead
<1>2. Len(up) \in Nat /\ Len(up) > k /\ want \in 0 .. Len(up)
  BY DEF Ahead, Streams
<1>3. /\ Without(up, want) \in Streams /\ Len(Without(up, want)) = Len(up) - want
      /\ \A i \in 1 .. Len(up) - want : Without(up, want)[i] = up[want + i]
  BY <1>2, Taken
<1>4. (k - want) + 1 \in 1 .. Len(up) - want /\ want + ((k - want) + 1) = k + 1
  BY <1>2
<1>5. Without(up, want)[(k - want) + 1] = Long(m)
  BY <1>1, <1>3, <1>4
<1>6. Len(Without(up, want)) - ((k - want) + 1) = Len(up) - (k + 1)
  BY <1>2, <1>3
<1>7. Len(Without(up, want)) > k - want
  BY <1>2, <1>3
<1>8. n > 0 => Multiple(Len(up) - (k + 1))
  BY DEF Ahead
<1> QED BY <1>1, <1>3, <1>5, <1>6, <1>7, <1>8 DEF Ahead

\* The line "ready to send file" has been read.
LEMMA PuttingReady ==
    ASSUME NEW n \in Nat, NEW left, NEW up \in Streams, Putting("put.ready", left, up, n)
    PROVE  Len(up) > LINEMAX /\ Putting("put.length", left, Without(up, LINEMAX), n)
<1>1. Ahead(up, LINEMAX, n)
  BY DEF Putting
<1>2. Ahead(Without(up, LINEMAX), LINEMAX - LINEMAX, n) /\ LINEMAX - LINEMAX = 0
  BY <1>1, AfterAhead, Constants
<1> QED BY <1>1, <1>2 DEF Putting, Ahead

\* The length has been read, and is the length of what follows.
LEMMA PuttingLength ==
    ASSUME NEW n \in Nat, NEW left, NEW up \in Streams, Putting("put.length", left, up, n)
    PROVE  /\ Len(up) > 0 /\ up[1].kind = "long"
           /\ Putting("put.data", up[1].val, Without(up, 1), n)
<1>1. Ahead(up, 0, n)
  BY DEF Putting
<1>2. PICK m \in 0 .. MaxSize : up[1] = Long(m) /\ m = Len(up) - (0 + 1) + n
  BY <1>1 DEF Ahead
<1>3. Len(up) > 0 /\ Len(up) \in Nat /\ 1 \in 0 .. Len(up)
  BY <1>1 DEF Ahead, Streams
<1>4. Len(Without(up, 1)) = Len(up) - 1
  BY <1>3, Taken
<1>5. up[1].kind = "long" /\ up[1].val = m
  BY <1>2, Kinds
<1>6. n > 0 => Multiple(Len(up) - 1)
  BY <1>1 DEF Ahead
<1>7. m = Len(Without(up, 1)) + n
  BY <1>2, <1>3, <1>4
<1> QED BY <1>3, <1>4, <1>5, <1>6, <1>7 DEF Putting

\* Units of the file have been read: a whole line, or all that are left.
LEMMA PuttingData ==
    ASSUME NEW n \in Nat, NEW left \in Nat, NEW up \in Streams, Putting("put.data", left, up, n)
    PROVE  /\ left > LINEMAX /\ Len(up) > 0 =>
                Len(up) >= LINEMAX /\ Putting("put.data", left - LINEMAX, Without(up, LINEMAX), n)
           /\ left <= LINEMAX /\ (left = 0 \/ Len(up) > 0) => n = 0 /\ Len(up) = left
<1>1. left = Len(up) + n /\ (n > 0 => Multiple(Len(up))) /\ Len(up) \in Nat
  BY DEF Putting, Streams
<1>2. n > 0 /\ Len(up) > 0 => Len(up) >= LINEMAX /\ Multiple(Len(up) - LINEMAX)
  BY <1>1, MultipleDown
<1>3. ASSUME left > LINEMAX, Len(up) > 0
      PROVE  Len(up) >= LINEMAX /\ Putting("put.data", left - LINEMAX, Without(up, LINEMAX), n)
  <2>1. Len(up) >= LINEMAX /\ LINEMAX \in 0 .. Len(up)
    BY <1>1, <1>2, <1>3, Constants
  <2>2. Len(Without(up, LINEMAX)) = Len(up) - LINEMAX
    BY <2>1, Taken
  <2>3. left - LINEMAX = (Len(up) - LINEMAX) + n
    BY <1>1, Constants
  <2>4. n > 0 => Multiple(Len(up) - LINEMAX)
    BY <1>2, <1>3
  <2> QED BY <2>1, <2>2, <2>3, <2>4 DEF Putting
<1>4. ASSUME left <= LINEMAX, left = 0 \/ Len(up) > 0
      PROVE  n = 0 /\ Len(up) = left
  BY <1>1, <1>2, <1>4, Constants
<1> QED BY <1>3, <1>4

\* A step of put by the child, which the client does not see.
LEMMA AfterPutStep ==
    ASSUME NEW where \in ClientPcs, where # "gone", NEW skip \in 0 .. 3, NEW n \in 0 .. MaxSize,
           NEW pc \in {"put.ready", "put.length", "put.data"}, NEW left, NEW up, NEW dn,
           BothSides(where, skip, n, pc, left, up, dn), pc = "put.ready" => Len(up) # 0,
           NEW pc2, NEW left2, NEW up2,
           \A m \in Nat : Putting(pc, left, up, m) => Putting(pc2, left2, up2, m)
    PROVE  BothSides(where, skip, n, pc2, left2, up2, dn)
<1>0. n \in Nat /\ 0 \in Nat
  BY Constants
<1>1. CASE where = "skip"
  BY <1>0, <1>1 DEF BothSides, InSkip
<1>2. CASE where = "put.data"
  BY <1>0, <1>2 DEF BothSides, InPutData
<1>3. where \notin {"reply", "get.reply", "get.length", "get.data", "put.reply", "prompt", "garbled"}
  BY DEF BothSides, InReply, InGetReply, GettingAhead, Getting, InPutReply
<1> QED BY <1>1, <1>2, <1>3 DEF ClientPcs

\* The child has written the last part of the file, and sends the terminator.
LEMMA AfterPutLast ==
    ASSUME NEW where \in ClientPcs, where # "gone", NEW skip \in 0 .. 3, NEW n \in 0 .. MaxSize,
           NEW left \in Nat, NEW up \in Streams, NEW dn \in Streams,
           BothSides(where, skip, n, "put.data", left, up, dn),
           left <= LINEMAX, left = 0 \/ Len(up) > 0,
           NEW left2, NEW rest \in Streams, NEW s \in Streams,
           Len(rest) = 0, Len(s) = LINEMAX
    PROVE  Len(up) = left /\ BothSides(where, skip, n, "request", left2, rest, dn \o s)
<1>0. n \in Nat /\ 0 \in Nat /\ LINEMAX \in Nat /\ Len(dn \o s) = Len(dn) + Len(s)
  <2>1. Len(dn \o s) = Len(dn) + Len(s)
    BY Joined
  <2> QED BY <2>1, Constants
<1>1. \A m \in Nat : Putting("put.data", left, up, m) => m = 0 /\ Len(up) = left
  BY PuttingData
<1>2. CASE where = "skip"
  <2>1. skip = 1 /\ Len(dn) = 0 /\ Putting("put.data", left, up, 0)
    BY <1>2 DEF BothSides, InSkip
  <2>2. Len(up) = left /\ Len(dn \o s) = skip * LINEMAX
    BY <1>0, <1>1, <2>1
  <2> QED BY <1>2, <2>2 DEF BothSides, InSkip
<1>3. CASE where = "put.data"
  <2>1. Len(dn) = 0 /\ Putting("put.data", left, up, n)
    BY <1>3 DEF BothSides, InPutData
  <2>2. n = 0 /\ Len(up) = left /\ Len(dn \o s) = LINEMAX
    BY <1>0, <1>1, <2>1
  <2> QED BY <1>3, <2>2 DEF BothSides, InPutData
<1>4. where \notin {"reply", "get.reply", "get.length", "get.data", "put.reply", "prompt", "garbled"}
  BY DEF BothSides, InReply, InGetReply, GettingAhead, Getting, InPutReply
<1> QED BY <1>2, <1>3, <1>4 DEF ClientPcs

-------------------------------------------------------------------------------
\* The exchange of messages, a step of the client at a time.

\* A listing has a line to read, which is the terminator only when it is the last.
LEMMA ListingRead ==
    ASSUME NEW s \in Streams, Listing(s)
    PROVE  /\ Len(s) >= LINEMAX
           /\ \/ s[1].kind = "text" /\ Listing(Without(s, LINEMAX))
              \/ s[1].kind = "nul" /\ Len(Without(s, LINEMAX)) = 0
<1>0. Len(s) \in Nat /\ LINEMAX \in Nat /\ LINEMAX > 1
  BY Constants DEF Streams
<1>1. PICK k \in 0 .. Len(s) :
        /\ Len(s) = (k + 1) * LINEMAX
        /\ \A j \in 0 .. k : s[j * LINEMAX + 1] = IF j = k THEN Nul ELSE Text("line")
  BY DEF Listing
<1>2. k \in Nat /\ k * LINEMAX \in Nat /\ k <= k * LINEMAX /\ Len(s) = k * LINEMAX + LINEMAX
  <2>1. k \in Nat
    BY <1>0
  <2>2. k * LINEMAX \in Nat /\ k <= k * LINEMAX
    BY <2>1, MultipleIs
  <2> QED BY <1>0, <1>1, <2>1, <2>2
<1>3. LINEMAX \in 0 .. Len(s)
  BY <1>0, <1>2
<1>4. /\ Without(s, LINEMAX) \in Streams /\ Len(Without(s, LINEMAX)) = k * LINEMAX
      /\ \A i \in 1 .. k * LINEMAX : Without(s, LINEMAX)[i] = s[LINEMAX + i]
  <2>1. Len(s) - LINEMAX = k * LINEMAX
    BY <1>0, <1>2
  <2> QED BY <1>3, <2>1, Taken
<1>5. 0 \in 0 .. k /\ 0 * LINEMAX + 1 = 1
  BY <1>0, <1>2
<1>6. CASE k = 0
  <2>1. s[1] = Nul
    BY <1>1, <1>5, <1>6
  <2>2. k * LINEMAX = 0
    BY <1>0, <1>6
  <2> QED BY <1>0, <1>2, <1>4, <2>1, <2>2, Kinds
<1>7. CASE k # 0
  <2>1. s[1] = Text("line")
    BY <1>1, <1>5, <1>7
  <2>2. k - 1 \in 0 .. k * LINEMAX /\ k * LINEMAX = ((k - 1) + 1) * LINEMAX
    BY <1>2, <1>7
  <2>3. ASSUME NEW j \in 0 .. k - 1
        PROVE  Without(s, LINEMAX)[j * LINEMAX + 1] = IF j = k - 1 THEN Nul ELSE Text("line")
    <3>1. j \in Nat /\ j + 1 \in 0 .. k /\ (k - j) - 1 \in Nat /\ (j + 1 = k <=> j = k - 1)
      BY <1>2
    <3>2. j * LINEMAX \in Nat /\ ((k - j) - 1) * LINEMAX \in Nat
      BY <3>1, MultipleIs
    <3>3. k * LINEMAX = ((j * LINEMAX) + ((k - j) - 1) * LINEMAX) + LINEMAX
      BY <1>0, <1>2, <3>1
    <3>4. j * LINEMAX + 1 \in 1 .. k * LINEMAX
      BY <1>0, <1>2, <3>2, <3>3
    <3>5. (j + 1) * LINEMAX + 1 = LINEMAX + (j * LINEMAX + 1)
      BY <1>0, <3>1
    <3>6. s[(j + 1) * LINEMAX + 1] = IF j + 1 = k THEN Nul ELSE Text("line")
      BY <1>1, <3>1
    <3> QED BY <1>4, <3>1, <3>4, <3>5, <3>6
  <2>4. Listing(Without(s, LINEMAX))
    BY <1>4, <2>2, <2>3 DEF Listing
  <2> QED BY <1>0, <1>2, <2>1, <2>4, Kinds
<1> QED BY <1>6, <1>7

\* After the client has read a line of a reply.
LEMMA AfterReadLines ==
    ASSUME NEW skip \in 0 .. 3, NEW n \in 0 .. MaxSize, NEW skip2, NEW n2,
           NEW pc, NEW left \in 0 .. MaxSize, NEW up \in Streams, NEW dn \in Streams,
           BothSides("reply", skip, n, pc, left, up, dn),
           Len(dn) > 0, NEW m, m = Least(LINEMAX, Len(dn)), RanTogether(dn, m) = {}
    PROVE  \/ dn[1].kind = "text" /\ BothSides("reply", skip2, n2, pc, left, up, Without(dn, m))
           \/ dn[1].kind = "nul" /\ BothSides("prompt", skip2, n2, pc, left, up, Without(dn, m))
<1>0. LINEMAX \in Nat /\ Len(dn) \in Nat /\ HEADER \in Nat /\ HEADER < LINEMAX /\ Head(dn) = dn[1]
  BY Constants DEF Streams
<1>1. CASE pc = "listing" /\ Len(up) = 0 /\ Header(dn)
  <2>1. m = Len(dn) /\ m \in 0 .. Len(dn)
    BY <1>0, <1>1 DEF Header, Least
  <2>2. Len(Without(dn, m)) = 0
    BY <1>0, <2>1, Taken
  <2> QED BY <1>1, <2>2, Kinds DEF Header, BothSides, InReply
<1>2. CASE pc = "request" /\ Len(up) = 0 /\ Listing(dn)
  <2>1. m = LINEMAX
    BY <1>0, <1>2, ListingRead DEF Least
  <2> QED BY <1>2, <2>1, ListingRead DEF BothSides, InReply
<1>3. ~Headed(dn)
  <2>1. Headed(dn) => m = LINEMAX
    BY <1>0 DEF Headed, Least
  <2>2. Headed(dn) => RanTogether(dn, m) = {"header"}
    BY <1>0, <2>1 DEF RanTogether, Headed
  <2> QED BY <2>2
<1> QED BY <1>0, <1>1, <1>2, <1>3 DEF BothSides, InReply

\* After it has read a line that it drops.
LEMMA AfterSkip ==
    ASSUME NEW skip \in 0 .. 3, NEW n \in 0 .. MaxSize, NEW n2,
           NEW pc, NEW left \in 0 .. MaxSize, NEW up \in Streams, NEW dn \in Streams,
           BothSides("skip", skip, n, pc, left, up, dn), skip # 0,
           Len(dn) > 0, NEW m, m = Least(LINEMAX, Len(dn))
    PROVE  BothSides(IF skip - 1 = 0 THEN "prompt" ELSE "skip", skip - 1, n2, pc, left, up,
                     Without(dn, m))
<1>0. LINEMAX \in Nat /\ Len(dn) \in Nat
  BY Constants DEF Streams
<1>1. pc = "request" /\ Len(up) = 0 /\ Len(dn) = skip * LINEMAX
  BY <1>0 DEF BothSides, InSkip
<1>2. skip * LINEMAX = (skip - 1) * LINEMAX + LINEMAX /\ (skip - 1) * LINEMAX \in Nat
  <2>1. skip - 1 \in Nat
    OBVIOUS
  <2> QED BY <1>0, <2>1, MultipleIs
<1>3. m = LINEMAX /\ m \in 0 .. Len(dn)
  BY <1>0, <1>1, <1>2 DEF Least
<1>4. Len(Without(dn, m)) = (skip - 1) * LINEMAX
  BY <1>0, <1>1, <1>2, <1>3, Taken
<1>5. CASE skip - 1 = 0
  <2>1. (skip - 1) * LINEMAX = 0
    BY <1>0, <1>5
  <2> QED BY <1>1, <1>4, <1>5, <2>1 DEF BothSides
<1>6. CASE skip - 1 # 0
  BY <1>1, <1>4, <1>6 DEF BothSides, InSkip
<1> QED BY <1>5, <1>6

\* After it has read the first line of the reply to get or cat.
LEMMA AfterGetReply ==
    ASSUME NEW skip \in 0 .. 3, NEW n \in 0 .. MaxSize, NEW n2,
           NEW pc, NEW left \in 0 .. MaxSize, NEW up \in Streams, NEW dn \in Streams,
           BothSides("get.reply", skip, n, pc, left, up, dn),
           Len(dn) > 0, NEW m, m = Least(LINEMAX, Len(dn))
    PROVE  /\ dn[1].kind = "text"
           /\ dn[1] = Text("Error") => BothSides("skip", 3, n2, pc, left, up, Without(dn, m))
           /\ dn[1] # Text("Error") => BothSides("get.length", skip, n2, pc, left, up, Without(dn, m))
<1>0. LINEMAX \in Nat /\ Len(dn) \in Nat
  BY Constants DEF Streams
<1>1. CASE pc = "request" /\ Len(up) = 0 /\ Len(dn) = 4 * LINEMAX /\ dn[1] = Text("Error")
  <2>1. m = LINEMAX /\ m \in 0 .. Len(dn)
    BY <1>0, <1>1 DEF Least
  <2>2. Len(Without(dn, m)) = Len(dn) - m
    BY <2>1, Taken
  <2>3. Len(Without(dn, m)) = 3 * LINEMAX
    BY <1>0, <1>1, <2>1, <2>2
  <2> QED BY <1>1, <2>3, Kinds DEF BothSides, InSkip
<1>2. CASE Len(up) = 0 /\ dn[1] = Text("found") /\ GettingAhead(pc, left, dn, LINEMAX)
  <2>1. PICK size \in 0 .. MaxSize : /\ Len(dn) > LINEMAX /\ dn[LINEMAX + 1] = Long(size)
                                     /\ Getting(pc, left, Len(dn) - (LINEMAX + 1), size)
    BY <1>2 DEF GettingAhead
  <2>2. m = LINEMAX /\ m \in 0 .. Len(dn) /\ 1 \in 1 .. Len(dn) - m
    BY <1>0, <2>1 DEF Least
  <2>3. Len(Without(dn, m)) = Len(dn) - m /\ Without(dn, m)[1] = dn[m + 1]
    BY <2>2, Taken
  <2>4. Len(Without(dn, m)) > 0 /\ Len(Without(dn, m)) - (0 + 1) = Len(dn) - (LINEMAX + 1)
    BY <1>0, <2>1, <2>2, <2>3
  <2>5. GettingAhead(pc, left, Without(dn, m), 0)
    BY <2>1, <2>2, <2>3, <2>4 DEF GettingAhead
  <2>6. dn[1] # Text("Error")
    <3>1. Text("Error").val = "Error" /\ Text("found").val = "found"
      BY Kinds
    <3> QED BY <1>2, <3>1
  <2> QED BY <1>2, <2>5, <2>6, Kinds DEF BothSides
<1> QED BY <1>0, <1>1, <1>2 DEF BothSides, InGetReply

\* After it has read the length.
LEMMA AfterLength ==
    ASSUME NEW skip \in 0 .. 3, NEW n \in 0 .. MaxSize,
           NEW pc, NEW left \in 0 .. MaxSize, NEW up \in Streams, NEW dn \in Streams,
           BothSides("get.length", skip, n, pc, left, up, dn)
    PROVE  /\ dn[1].kind = "long"
           /\ BothSides("get.data", skip, dn[1].val, pc, left, up, Without(dn, 1))
<1>1. PICK size \in 0 .. MaxSize : /\ Len(dn) > 0 /\ dn[1] = Long(size)
                                   /\ Getting(pc, left, Len(dn) - (0 + 1), size)
  BY DEF BothSides, GettingAhead
<1>2. Len(dn) \in Nat
  BY DEF Streams
<1>3. 1 \in 0 .. Len(dn) /\ 0 + 1 = 1
  BY <1>1, <1>2
<1>4. Len(Without(dn, 1)) = Len(dn) - 1
  BY <1>3, Taken
<1>5. dn[1].kind = "long" /\ dn[1].val = size
  BY <1>1, Kinds
<1>6. Len(up) = 0
  BY DEF BothSides
<1> QED BY <1>1, <1>3, <1>4, <1>5, <1>6 DEF BothSides

\* After it has read a line of the file.
LEMMA AfterChunk ==
    ASSUME NEW skip \in 0 .. 3, NEW n \in 0 .. MaxSize,
           NEW pc, NEW left \in 0 .. MaxSize, NEW up \in Streams, NEW dn \in Streams,
           BothSides("get.data", skip, n, pc, left, up, dn),
           n > LINEMAX, Len(dn) > 0, NEW m, m = Least(LINEMAX, Len(dn))
    PROVE  m = LINEMAX /\ BothSides("get.data", skip, n - m, pc, left, up, Without(dn, m))
<1>0. LINEMAX \in Nat /\ Len(dn) \in Nat /\ n \in Nat /\ left \in Nat
  BY Constants DEF Streams
<1>1. Len(up) = 0 /\ Getting(pc, left, Len(dn), n)
  BY DEF BothSides
<1>2. CASE pc = "get.data" /\ n = Len(dn) + left /\ Multiple(Len(dn))
  <2>1. Len(dn) >= LINEMAX /\ Multiple(Len(dn) - LINEMAX)
    BY <1>0, <1>2, MultipleDown
  <2>2. m = LINEMAX /\ m \in 0 .. Len(dn)
    BY <1>0, <2>1 DEF Least
  <2>3. Len(Without(dn, m)) = Len(dn) - LINEMAX
    BY <2>2, Taken
  <2>4. n - m = (Len(dn) - LINEMAX) + left
    BY <1>0, <1>2, <2>2
  <2> QED BY <1>1, <1>2, <2>1, <2>2, <2>3, <2>4 DEF BothSides, Getting
<1>3. CASE pc = "request" /\ Len(dn) = n + LINEMAX
  <2>2. m = LINEMAX /\ m \in 0 .. Len(dn)
    BY <1>0, <1>3 DEF Least
  <2>3. Len(Without(dn, m)) = Len(dn) - LINEMAX
    BY <2>2, Taken
  <2>4. Len(dn) - LINEMAX = (n - m) + LINEMAX
    BY <1>0, <1>3, <2>2
  <2> QED BY <1>1, <1>3, <2>2, <2>3, <2>4 DEF BothSides, Getting
<1> QED BY <1>1, <1>2, <1>3 DEF Getting

\* After it has read the last units of the file.
LEMMA AfterReadLast ==
    ASSUME NEW skip \in 0 .. 3, NEW n \in 0 .. MaxSize, NEW n2,
           NEW pc, NEW left \in 0 .. MaxSize, NEW up \in Streams, NEW dn \in Streams,
           BothSides("get.data", skip, n, pc, left, up, dn),
           n <= LINEMAX, n = 0 \/ Len(dn) > 0, NEW m, m = Least(n, Len(dn))
    PROVE  m = n /\ BothSides("skip", 1, n2, pc, left, up, Without(dn, m))
<1>0. LINEMAX \in Nat /\ LINEMAX > 1 /\ Len(dn) \in Nat /\ n \in Nat /\ left \in Nat
  BY Constants DEF Streams
<1>1. Len(up) = 0 /\ Getting(pc, left, Len(dn), n)
  BY DEF BothSides
<1>2. CASE pc = "get.data" /\ n = Len(dn) + left /\ Multiple(Len(dn))
  <2>1. Len(dn) # 0 => Len(dn) >= LINEMAX
    BY <1>0, <1>2, MultipleDown
  <2>2. Len(dn) = n /\ left = 0
    BY <1>0, <1>2, <2>1
  <2>3. m = n /\ m \in 0 .. Len(dn)
    BY <1>0, <2>2 DEF Least
  <2>4. Len(Without(dn, m)) = 0
    BY <1>0, <2>2, <2>3, Taken
  <2> QED BY <1>1, <1>2, <2>2, <2>3, <2>4 DEF BothSides, InSkip
<1>3. CASE pc = "request" /\ Len(dn) = n + LINEMAX
  <2>1. m = n /\ m \in 0 .. Len(dn)
    BY <1>0, <1>3 DEF Least
  <2>2. Len(Without(dn, m)) = Len(dn) - m
    BY <2>1, Taken
  <2>3. Len(Without(dn, m)) = 1 * LINEMAX
    BY <1>0, <1>3, <2>1, <2>2
  <2> QED BY <1>1, <1>3, <2>1, <2>3 DEF BothSides, InSkip
<1> QED BY <1>1, <1>2, <1>3 DEF Getting

\* put: the reply to the request.
LEMMA AfterPutReply ==
    ASSUME NEW skip \in 0 .. 3, NEW n \in 0 .. MaxSize, NEW skip2,
           NEW pc, NEW left \in 0 .. MaxSize, NEW up \in Streams, NEW dn \in Streams,
           BothSides("put.reply", skip, n, pc, left, up, dn),
           Len(dn) > 0, NEW m, m = Least(LINEMAX, Len(dn)), NEW size \in 0 .. MaxSize
    PROVE  /\ dn[1].kind = "text" /\ Len(up) = 0
           /\ dn[1] = Text("error") => BothSides("skip", 1, size, pc, left, up, Without(dn, m))
           /\ dn[1] # Text("error") =>
                /\ pc = "put.ready"
                /\ BothSides("put.data", skip2, size, pc, left,
                             up \o (Line("ready") \o <<Long(size)>>), Without(dn, m))
<1>0. LINEMAX \in Nat /\ Len(dn) \in Nat /\ MaxSize \in Nat /\ size \in Nat
  BY Constants DEF Streams
<1>1. CASE pc = "request" /\ Len(up) = 0 /\ Len(dn) = 2 * LINEMAX /\ dn[1] = Text("error")
  <2>1. m = LINEMAX /\ m \in 0 .. Len(dn)
    BY <1>0, <1>1 DEF Least
  <2>2. Len(Without(dn, m)) = Len(dn) - m
    BY <2>1, Taken
  <2>3. Len(Without(dn, m)) = 1 * LINEMAX
    BY <1>0, <1>1, <2>1, <2>2
  <2> QED BY <1>1, <2>3, Kinds DEF BothSides, InSkip
<1>2. CASE pc = "put.ready" /\ Len(up) = 0 /\ Starts(dn, Text("opened"))
  <2>1. m = LINEMAX /\ m = Len(dn) /\ m \in 0 .. Len(dn)
    BY <1>0, <1>2 DEF Least, Starts
  <2>2. Len(Without(dn, m)) = Len(dn) - m
    BY <2>1, Taken
  <2>3. Len(Without(dn, m)) = 0
    BY <1>0, <2>1, <2>2
  <2> DEFINE s == Line("ready") \o <<Long(size)>>
  <2>4. s \in Streams /\ Len(s) = LINEMAX + 1 /\ s[LINEMAX + 1] = Long(size)
    <3> DEFINE one == <<Long(size)>>
    <3>1. one \in Streams /\ Len(one) = 1 /\ one[1] = Long(size)
      BY UnitTypes DEF Streams
    <3>2. "ready" \in Requests \cup Careless \cup Replies
      BY DEF Replies
    <3>3. s = Line("ready") \o one
      OBVIOUS
    <3> HIDE DEF s, one
    <3>4. s \in Streams /\ Len(s) = LINEMAX + Len(one) /\ (Len(one) > 0 => s[LINEMAX + 1] = one[1])
      BY <3>1, <3>2, <3>3, LineAnd
    <3> QED BY <3>1, <3>4
  <2> HIDE DEF s
  <2>5. up \o s = s
    <3>1. up = <<>>
      BY <1>2 DEF Streams
    <3> QED BY <2>4, <3>1, ConcatEmptySeq DEF Streams
  <2>6. Len(s) > LINEMAX /\ Len(s) - (LINEMAX + 1) = 0 /\ size = 0 + size
    BY <1>0, <2>4
  <2>7. Ahead(s, LINEMAX, size)
    BY <2>4, <2>6, MultipleOfNone DEF Ahead
  <2>8. Putting(pc, left, up \o s, size)
    BY <1>2, <2>5, <2>7 DEF Putting
  <2>9. BothSides("put.data", skip2, size, pc, left, up \o s, Without(dn, m))
    BY <2>3, <2>8 DEF BothSides, InPutData
  <2>10. dn[1] # Text("error") /\ dn[1].kind = "text"
    <3>1. Text("error").val = "error" /\ Text("opened").val = "opened"
      BY Kinds
    <3> QED BY <1>2, <3>1, Kinds DEF Starts
  <2> QED BY <1>2, <2>9, <2>10 DEF s
<1> QED BY <1>0, <1>1, <1>2 DEF BothSides, InPutReply

\* put: a part of the file is on its way.
LEMMA AfterSend ==
    ASSUME NEW skip \in 0 .. 3, NEW n \in 0 .. MaxSize,
           NEW pc, NEW left \in 0 .. MaxSize, NEW up \in Streams, NEW dn \in Streams,
           BothSides("put.data", skip, n, pc, left, up, dn),
           NEW s \in Streams, Len(s) = Least(LINEMAX, n), NEW skip2, NEW n2
    PROVE  /\ n > LINEMAX => BothSides("put.data", skip2, n - LINEMAX, pc, left, up \o s, dn)
           /\ n <= LINEMAX => BothSides("skip", 1, n2, pc, left, up \o s, dn)
<1>0. /\ LINEMAX \in Nat /\ n \in Nat /\ MaxSize \in Nat
      /\ up \o s \in Streams /\ Len(up \o s) = Len(up) + Len(s) /\ Len(up) \in Nat
      /\ \A i \in 1 .. Len(up) : (up \o s)[i] = up[i]
  <2>1. LINEMAX \in Nat /\ n \in Nat /\ MaxSize \in Nat
    BY Constants
  <2> QED BY <2>1, Joined
<1> DEFINE rest == IF n > LINEMAX THEN n - LINEMAX ELSE 0
<1>1. /\ rest \in Nat /\ n = Len(s) + rest
      /\ rest > 0 => Len(s) = LINEMAX /\ n > 0
      /\ n > LINEMAX => rest = n - LINEMAX
      /\ n <= LINEMAX => rest = 0
  BY <1>0 DEF Least
<1> HIDE DEF rest
<1>2. \A have \in Nat : (n > 0 => Multiple(have)) => (rest > 0 => Multiple(have + Len(s)))
  BY <1>1, MultipleUp
<1>3. ASSUME NEW k \in Nat, Ahead(up, k, n)
      PROVE  Ahead(up \o s, k, rest)
  <2>1. PICK m \in 0 .. MaxSize : /\ Len(up) > k /\ up[k + 1] = Long(m)
                                  /\ m = (Len(up) - (k + 1)) + n
                                  /\ n > 0 => Multiple(Len(up) - (k + 1))
    BY <1>3 DEF Ahead
  <2>2. k + 1 \in 1 .. Len(up) /\ Len(up) - (k + 1) \in Nat
    BY <1>0, <2>1
  <2>3. (up \o s)[k + 1] = Long(m)
    BY <1>0, <2>1, <2>2
  <2>4. Len(up \o s) - (k + 1) = (Len(up) - (k + 1)) + Len(s) /\ Len(up \o s) > k
    <3> DEFINE a == Len(up)
               b == Len(s)
               d == Len(up \o s)
    <3>1. a \in Nat /\ b \in Nat /\ d = a + b /\ a > k
      BY <1>0, <2>1 DEF Streams
    <3> HIDE DEF a, b, d
    <3>2. d - (k + 1) = (a - (k + 1)) + b /\ d > k
      BY <3>1
    <3> QED BY <3>2 DEF a, b, d
  <2> DEFINE have == Len(up) - (k + 1)
  <2>5. have \in Nat /\ (n > 0 => Multiple(have))
    BY <2>1, <2>2
  <2>6. rest > 0 => Multiple(have + Len(s))
    <3> HIDE DEF have
    <3> QED BY <1>2, <2>5
  <2>7. rest > 0 => Multiple(Len(up \o s) - (k + 1))
    BY <2>4, <2>6
  <2>8. m = (Len(up \o s) - (k + 1)) + rest
    BY <1>0, <1>1, <2>1, <2>4
  <2> QED BY <2>3, <2>4, <2>7, <2>8 DEF Ahead
<1>4. CASE Len(dn) = 0 /\ Putting(pc, left, up, n)
  <2>1. Putting(pc, left, up \o s, rest)
    <3>1. CASE pc = "put.ready" /\ Ahead(up, LINEMAX, n)
      BY <1>0, <1>3, <3>1 DEF Putting
    <3>2. CASE pc = "put.length" /\ Ahead(up, 0, n)
      BY <1>3, <3>2 DEF Putting
    <3>3. CASE pc = "put.data" /\ left = Len(up) + n /\ (n > 0 => Multiple(Len(up)))
      <4>1. left = Len(up \o s) + rest
        BY <1>0, <1>1, <3>3
      <4>2. rest > 0 => Multiple(Len(up \o s))
        BY <1>0, <1>2, <3>3
      <4> QED BY <3>3, <4>1, <4>2 DEF Putting
    <3> QED BY <1>4, <3>1, <3>2, <3>3 DEF Putting
  <2> QED BY <1>1, <1>4, <2>1 DEF BothSides, InPutData, InSkip
<1>5. CASE n = 0 /\ pc = "request" /\ Len(up) = 0 /\ Len(dn) = LINEMAX
  <2>1. Len(s) = 0 /\ ~(n > LINEMAX)
    BY <1>0, <1>5 DEF Least
  <2>2. Len(up \o s) = 0 /\ Len(dn) = 1 * LINEMAX
    BY <1>0, <1>5, <2>1
  <2> QED BY <1>5, <2>1, <2>2 DEF BothSides, InSkip
<1> QED BY <1>4, <1>5 DEF BothSides, InPutData

-------------------------------------------------------------------------------
\* What holds of the two sides holds of the child's.
LEMMA PuttingSide ==
    ASSUME NEW n \in 0 .. MaxSize, NEW pc, NEW left, NEW up \in Streams, Putting(pc, left, up, n)
    PROVE  ServerSide(pc, left, up)
<1>1. pc \in {"put.ready", "put.length", "put.data"}
  BY DEF Putting
<1> QED BY <1>1 DEF ServerSide

\* What the child finds in the connection does not depend on whether its client is there.
LEMMA SideOf ==
    ASSUME NEW where \in ClientPcs, where # "gone", NEW skip \in 0 .. 3, NEW n \in 0 .. MaxSize,
           NEW pc, NEW left \in 0 .. MaxSize, NEW up \in Streams, NEW dn \in Streams,
           BothSides(where, skip, n, pc, left, up, dn)
    PROVE  ServerSide(pc, left, up)
<1>0. Len(up) \in Nat /\ 0 \in 0 .. MaxSize /\ left \in Nat
  BY Constants DEF Streams
<1>1. ASSUME Len(up) = 0, pc # "garbled"
      PROVE  ServerSide(pc, left, up)
  <2>1. CASE pc = "put.data"
    BY <1>0, <1>1, <2>1, MultipleOfNone, PuttingSide DEF Putting
  <2>2. CASE pc # "put.data"
    BY <1>1, <2>2 DEF ServerSide
  <2> QED BY <2>1, <2>2
<1>2. ASSUME NEW t \in Requests, pc = "request", Starts(up, Text(t))
      PROVE  ServerSide(pc, left, up)
  BY <1>2 DEF ServerSide
<1>3. ASSUME NEW m \in 0 .. MaxSize, Putting(pc, left, up, m)
      PROVE  ServerSide(pc, left, up)
  BY <1>3, PuttingSide
<1>4. CASE where = "reply"
  <2>1. \/ Len(up) = 0 /\ pc # "garbled"
        \/ pc = "request" /\ \E t \in {"text", "ls", "rm"} : Starts(up, Text(t))
    BY <1>4 DEF BothSides, InReply
  <2> QED BY <2>1, <1>1, <1>2 DEF Requests
<1>5. CASE where = "skip"
  <2>1. \/ Len(up) = 0 /\ pc # "garbled"
        \/ pc = "request" /\ Starts(up, Text("bad"))
        \/ Putting(pc, left, up, 0)
    BY <1>5 DEF BothSides, InSkip
  <2> QED BY <2>1, <1>0, <1>1, <1>2, <1>3 DEF Requests
<1>6. CASE where = "get.reply"
  <2>1. \/ Len(up) = 0 /\ pc # "garbled"
        \/ pc = "request" /\ \E t \in {"get", "cat"} : Starts(up, Text(t))
    BY <1>6 DEF BothSides, InGetReply, GettingAhead, Getting
  <2> QED BY <2>1, <1>1, <1>2 DEF Requests
<1>7. CASE where = "put.reply"
  <2>1. \/ Len(up) = 0 /\ pc # "garbled"
        \/ pc = "request" /\ Starts(up, Text("put"))
    BY <1>7 DEF BothSides, InPutReply
  <2> QED BY <2>1, <1>1, <1>2 DEF Requests
<1>8. CASE where = "put.data"
  <2>1. \/ Len(up) = 0 /\ pc # "garbled"
        \/ Putting(pc, left, up, n)
    BY <1>8 DEF BothSides, InPutData
  <2> QED BY <2>1, <1>0, <1>1, <1>3
<1>9. CASE where \in {"get.length", "get.data", "prompt"}
  <2>1. Len(up) = 0 /\ pc # "garbled"
    BY <1>9 DEF BothSides, GettingAhead, Getting
  <2> QED BY <2>1, <1>1
<1>10. where # "garbled"
  BY DEF BothSides
<1> QED BY <1>4, <1>5, <1>6, <1>7, <1>8, <1>9, <1>10 DEF ClientPcs

-------------------------------------------------------------------------------
\* Data in its place.

\* What belongs at a place of a file.
At(i) == {Data(c, i) : c \in Clients}

\* Behind the first k units of s, the next n are those that follow the first pos of a file.
Placed(s, k, n, pos) == \A i \in 1 .. n : k + i <= Len(s) => s[k + i] \in At(pos + i)

\* put: what is on its way to the child, and how far the client has sent.
UpPlaced(where, sent, pc, left, pos, up) ==
    /\ pc = "get.stat" => pos = 0
    /\ pc = "put.ready" =>
        Placed(up, LINEMAX + 1, Len(up), 0) /\ (where = "put.data" => Len(up) = LINEMAX + 1 + sent)
    /\ pc = "put.length" =>
        Placed(up, 1, Len(up), 0) /\ (where = "put.data" => Len(up) = 1 + sent)
    /\ pc = "put.data" =>
        /\ Placed(up, 0, Len(up), pos) /\ pos + left <= MaxSize
        /\ where = "put.data" => sent = pos + Len(up)

\* get: what is on its way to the client, and how far the child has read.
DownPlaced(where, n, received, pc, pos, dn) ==
    /\ where = "get.reply" /\ Len(dn) > 0 /\ dn[1] = Text("found") =>
        Placed(dn, LINEMAX + 1, dn[LINEMAX + 1].val, 0) /\ (pc = "get.data" => Len(dn) = LINEMAX + 1 + pos)
    /\ where = "get.length" =>
        Placed(dn, 1, dn[1].val, 0) /\ (pc = "get.data" => Len(dn) = 1 + pos)
    /\ where = "get.data" =>
        /\ Placed(dn, 0, n, received) /\ received + n <= MaxSize
        /\ pc = "get.data" => pos = received + Len(dn)

\* Where nothing is there is nothing out of place.
LEMMA PlacedNone ==
    ASSUME NEW s \in Streams, NEW k \in Nat, NEW n \in Nat, NEW pos \in Nat, Len(s) <= k
    PROVE  Placed(s, k, n, pos)
BY DEF Placed, Streams

\* A bound that is not less than what is there does not bound anything.
LEMMA PlacedAll ==
    ASSUME NEW s \in Streams, NEW k \in Nat, NEW n \in Nat, NEW pos \in Nat,
           Placed(s, k, n, pos), Len(s) - k <= n, NEW m \in Nat
    PROVE  Placed(s, k, m, pos)
BY DEF Placed, Streams

\* A lower one says less.
LEMMA PlacedLess ==
    ASSUME NEW s, NEW k, NEW n \in Nat, NEW pos, Placed(s, k, n, pos), NEW m \in 0 .. n
    PROVE  Placed(s, k, m, pos)
BY DEF Placed

\* A read takes what stands before the data.
LEMMA PlacedRead ==
    ASSUME NEW s \in Streams, NEW k \in Nat, NEW n \in Nat, NEW pos \in Nat,
           Placed(s, k, n, pos), NEW m \in 0 .. Len(s), m <= k
    PROVE  Placed(Without(s, m), k - m, n, pos)
<1>1. /\ Without(s, m) \in Streams /\ Len(Without(s, m)) = Len(s) - m /\ Len(s) \in Nat
      /\ \A i \in 1 .. Len(s) - m : Without(s, m)[i] = s[m + i]
  BY Taken DEF Streams
<1> SUFFICES ASSUME NEW i \in 1 .. n, (k - m) + i <= Len(Without(s, m))
             PROVE  Without(s, m)[(k - m) + i] \in At(pos + i)
  BY DEF Placed
<1>2. k + i <= Len(s) /\ (k - m) + i \in 1 .. Len(s) - m /\ m + ((k - m) + i) = k + i
  BY <1>1
<1>3. s[k + i] \in At(pos + i)
  BY <1>2 DEF Placed
<1> QED BY <1>1, <1>2, <1>3

\* A read of m units of the data.
LEMMA PlacedTaken ==
    ASSUME NEW s \in Streams, NEW n \in Nat, NEW pos \in Nat, Placed(s, 0, n, pos),
           NEW m \in 0 .. Len(s), m <= n
    PROVE  /\ Placed(Without(s, m), 0, n - m, pos + m)
           /\ Placed(SubSeq(s, 1, m), 0, m, pos)
<1>1. /\ Without(s, m) \in Streams /\ Len(Without(s, m)) = Len(s) - m /\ Len(s) \in Nat
      /\ \A i \in 1 .. Len(s) - m : Without(s, m)[i] = s[m + i]
  BY Taken DEF Streams
<1>2. ASSUME NEW i \in 1 .. n - m, 0 + i <= Len(Without(s, m))
      PROVE  Without(s, m)[0 + i] \in At((pos + m) + i)
  <2>1. m + i \in 1 .. n /\ 0 + (m + i) <= Len(s) /\ pos + (m + i) = (pos + m) + i /\ 0 + i = i
        /\ 0 + (m + i) = m + i /\ i \in 1 .. Len(s) - m
    BY <1>1, <1>2
  <2>2. s[0 + (m + i)] \in At(pos + (m + i))
    BY <2>1 DEF Placed
  <2> QED BY <1>1, <2>1, <2>2
<1>3. ASSUME NEW i \in 1 .. m
      PROVE  SubSeq(s, 1, m)[0 + i] \in At(pos + i)
  <2>1. /\ i \in 1 .. n /\ 0 + i <= Len(s) /\ 0 + i = i /\ m \in Nat /\ i \in 1 .. (m - 1) + 1 /\ 1 + i - 1 = i
        /\ i \in 1 .. m - 1 + 1
    BY <1>1
  <2>2. \A j \in 1 .. m : s[j] \in Units
    BY <1>1 DEF Streams
  <2>3. \A j \in 1 .. m - 1 + 1 : SubSeq(s, 1, m)[j] = s[1 + j - 1]
    BY <1>1, <2>1, <2>2, SubSeqProperties DEF Streams
  <2>4. s[0 + i] \in At(pos + i)
    BY <2>1 DEF Placed
  <2> QED BY <2>1, <2>3, <2>4
<1> QED BY <1>2, <1>3 DEF Placed

\* A write puts more of the data behind what is there.
LEMMA PlacedMore ==
    ASSUME NEW s \in Streams, NEW k \in 0 .. Len(s), NEW n \in Nat, NEW pos \in Nat,
           Placed(s, k, n, pos), NEW t \in Streams, NEW m \in Nat,
           Placed(t, 0, m, pos + (Len(s) - k)), n <= (Len(s) - k) + m
    PROVE  Placed(s \o t, k, n, pos)
<1>1. /\ s \o t \in Streams /\ Len(s \o t) = Len(s) + Len(t) /\ Len(s) \in Nat /\ Len(t) \in Nat
      /\ \A i \in 1 .. Len(s) : (s \o t)[i] = s[i]
      /\ \A i \in 1 .. Len(t) : (s \o t)[Len(s) + i] = t[i]
  BY Joined
<1> SUFFICES ASSUME NEW i \in 1 .. n, k + i <= Len(s \o t)
             PROVE  (s \o t)[k + i] \in At(pos + i)
  BY DEF Placed
<1>2. CASE k + i <= Len(s)
  <2>1. s[k + i] \in At(pos + i)
    BY <1>2 DEF Placed
  <2>2. k + i \in 1 .. Len(s)
    BY <1>1, <1>2
  <2> QED BY <1>1, <2>1, <2>2
<1>3. CASE k + i > Len(s)
  <2> DEFINE j == (k + i) - Len(s)
  <2>1. j \in 1 .. m /\ j <= Len(t) /\ 0 + j = j /\ Len(s) + j = k + i
        /\ (pos + (Len(s) - k)) + j = pos + i /\ j \in 1 .. Len(t)
    BY <1>1, <1>3
  <2> HIDE DEF j
  <2>2. t[0 + j] \in At((pos + (Len(s) - k)) + j)
    BY <2>1 DEF Placed
  <2> QED BY <1>1, <2>1, <2>2
<1> QED BY <1>1, <1>2, <1>3

\* A write of data at its place keeps the data of a file in its place.
LEMMA PlacedStored ==
    ASSUME NEW s \in Streams, InPlace(s), NEW pos \in 0 .. Len(s), NEW u \in Streams,
           Placed(u, 0, Len(u), pos)
    PROVE  InPlace(Stored(s, pos, u))
<1>1. Len(s) \in Nat /\ Len(u) \in Nat /\ pos \in Nat
  BY DEF Streams
<1>2. CASE ~Fits(pos, u)
  BY <1>2 DEF Stored
<1>3. CASE Fits(pos, u)
  <2> DEFINE m == Most(Len(s), pos + Len(u))
             x == [i \in 1 .. m |-> IF i \in pos + 1 .. pos + Len(u) THEN u[i - pos] ELSE s[i]]
  <2>1. Stored(s, pos, u) = x
    BY <1>3 DEF Stored, Overlay
  <2>2. m = Len(s) \/ m = pos + Len(u)
    BY DEF Most
  <2> HIDE DEF m
  <2>3. ASSUME NEW i \in 1 .. m PROVE x[i] \in At(i)
    <3>1. CASE i \in pos + 1 .. pos + Len(u)
      <4>1. i - pos \in 1 .. Len(u) /\ 0 + (i - pos) <= Len(u) /\ pos + (i - pos) = i /\ 0 + (i - pos) = i - pos
        BY <1>1, <3>1
      <4>2. u[0 + (i - pos)] \in At(pos + (i - pos))
        BY <4>1 DEF Placed
      <4>3. x[i] = u[i - pos]
        BY <3>1
      <4> HIDE DEF x
      <4> QED BY <4>1, <4>2, <4>3
    <3>2. CASE i \notin pos + 1 .. pos + Len(u)
      <4>1. i \in DOMAIN s
        BY <1>1, <2>2, <3>2 DEF Streams
      <4> QED BY <3>2, <4>1 DEF InPlace, At
    <3> QED BY <3>1, <3>2
  <2>4. DOMAIN x = 1 .. m
    OBVIOUS
  <2> HIDE DEF x
  <2> QED BY <2>1, <2>3, <2>4 DEF InPlace, At
<1> QED BY <1>2, <1>3

\* A part of a file.
LEMMA PlacedPart ==
    ASSUME NEW s \in Streams, InPlace(s), NEW a \in Nat, NEW b \in Nat, b <= Len(s)
    PROVE  Placed(SubSeq(s, a + 1, b), 0, Len(SubSeq(s, a + 1, b)), a)
<1> DEFINE x == SubSeq(s, a + 1, b)
<1>1. Len(s) \in Nat /\ \A i \in a + 1 .. b : s[i] \in Units
  BY DEF Streams
<1>2. /\ Len(x) = IF a + 1 <= b THEN b - (a + 1) + 1 ELSE 0
      /\ \A j \in 1 .. b - (a + 1) + 1 : x[j] = s[(a + 1) + j - 1]
  BY <1>1, SubSeqProperties DEF Streams
<1> HIDE DEF x
<1> SUFFICES ASSUME NEW i \in 1 .. Len(x) PROVE x[0 + i] \in At(a + i)
  BY DEF Placed, x
<1>3. i \in 1 .. b - (a + 1) + 1 /\ 0 + i = i /\ (a + 1) + i - 1 = a + i /\ a + i \in DOMAIN s
  BY <1>1, <1>2 DEF Streams
<1>4. s[a + i] \in At(a + i)
  BY <1>3 DEF InPlace, At
<1> QED BY <1>2, <1>3, <1>4

\* A buffer that a read has filled is what was read.
LEMMA FilledWhole ==
    ASSUME NEW s \in Streams, Len(s) = LINEMAX
    PROVE  Filled(s) = s
<1>1. LINEMAX - Len(s) = 0
  BY Constants
<1>2. Rests(0) = <<>>
  BY DEF Rests
<1> QED BY <1>1, <1>2, ConcatEmptySeq DEF Filled, Streams

\* A write behind data that is in its place.
LEMMA PlacedOn ==
    ASSUME NEW s \in Streams, NEW k \in 0 .. Len(s), NEW pos \in Nat, Placed(s, k, Len(s), pos),
           NEW t \in Streams, Placed(t, 0, Len(t), pos + (Len(s) - k)), NEW z, z = s \o t
    PROVE  Placed(z, k, Len(z), pos)
<1>1. z \in Streams /\ Len(z) = Len(s) + Len(t) /\ Len(s) \in Nat /\ Len(t) \in Nat
  BY Joined
<1> DEFINE n == (Len(s) - k) + Len(t)
           m == Len(s) - k
<1>2. n \in Nat /\ n <= m + Len(t) /\ Len(z) - k <= n /\ Len(z) \in Nat /\ k \in Nat
      /\ m \in Nat /\ Len(s) - k <= m
  BY <1>1
<1>3. Placed(s, k, n, pos)
  <2> HIDE DEF n
  <2> QED BY <1>1, <1>2, PlacedAll
<1>4. Placed(s \o t, k, n, pos)
  <2> HIDE DEF n
  <2> QED BY <1>1, <1>2, <1>3, PlacedMore DEF m
<1> HIDE DEF n
<1>5. Placed(z, k, n, pos)
  BY <1>4
<1> QED BY <1>1, <1>2, <1>5, PlacedAll

\* A read of what stands before the file.
LEMMA UpRead ==
    ASSUME NEW up \in Streams, NEW k \in Nat, NEW n \in 0 .. Len(up), n <= k,
           Placed(up, k, Len(up), 0)
    PROVE  Placed(Without(up, n), k - n, Len(Without(up, n)), 0)
<1>1. /\ Without(up, n) \in Streams /\ Len(Without(up, n)) = Len(up) - n /\ Len(up) \in Nat
  BY Taken DEF Streams
<1>2. Placed(Without(up, n), k - n, Len(up), 0)
  BY <1>1, PlacedRead
<1> QED BY <1>1, <1>2, PlacedLess

\* put: the client sends what comes next.
LEMMA UpMore ==
    ASSUME NEW sent \in Nat, NEW pc, NEW left, NEW pos \in Nat, NEW up \in Streams,
           UpPlaced("put.data", sent, pc, left, pos, up),
           NEW s \in Streams, Placed(s, 0, Len(s), sent),
           NEW t, t = up \o s, NEW sent2, sent2 = sent + Len(s), NEW where
    PROVE  UpPlaced(where, sent2, pc, left, pos, t)
<1>1. /\ t \in Streams /\ Len(t) = Len(up) + Len(s) /\ Len(up) \in Nat /\ Len(s) \in Nat
  BY Joined
<1>2. LINEMAX \in Nat
  BY Constants
<1>3. ASSUME pc = "put.ready"
      PROVE  Placed(t, LINEMAX + 1, Len(t), 0) /\ Len(t) = LINEMAX + 1 + sent2
  <2> DEFINE k == LINEMAX + 1
  <2>1. Placed(up, k, Len(up), 0) /\ Len(up) = k + sent
    BY <1>3 DEF UpPlaced
  <2>2. k \in 0 .. Len(up) /\ sent = 0 + (Len(up) - k) /\ k \in Nat
    BY <1>1, <1>2, <2>1
  <2> HIDE DEF k
  <2>3. Placed(t, k, Len(t), 0)
    BY <2>1, <2>2, PlacedOn
  <2>4. Len(t) = k + sent2
    BY <1>1, <2>1, <2>2
  <2> QED BY <2>3, <2>4 DEF k
<1>4. ASSUME pc = "put.length"
      PROVE  Placed(t, 1, Len(t), 0) /\ Len(t) = 1 + sent2
  <2>1. Placed(up, 1, Len(up), 0) /\ Len(up) = 1 + sent
    BY <1>4 DEF UpPlaced
  <2>2. 1 \in 0 .. Len(up) /\ sent = 0 + (Len(up) - 1)
    BY <1>1, <2>1
  <2>3. Placed(t, 1, Len(t), 0)
    BY <2>1, <2>2, PlacedOn
  <2> QED BY <1>1, <2>1, <2>3
<1>5. ASSUME pc = "put.data"
      PROVE  Placed(t, 0, Len(t), pos) /\ pos + left <= MaxSize /\ sent2 = pos + Len(t)
  <2>1. Placed(up, 0, Len(up), pos) /\ sent = pos + Len(up) /\ pos + left <= MaxSize
    BY <1>5 DEF UpPlaced
  <2>2. 0 \in 0 .. Len(up) /\ sent = pos + (Len(up) - 0)
    BY <1>1, <2>1
  <2>3. Placed(t, 0, Len(t), pos)
    BY <2>1, <2>2, PlacedOn
  <2> QED BY <1>1, <2>1, <2>3
<1>6. pc = "get.stat" => pos = 0
  BY DEF UpPlaced
<1> QED BY <1>3, <1>4, <1>5, <1>6 DEF UpPlaced

\* More of a file behind what is there of it.
LEMMA AheadMore ==
    ASSUME NEW left \in 0 .. MaxSize, NEW dn \in Streams, NEW s \in Streams, NEW k \in Nat,
           NEW j, j = k + 1, NEW pos \in Nat, GettingAhead("get.data", left, dn, k),
           Placed(dn, j, dn[j].val, 0), Len(dn) = j + pos, Placed(s, 0, left, pos),
           NEW t, t = dn \o s
    PROVE  Placed(t, j, t[j].val, 0)
<1>1. PICK m \in 0 .. MaxSize :
        Len(dn) > k /\ dn[j] = Long(m) /\ Getting("get.data", left, Len(dn) - j, m)
  BY DEF GettingAhead
<1>2. m = pos + left /\ dn[j].val = m /\ m \in Nat /\ left \in Nat
  BY <1>1, Kinds, Constants DEF Getting
<1>3. /\ Len(t) = Len(dn) + Len(s) /\ Len(dn) \in Nat /\ Len(s) \in Nat
      /\ \A i \in 1 .. Len(dn) : t[i] = dn[i]
  BY Joined
<1>4. t[j] = dn[j]
  BY <1>1, <1>3
<1>5. j \in 0 .. Len(dn) /\ 0 + (Len(dn) - j) = pos /\ m <= (Len(dn) - j) + left
  BY <1>2, <1>3
<1>6. Placed(t, j, m, 0)
  BY <1>2, <1>5, PlacedMore
<1> QED BY <1>2, <1>3, <1>4, <1>6

\* The child has sent more of its file.
LEMMA DownMore ==
    ASSUME NEW where \in ClientPcs, where # "gone", NEW skip \in 0 .. 3, NEW n \in 0 .. MaxSize,
           NEW left \in 0 .. MaxSize, NEW up \in Streams, NEW dn \in Streams,
           BothSides(where, skip, n, "get.data", left, up, dn),
           NEW received \in Nat, NEW pos \in Nat, DownPlaced(where, n, received, "get.data", pos, dn),
           NEW s \in Streams, Placed(s, 0, left, pos),
           NEW pc2, NEW pos2, pc2 = "get.data" => pos2 = pos + Len(s)
    PROVE  DownPlaced(where, n, received, pc2, pos2, dn \o s)
<1>1. /\ Len(dn \o s) = Len(dn) + Len(s) /\ Len(dn) \in Nat /\ Len(s) \in Nat
      /\ \A i \in 1 .. Len(dn) : (dn \o s)[i] = dn[i]
      /\ LINEMAX \in Nat /\ LINEMAX > 1 /\ left \in Nat /\ n \in Nat
  BY Joined, Constants
<1> DEFINE t == dn \o s
<1>2. t = dn \o s
  OBVIOUS
<1> HIDE DEF t
<1>3. CASE where = "get.reply"
  <2>1. dn[1] = Text("found") /\ GettingAhead("get.data", left, dn, LINEMAX) /\ Len(dn) > 0
    BY <1>1, <1>3 DEF BothSides, InGetReply, GettingAhead
  <2> DEFINE j == LINEMAX + 1
  <2>2. Placed(dn, j, dn[j].val, 0) /\ Len(dn) = j + pos
    BY <1>3, <2>1 DEF DownPlaced
  <2>3. j = LINEMAX + 1
    OBVIOUS
  <2> HIDE DEF j
  <2>4. Placed(t, j, t[j].val, 0)
    BY <1>1, <1>2, <2>1, <2>2, <2>3, AheadMore
  <2>5. Len(t) = j + (pos + Len(s))
    BY <1>1, <1>2, <2>2, <2>3
  <2> QED BY <1>3, <2>4, <2>5 DEF DownPlaced, j, t
<1>4. CASE where = "get.length"
  <2>1. GettingAhead("get.data", left, dn, 0)
    BY <1>4 DEF BothSides
  <2> DEFINE j == 1
  <2>2. Placed(dn, j, dn[j].val, 0) /\ Len(dn) = j + pos
    BY <1>4 DEF DownPlaced
  <2>3. j = 0 + 1
    OBVIOUS
  <2> HIDE DEF j
  <2>4. Placed(t, j, t[j].val, 0)
    BY <1>2, <2>1, <2>2, <2>3, AheadMore
  <2>5. Len(t) = j + (pos + Len(s))
    BY <1>1, <1>2, <2>2, <2>3
  <2> QED BY <1>4, <2>4, <2>5 DEF DownPlaced, j, t
<1>5. CASE where = "get.data"
  <2>1. n = Len(dn) + left
    BY <1>5 DEF BothSides, Getting
  <2>2. Placed(dn, 0, n, received) /\ received + n <= MaxSize /\ pos = received + Len(dn)
    BY <1>5 DEF DownPlaced
  <2>3. /\ 0 \in 0 .. Len(dn) /\ n <= (Len(dn) - 0) + left
        /\ received + (Len(dn) - 0) = pos
    BY <1>1, <2>1, <2>2
  <2>4. Placed(dn \o s, 0, n, received)
    BY <1>1, <2>2, <2>3, PlacedMore
  <2>5. pos + Len(s) = received + Len(dn \o s)
    BY <1>1, <2>2
  <2> QED BY <1>5, <2>2, <2>4, <2>5 DEF DownPlaced
<1>6. CASE where \notin {"get.reply", "get.length", "get.data"}
  BY <1>6 DEF DownPlaced
<1> QED BY <1>3, <1>4, <1>5, <1>6

-------------------------------------------------------------------------------
\* The inductive invariant.

ClientStates == [pc : ClientPcs, op : Requests, skip : 0 .. 3, length : 0 .. MaxSize, pos : 0 .. MaxSize]

ServerPcs == {"request", "stale", "get nothing", "put nothing", "text", "listing", "ls", "rm", "bad", "get.open", "get.stat", "get.data",
              "put.check", "put.open", "put.ready", "put.length", "put.data", "garbled", "gone"}

ServerStates == [pc : ServerPcs, length : 0 .. MaxSize, inode : Inodes \cup {NoInode}, pos : 0 .. MaxSize]

Types ==
    /\ client \in [Clients -> ClientStates]
    /\ server \in [Clients -> ServerStates]
    /\ toServer \in [Clients -> Streams]
    /\ toClient \in [Clients -> Streams]
    /\ local \in [Clients -> [has : BOOLEAN, text : Streams]]
    /\ inode \in [Inodes -> Streams]
    /\ name \in Inodes \cup {NoInode}
    /\ lapses \in [Clients -> SUBSET Lapses]

\* Nothing is larger than its place.
Room ==
    /\ \A c \in Clients :
        Len(toServer[c]) <= Capacity /\ Len(toClient[c]) <= Capacity /\ Len(local[c].text) <= MaxSize
    /\ \A i \in Inodes : Len(inode[i]) <= MaxSize

\* A file is written without holes and read inside of its length.
ClientPlace(c) ==
    /\ client[c].pc = "skip" => client[c].skip # 0
    /\ client[c].pc \in {"get.reply", "get.length"} => client[c].pos = 0
    /\ client[c].pc = "get.data" /\ client[c].op = "get" => client[c].pos <= Len(local[c].text)
    /\ client[c].pc = "put.data" => client[c].pos + client[c].length <= Len(local[c].text)

ServerPlace(c) ==
    /\ server[c].pc \in {"get.stat", "get.data", "put.ready", "put.length", "put.data"} =>
        server[c].inode \in Inodes
    /\ server[c].pc \in {"put.ready", "put.length"} => server[c].length = 0 /\ server[c].pos = 0
    /\ server[c].pc = "put.data" => server[c].pos <= Len(inode[server[c].inode])

Places == \A c \in Clients : ClientPlace(c) /\ ServerPlace(c)

Exchange(c) ==
    lapses[c] = {} =>
        IF Gone(c) THEN ServerSide(server[c].pc, server[c].length, toServer[c])
        ELSE BothSides(client[c].pc, client[c].skip, client[c].length,
                       server[c].pc, server[c].length, toServer[c], toClient[c])

Exchanges == \A c \in Clients : Exchange(c)

IInv == Types /\ Room /\ Places /\ Exchanges

-------------------------------------------------------------------------------

\* A step of c changes nothing of the others, and changes its own within the types.
ClientMoved(c) ==
    client' \in [Clients -> ClientStates] /\ \A d \in Clients \ {c} : client'[d] = client[d]
ServerMoved(c) ==
    server' \in [Clients -> ServerStates] /\ \A d \in Clients \ {c} : server'[d] = server[d]
ToServerMoved(c) ==
    /\ toServer' \in [Clients -> Streams] /\ \A d \in Clients : Len(toServer'[d]) <= Capacity
    /\ \A d \in Clients \ {c} : toServer'[d] = toServer[d]
ToClientMoved(c) ==
    /\ toClient' \in [Clients -> Streams] /\ \A d \in Clients : Len(toClient'[d]) <= Capacity
    /\ \A d \in Clients \ {c} : toClient'[d] = toClient[d]
LocalMoved(c) ==
    /\ local' \in [Clients -> [has : BOOLEAN, text : Streams]]
    /\ \A d \in Clients : Len(local'[d].text) <= MaxSize
    /\ \A d \in Clients \ {c} : local'[d] = local[d]
LapsesMoved(c) ==
    /\ lapses' \in [Clients -> SUBSET Lapses] /\ lapses[c] \subseteq lapses'[c]
    /\ \A d \in Clients \ {c} : lapses'[d] = lapses[d]

\* A file that another child has open does not get shorter.
InodesMoved(c) ==
    /\ inode' \in [Inodes -> Streams] /\ \A i \in Inodes : Len(inode'[i]) <= MaxSize
    /\ \A d \in Clients \ {c} : \A i \in Inodes :
        server[d].inode = i => Len(inode'[i]) >= Len(inode[i])

Moved(c) ==
    /\ ClientMoved(c) /\ ServerMoved(c) /\ ToServerMoved(c) /\ ToClientMoved(c)
    /\ LocalMoved(c) /\ LapsesMoved(c) /\ InodesMoved(c)
    /\ name' \in Inodes \cup {NoInode}

\* The step keeps the invariant.
Keeps(c) == Moved(c) /\ IInv'

\* A variable that does not change does not change for the others.
LEMMA Unmoved ==
    ASSUME IInv, NEW c \in Clients
    PROVE  /\ client' = client => ClientMoved(c)
           /\ server' = server => ServerMoved(c)
           /\ toServer' = toServer => ToServerMoved(c)
           /\ toClient' = toClient => ToClientMoved(c)
           /\ local' = local => LocalMoved(c)
           /\ lapses' = lapses => LapsesMoved(c)
           /\ inode' = inode => InodesMoved(c)
           /\ name' = name => name' \in Inodes \cup {NoInode}
<1> USE DEF IInv, Types, Room
<1>1. client' = client => ClientMoved(c)
  BY DEF ClientMoved
<1>2. server' = server => ServerMoved(c)
  BY DEF ServerMoved
<1>3. toServer' = toServer => ToServerMoved(c)
  BY DEF ToServerMoved
<1>4. toClient' = toClient => ToClientMoved(c)
  BY DEF ToClientMoved
<1>5. local' = local => LocalMoved(c)
  BY DEF LocalMoved
<1>6. lapses' = lapses => LapsesMoved(c)
  BY DEF LapsesMoved
<1>7. inode' = inode => InodesMoved(c)
  BY DEF InodesMoved, Streams
<1>8. name' = name => name' \in Inodes \cup {NoInode}
  OBVIOUS
<1> QED BY <1>1, <1>2, <1>3, <1>4, <1>5, <1>6, <1>7, <1>8

\* A step of c keeps the invariant for the others, once it keeps it for c.
LEMMA OthersStay ==
    ASSUME IInv, NEW c \in Clients, Moved(c), ClientPlace(c)', ServerPlace(c)', Exchange(c)'
    PROVE  Keeps(c)
<1>0. Types' /\ Room'
  <2>1. Types'
    BY DEF Moved, ClientMoved, ServerMoved, ToServerMoved, ToClientMoved, LocalMoved, LapsesMoved,
           InodesMoved, Types
  <2>2. Room'
    BY DEF Moved, ToServerMoved, ToClientMoved, LocalMoved, InodesMoved, Room
  <2> QED BY <2>1, <2>2
<1>1. ASSUME NEW d \in Clients, d # c
      PROVE  ClientPlace(d)' /\ ServerPlace(d)' /\ Exchange(d)'
  <2>1. /\ client'[d] = client[d] /\ server'[d] = server[d] /\ local'[d] = local[d]
        /\ toServer'[d] = toServer[d] /\ toClient'[d] = toClient[d] /\ lapses'[d] = lapses[d]
    BY <1>1 DEF Moved, ClientMoved, ServerMoved, ToServerMoved, ToClientMoved, LocalMoved, LapsesMoved
  <2>2. ClientPlace(d) /\ ServerPlace(d) /\ Exchange(d)
    BY DEF IInv, Places, Exchanges
  <2>3. ClientPlace(d)'
    BY <2>1, <2>2 DEF ClientPlace
  <2>4. Exchange(d)'
    BY <2>1, <2>2 DEF Exchange, Gone
  <2>5. ServerPlace(d)'
    <3>1. CASE server[d].inode \in Inodes
      <4> DEFINE i == server[d].inode
      <4>1. Len(inode'[i]) >= Len(inode[i])
        BY <1>1, <3>1 DEF Moved, InodesMoved
      <4>2. inode[i] \in Streams /\ inode'[i] \in Streams /\ server[d].pos \in Nat
        BY <1>0, <3>1, Constants DEF IInv, Types, ServerStates
      <4>3. Len(inode'[i]) \in Nat /\ Len(inode[i]) \in Nat
        BY <4>2 DEF Streams
      <4> QED BY <2>1, <2>2, <3>1, <4>1, <4>2, <4>3 DEF ServerPlace
    <3>2. CASE server[d].inode \notin Inodes
      BY <2>1, <2>2, <3>2 DEF ServerPlace
    <3> QED BY <3>1, <3>2
  <2> QED BY <2>3, <2>4, <2>5
<1>2. Places' /\ Exchanges'
  BY <1>1 DEF Places, Exchanges
<1> QED BY <1>0, <1>2 DEF IInv, Keeps

-------------------------------------------------------------------------------
\* The parts steps are made of.

\* A reply of the child.
LEMMA Replied ==
    ASSUME IInv, NEW c \in Clients, NEW s \in Streams, Reply(c, s)
    PROVE  /\ ToClientMoved(c)
           /\ Gone(c) \/ toClient'[c] = toClient[c] \o s
<1>0. /\ toClient \in [Clients -> Streams] /\ \A d \in Clients : Len(toClient[d]) <= Capacity
  BY DEF IInv, Types, Room
<1>1. CASE Gone(c)
  BY <1>0, <1>1 DEF Reply, ToClientMoved
<1>2. CASE ~Gone(c)
  <2>1. toClient[c] \o s \in Streams /\ Len(toClient[c] \o s) = Len(toClient[c]) + Len(s)
    BY <1>0, Joined
  <2>2. toClient' = [toClient EXCEPT ![c] = toClient[c] \o s] /\ Len(toClient[c] \o s) <= Capacity
    BY <1>2, <2>1 DEF Reply
  <2> QED BY <1>0, <2>1, <2>2 DEF ToClientMoved
<1> QED BY <1>1, <1>2

\* A write of the client.
LEMMA Sent ==
    ASSUME IInv, NEW c \in Clients, NEW s \in Streams, Send(c, s)
    PROVE  /\ ToServerMoved(c)
           /\ toServer'[c] = toServer[c] \o s
<1>0. /\ toServer \in [Clients -> Streams] /\ \A d \in Clients : Len(toServer[d]) <= Capacity
  BY DEF IInv, Types, Room
<1>1. toServer[c] \o s \in Streams /\ Len(toServer[c] \o s) = Len(toServer[c]) + Len(s)
  BY <1>0, Joined
<1>2. toServer' = [toServer EXCEPT ![c] = toServer[c] \o s] /\ Len(toServer[c] \o s) <= Capacity
  BY <1>1 DEF Send
<1> QED BY <1>0, <1>1, <1>2 DEF ToServerMoved

\* A read of the child.
LEMMA ServerHasRead ==
    ASSUME IInv, NEW c \in Clients, NEW want \in Nat, NEW n, ServerRead(c, want, n)
    PROVE  /\ ToServerMoved(c)
           /\ toServer'[c] = Without(toServer[c], n)
           /\ n \in 0 .. Len(toServer[c]) /\ n <= want
           /\ n = 0 => want = 0 \/ AtEnd(c)
           /\ n # 0 => want # 0 /\ ~AtEnd(c) /\ n \in Amounts(c, toServer[c], want)
<1>0. /\ toServer \in [Clients -> Streams] /\ \A d \in Clients : Len(toServer[d]) <= Capacity
      /\ toServer[c] \in Streams /\ Len(toServer[c]) \in Nat /\ Capacity \in Nat
  BY Constants DEF IInv, Types, Room, Streams
<1>1. /\ n = 0 => want = 0 \/ AtEnd(c)
      /\ n # 0 => want # 0 /\ ~AtEnd(c) /\ n \in Amounts(c, toServer[c], want)
  BY DEF ServerRead, Amounts
<1>2. n \in 0 .. Len(toServer[c]) /\ n <= want
  BY <1>0, <1>1, ReadAll
<1>3. Without(toServer[c], n) \in Streams /\ Len(Without(toServer[c], n)) = Len(toServer[c]) - n
  BY <1>0, <1>2, Taken
<1>4. toServer' = [toServer EXCEPT ![c] = Without(toServer[c], n)]
  BY DEF ServerRead
<1>5. Len(Without(toServer[c], n)) <= Capacity
  BY <1>0, <1>2, <1>3
<1>6. /\ toServer' \in [Clients -> Streams]
      /\ \A d \in Clients : Len(toServer'[d]) <= Capacity
  BY <1>0, <1>3, <1>4, <1>5
<1>7. /\ \A d \in Clients \ {c} : toServer'[d] = toServer[d]
      /\ toServer'[c] = Without(toServer[c], n)
  BY <1>0, <1>4
<1> QED BY <1>1, <1>2, <1>6, <1>7 DEF ToServerMoved

\* A read of the client.
LEMMA ClientHasRead ==
    ASSUME IInv, NEW c \in Clients, NEW want \in Nat, NEW n, ClientRead(c, want, n)
    PROVE  /\ ToClientMoved(c)
           /\ toClient'[c] = Without(toClient[c], n)
           /\ n \in 0 .. Len(toClient[c]) /\ n <= want
           /\ want = 0 => n = 0
           /\ want # 0 => n # 0 /\ n \in Amounts(c, toClient[c], want)
<1>0. /\ toClient \in [Clients -> Streams] /\ \A d \in Clients : Len(toClient[d]) <= Capacity
      /\ toClient[c] \in Streams /\ Len(toClient[c]) \in Nat /\ Capacity \in Nat
  BY Constants DEF IInv, Types, Room, Streams
<1>1. /\ want = 0 => n = 0
      /\ want # 0 => n # 0 /\ n \in Amounts(c, toClient[c], want)
  BY DEF ClientRead, Amounts
<1>2. n \in 0 .. Len(toClient[c]) /\ n <= want
  BY <1>0, <1>1, ReadAll
<1>3. Without(toClient[c], n) \in Streams /\ Len(Without(toClient[c], n)) = Len(toClient[c]) - n
  BY <1>0, <1>2, Taken
<1>4. toClient' = [toClient EXCEPT ![c] = Without(toClient[c], n)]
  BY DEF ClientRead
<1>5. Len(Without(toClient[c], n)) <= Capacity
  BY <1>0, <1>2, <1>3
<1>6. /\ toClient' \in [Clients -> Streams]
      /\ \A d \in Clients : Len(toClient'[d]) <= Capacity
  BY <1>0, <1>3, <1>4, <1>5
<1>7. /\ \A d \in Clients \ {c} : toClient'[d] = toClient[d]
      /\ toClient'[c] = Without(toClient[c], n)
  BY <1>0, <1>4
<1> QED BY <1>1, <1>2, <1>6, <1>7 DEF ToClientMoved

\* The child goes on, or is done.
LEMMA WentTo ==
    ASSUME IInv, NEW c \in Clients, NEW where \in ServerPcs, Goto(c, where)
    PROVE  /\ ServerMoved(c)
           /\ server'[c].pc = where /\ server'[c].length = server[c].length
           /\ server'[c].inode = server[c].inode /\ server'[c].pos = server[c].pos
<1>1. server \in [Clients -> ServerStates]
  BY DEF IInv, Types
<1>2. server' = [server EXCEPT ![c].pc = where]
  BY DEF Goto
<1> QED BY <1>1, <1>2 DEF ServerStates, ServerMoved

\* It has opened a file.
LEMMA HasOpened ==
    ASSUME IInv, NEW c \in Clients, NEW where \in ServerPcs, NEW i \in Inodes,
           server' = [server EXCEPT ![c] = [Idle EXCEPT !.pc = where, !.inode = i]]
    PROVE  /\ ServerMoved(c)
           /\ server'[c].pc = where /\ server'[c].length = 0
           /\ server'[c].inode = i /\ server'[c].pos = 0
<1>1. server \in [Clients -> ServerStates]
  BY DEF IInv, Types
<1> DEFINE x == [Idle EXCEPT !.pc = where, !.inode = i]
<1>2. Idle \in ServerStates /\ Idle.length = 0 /\ Idle.pos = 0
  <2>1. "request" \in ServerPcs
    BY DEF ServerPcs
  <2> QED BY <2>1, Constants DEF Idle, ServerStates
<1>3. x \in ServerStates /\ x.pc = where /\ x.length = 0 /\ x.inode = i /\ x.pos = 0
  BY <1>2 DEF ServerStates
<1>4. server' = [server EXCEPT ![c] = x]
  OBVIOUS
<1> HIDE DEF x
<1> QED BY <1>1, <1>3, <1>4 DEF ServerMoved

\* It has come to the end of the command.
LEMMA WasDone ==
    ASSUME IInv, NEW c \in Clients, Done(c)
    PROVE  /\ ServerMoved(c)
           /\ server'[c].pc = "request" /\ server'[c].length = 0
           /\ server'[c].inode = NoInode /\ server'[c].pos = 0
<1>1. server \in [Clients -> ServerStates]
  BY DEF IInv, Types
<1>2. server' = [server EXCEPT ![c] = Idle]
  BY DEF Done
<1>3. Idle \in ServerStates
  BY Constants DEF Idle, ServerStates, ServerPcs
<1> QED BY <1>1, <1>2, <1>3 DEF Idle, ServerMoved

\* Lapses are never forgotten.
LEMMA Lapsed ==
    ASSUME IInv, NEW c \in Clients, NEW X \in SUBSET Lapses,
           lapses' = [lapses EXCEPT ![c] = @ \cup X]
    PROVE  /\ LapsesMoved(c)
           /\ lapses'[c] = {} => lapses[c] = {} /\ X = {}
<1>1. lapses \in [Clients -> SUBSET Lapses]
  BY DEF IInv, Types
<1>2. lapses'[c] = lapses[c] \cup X
  BY <1>1
<1> QED BY <1>1, <1>2 DEF LapsesMoved

\* What holds of the two sides when nothing has upset the exchange.
LEMMA Upright ==
    ASSUME IInv, NEW c \in Clients
    PROVE  /\ client[c].pc \in ClientPcs /\ client[c].skip \in 0 .. 3
           /\ client[c].length \in 0 .. MaxSize /\ client[c].pos \in 0 .. MaxSize
           /\ client[c].op \in Requests
           /\ server[c].pc \in ServerPcs
           /\ server[c].length \in 0 .. MaxSize /\ server[c].pos \in 0 .. MaxSize
           /\ toServer[c] \in Streams /\ toClient[c] \in Streams
           /\ Len(toServer[c]) \in Nat /\ Len(toClient[c]) \in Nat
           /\ lapses[c] = {} => ServerSide(server[c].pc, server[c].length, toServer[c])
           /\ lapses[c] = {} /\ ~Gone(c) =>
                client[c].pc # "gone" /\ BothSides(client[c].pc, client[c].skip, client[c].length,
                                   server[c].pc, server[c].length, toServer[c], toClient[c])
<1>1. /\ client[c].pc \in ClientPcs /\ client[c].skip \in 0 .. 3
      /\ client[c].length \in 0 .. MaxSize /\ client[c].pos \in 0 .. MaxSize
      /\ client[c].op \in Requests
  BY DEF IInv, Types, ClientStates
<1>2. /\ server[c].pc \in ServerPcs
      /\ server[c].length \in 0 .. MaxSize /\ server[c].pos \in 0 .. MaxSize
  BY DEF IInv, Types, ServerStates
<1>3. /\ toServer[c] \in Streams /\ toClient[c] \in Streams
      /\ Len(toServer[c]) \in Nat /\ Len(toClient[c]) \in Nat
  BY DEF IInv, Types, Streams
<1>4. Exchange(c)
  BY DEF IInv, Exchanges
<1>5. lapses[c] = {} /\ ~Gone(c) =>
        client[c].pc # "gone" /\ BothSides(client[c].pc, client[c].skip, client[c].length,
                           server[c].pc, server[c].length, toServer[c], toClient[c])
  BY <1>4, Zenon DEF Exchange, Gone
<1>6. lapses[c] = {} => ServerSide(server[c].pc, server[c].length, toServer[c])
  <2>1. CASE Gone(c)
    BY <1>4, <2>1, Zenon DEF Exchange
  <2>2. CASE ~Gone(c)
    BY <1>1, <1>2, <1>3, <1>5, <2>2, SideOf
  <2> QED BY <2>1, <2>2
<1> QED BY <1>1, <1>2, <1>3, <1>5, <1>6

-------------------------------------------------------------------------------
\* The steps of the child.

\* A step of the child leaves the client alone.
LEMMA ChildMoved ==
    ASSUME IInv, NEW c \in Clients, client' = client,
           lapses'[c] = {} /\ Gone(c) => ServerSide(server'[c].pc, server'[c].length, toServer'[c]),
           lapses'[c] = {} /\ ~Gone(c) =>
                BothSides(client[c].pc, client[c].skip, client[c].length,
                          server'[c].pc, server'[c].length, toServer'[c], toClient'[c])
    PROVE  Exchange(c)'
BY Zenon DEF Exchange, Gone

\* A step that leaves the client and its file alone leaves its place in the file.
LEMMA ClientPlaceStays ==
    ASSUME IInv, NEW c \in Clients, client' = client, local' = local
    PROVE  ClientPlace(c)'
BY DEF IInv, Places, ClientPlace

\* The next request, or the end of the connection.
LEMMA GetRequestKeeps ==
    ASSUME IInv, NEW c \in Clients, GetRequest(c)
    PROVE  Keeps(c)
<1> DEFINE u == Head(toServer[c])
           pc == CASE u.kind = "text" -> Handler(u.val)
                   [] u.kind = "nul" -> "bad"
                   [] OTHER -> "garbled"
<1>0. /\ UNCHANGED <<client, toClient, local, inode, name>> /\ server[c].pc = "request"
      /\ LINEMAX \in Nat /\ LINEMAX > 1
  BY Constants DEF GetRequest
<1>1. PICK n \in 0 .. LINEMAX :
        /\ ServerRead(c, LINEMAX, n)
        /\ IF n = 0 THEN Goto(c, "gone") /\ UNCHANGED lapses
           ELSE /\ Goto(c, pc)
                /\ lapses' = [lapses EXCEPT ![c] = @ \cup Cut(toServer[c], LINEMAX, n)]
  BY Zenon DEF GetRequest
<1>2. pc \in ServerPcs
  BY HandlerIs DEF ServerPcs
<1> HIDE DEF pc
<1>3. /\ ToServerMoved(c)
      /\ toServer'[c] = Without(toServer[c], n)
      /\ n \in 0 .. Len(toServer[c])
      /\ n = 0 => LINEMAX = 0 \/ AtEnd(c)
      /\ n # 0 => n \in Amounts(c, toServer[c], LINEMAX)
  BY <1>0, <1>1, ServerHasRead
<1>4. /\ ServerMoved(c)
      /\ server'[c].pc = IF n = 0 THEN "gone" ELSE pc
      /\ server'[c].length = server[c].length
  BY <1>1, <1>2, WentTo DEF ServerPcs
<1>5. /\ LapsesMoved(c)
      /\ lapses'[c] = {} => lapses[c] = {} /\ (n # 0 => Cut(toServer[c], LINEMAX, n) = {})
  <2>1. Cut(toServer[c], LINEMAX, n) \in SUBSET Lapses
    BY DEF Cut, Lapses
  <2> QED BY <1>1, <2>1, Lapsed, Unmoved
<1>6. Moved(c)
  BY <1>0, <1>3, <1>4, <1>5, Unmoved DEF Moved
<1>8. ServerPlace(c)'
  BY <1>4, HandlerIs DEF ServerPlace, pc
<1>9. ASSUME lapses'[c] = {}
      PROVE  /\ Gone(c) => ServerSide(server'[c].pc, server'[c].length, toServer'[c])
             /\ ~Gone(c) => BothSides(client[c].pc, client[c].skip, client[c].length,
                          server'[c].pc, server'[c].length, toServer'[c], toClient[c])
  <2>1. CASE n = 0
    <3>1. Gone(c) /\ toServer[c] = <<>>
      BY <1>0, <1>3, <2>1 DEF AtEnd
    <3>2. Len(toServer'[c]) = 0
      BY <1>3, <2>1, <3>1, Taken DEF IInv, Types
    <3> QED BY <1>4, <2>1, <3>1, <3>2 DEF ServerSide
  <2>2. CASE n # 0
    <3>1. ServerSide("request", server[c].length, toServer[c]) /\ Len(toServer[c]) # 0
      BY <1>0, <1>3, <1>5, <1>9, <2>2, Upright
    <3>2. PICK t \in Requests : Starts(toServer[c], Text(t))
      BY <3>1 DEF ServerSide
    <3>3. n = Least(LINEMAX, Len(toServer[c]))
      BY <1>0, <1>3, <1>5, <1>9, <2>2, ReadAll, Upright
    <3>4. Len(toServer[c]) = LINEMAX /\ n = LINEMAX /\ toServer[c][1] = Text(t)
      BY <1>0, <3>2, <3>3 DEF Starts, Least
    <3>5. toServer'[c] \in Streams /\ Len(toServer'[c]) = 0
      BY <1>0, <1>3, <3>4, Taken, Upright
    <3>6. pc = Handler(t)
      <4>1. u.kind = "text" /\ u.val = t
        BY <3>4, Kinds
      <4> QED BY <4>1 DEF pc
    <3>7. ServerSide(server'[c].pc, server'[c].length, toServer'[c])
      BY <1>4, <2>2, <3>5, <3>6, HandlerIs DEF ServerSide
    <3>8. ASSUME ~Gone(c)
          PROVE  BothSides(client[c].pc, client[c].skip, client[c].length,
                           Handler(t), server[c].length, toServer'[c], toClient[c])
      BY <1>0, <1>5, <1>9, <2>2, <3>2, <3>5, <3>8, Upright, AfterRequest
    <3> QED BY <1>4, <2>2, <3>6, <3>7, <3>8
  <2> QED BY <2>1, <2>2
<1>10. Exchange(c)'
  BY <1>0, <1>9, ChildMoved
<1>11. ClientPlace(c)'
  BY <1>0, ClientPlaceStays
<1> QED BY <1>6, <1>8, <1>10, <1>11, OthersStay

\* A step of the child that is a reply, and reads nothing.
LEMMA ReplyKeeps ==
    ASSUME IInv, NEW c \in Clients, NEW s \in Streams, Reply(c, s),
           UNCHANGED <<client, toServer, local>>,
           ServerMoved(c), LapsesMoved(c), InodesMoved(c), name' \in Inodes \cup {NoInode},
           ServerPlace(c)',
           lapses'[c] = {} /\ Gone(c) => ServerSide(server'[c].pc, server'[c].length, toServer[c]),
           lapses'[c] = {} /\ ~Gone(c) =>
                BothSides(client[c].pc, client[c].skip, client[c].length,
                          server'[c].pc, server'[c].length, toServer[c], toClient[c] \o s)
    PROVE  Keeps(c)
<1>1. ToClientMoved(c) /\ (Gone(c) \/ toClient'[c] = toClient[c] \o s)
  BY Replied
<1>2. Moved(c)
  BY <1>1, Unmoved DEF Moved
<1>3. Exchange(c)'
  BY <1>1, ChildMoved
<1>4. ClientPlace(c)'
  BY ClientPlaceStays
<1> QED BY <1>2, <1>3, <1>4, OthersStay

\* A reply of which the parts that matter are known, to a client that waits for one.
LEMMA Beginning ==
    ASSUME NEW x \in Streams, NEW s \in Streams, Len(x) = 0
    PROVE  x \o s = s
BY ConcatEmptySeq DEF Streams

\* pwd, ls, cd, mkdir and rmdir: the lines of the reply.
LEMMA ReplyLinesKeeps ==
    ASSUME IInv, NEW c \in Clients, ReplyLines(c)
    PROVE  Keeps(c)
<1>0. /\ UNCHANGED <<client, toServer, local, inode, name, lapses>> /\ Done(c)
      /\ server[c].pc \in {"text", "listing"}
  BY DEF ReplyLines
<1>1. PICK k \in Nat : Reply(c, Lines(k) \o Terminator)
  BY Constants DEF ReplyLines
<1> DEFINE s == Lines(k) \o Terminator
<1>2. s \in Streams /\ Listing(s)
  BY ListingIs
<1> HIDE DEF s
<1>3. /\ ServerMoved(c) /\ server'[c].pc = "request" /\ server'[c].length = 0
  BY <1>0, WasDone
<1>4. ServerPlace(c)'
  BY <1>3 DEF ServerPlace
<1>5. lapses[c] = {} => Len(toServer[c]) = 0
  BY <1>0, Upright DEF ServerSide
<1>6. lapses[c] = {} => ServerSide("request", 0, toServer[c])
  BY <1>5 DEF ServerSide
<1>7. ASSUME lapses[c] = {}, ~Gone(c)
      PROVE  BothSides(client[c].pc, client[c].skip, client[c].length,
                       "request", 0, toServer[c], toClient[c] \o s)
  <2>1. client[c].pc = "reply" /\ Len(toServer[c]) = 0 /\ (Len(toClient[c]) = 0 \/ Header(toClient[c]))
    BY <1>0, <1>7, Upright, Where
  <2>2. Listing(toClient[c] \o s) \/ Headed(toClient[c] \o s)
    <3>1. CASE Len(toClient[c]) = 0
      BY <1>2, <3>1, Upright, Beginning
    <3>2. CASE Header(toClient[c])
      <4>1. Len(s) >= LINEMAX
        BY <1>2, ListingRead
      <4>2. /\ Len(toClient[c] \o s) = Len(toClient[c]) + Len(s) /\ Len(s) \in Nat
            /\ \A i \in 1 .. Len(toClient[c]) : (toClient[c] \o s)[i] = toClient[c][i]
        BY <1>2, Upright, Joined
      <4>3. Len(toClient[c]) = HEADER /\ HEADER \in Nat /\ HEADER > 0 /\ LINEMAX \in Nat
        BY <3>2, Constants DEF Header
      <4>4. (toClient[c] \o s)[1] = Text("header") /\ Len(toClient[c] \o s) >= LINEMAX
        BY <3>2, <4>1, <4>2, <4>3 DEF Header
      <4> QED BY <4>4 DEF Headed
    <3> QED BY <2>1, <3>1, <3>2
  <2>3. toClient[c] \o s \in Streams
    BY <1>2, Upright, Joined
  <2> QED BY <1>2, <2>1, <2>2, <2>3, Upright, AfterLines, Constants
<1>8. Reply(c, s)
  BY <1>1 DEF s
<1> QED BY <1>0, <1>2, <1>3, <1>4, <1>6, <1>7, <1>8, Unmoved, ReplyKeeps

\* ls pathname: the header goes first.
LEMMA ReplyHeaderKeeps ==
    ASSUME IInv, NEW c \in Clients, ReplyHeader(c)
    PROVE  Keeps(c)
<1>0. /\ UNCHANGED <<client, toServer, local, inode, name, lapses>> /\ Goto(c, "listing")
      /\ server[c].pc = "ls" /\ Reply(c, HeaderLine)
  BY DEF ReplyHeader, HeaderLine
<1>1. HeaderLine \in Streams /\ Header(HeaderLine)
  BY HeaderIs
<1>2. ServerMoved(c) /\ server'[c].pc = "listing" /\ server'[c].length = server[c].length
  BY <1>0, WentTo DEF ServerPcs
<1>3. ServerPlace(c)'
  BY <1>2 DEF ServerPlace
<1>4. lapses[c] = {} => ServerSide("listing", server[c].length, toServer[c])
  BY <1>0, Upright DEF ServerSide
<1>5. ASSUME lapses[c] = {}, ~Gone(c)
      PROVE  BothSides(client[c].pc, client[c].skip, client[c].length,
                       "listing", server[c].length, toServer[c], toClient[c] \o HeaderLine)
  <2>1. client[c].pc = "reply" /\ Len(toServer[c]) = 0 /\ Len(toClient[c]) = 0
    BY <1>0, <1>5, Upright, Where
  <2>2. toClient[c] \o HeaderLine = HeaderLine
    BY <1>1, <2>1, Upright, Beginning
  <2> QED BY <1>1, <2>1, <2>2 DEF BothSides, InReply
<1> QED BY <1>0, <1>1, <1>2, <1>3, <1>4, <1>5, Unmoved, ReplyKeeps

\* An unknown command: a line and the terminator, the two the client drops.
LEMMA ReplyNotFoundKeeps ==
    ASSUME IInv, NEW c \in Clients, ReplyNotFound(c)
    PROVE  Keeps(c)
<1> DEFINE s == Line("line") \o Terminator
<1>0. /\ UNCHANGED <<client, toServer, local, inode, name, lapses>> /\ Done(c)
      /\ server[c].pc = "bad" /\ Reply(c, s)
  BY DEF ReplyNotFound
<1>1. s \in Streams /\ Len(s) = 2 * LINEMAX
  <2>1. s \in Streams /\ Len(s) = LINEMAX + Len(Terminator) /\ Len(Terminator) = LINEMAX
    BY LineAnd, TerminatorIs DEF Replies, Starts
  <2> QED BY <2>1, Constants
<1> HIDE DEF s
<1>2. ServerMoved(c) /\ server'[c].pc = "request" /\ server'[c].length = 0
  BY <1>0, WasDone
<1>3. ServerPlace(c)'
  BY <1>2 DEF ServerPlace
<1>4. lapses[c] = {} => ServerSide("request", 0, toServer[c])
  BY <1>0, Upright DEF ServerSide
<1>5. ASSUME lapses[c] = {}, ~Gone(c)
      PROVE  BothSides(client[c].pc, client[c].skip, client[c].length,
                       "request", 0, toServer[c], toClient[c] \o s)
  <2>1. client[c].pc = "skip" /\ client[c].skip = 2 /\ Len(toServer[c]) = 0 /\ Len(toClient[c]) = 0
    BY <1>0, <1>5, Upright, Where
  <2>2. toClient[c] \o s = s
    BY <1>1, <2>1, Upright, Beginning
  <2> QED BY <1>1, <2>1, <2>2, Upright, AfterNotFound, Constants
<1> QED BY <1>0, <1>1, <1>2, <1>3, <1>4, <1>5, Unmoved, ReplyKeeps

\* A file that nothing stands for any more is emptied, and that only.
LEMMA KeptIs ==
    ASSUME IInv, NEW c \in Clients, NEW nm, NEW contents \in [Inodes -> Streams],
           \A i \in Inodes : Len(contents[i]) <= MaxSize /\ Len(contents[i]) >= Len(inode[i]),
           inode' = Kept(c, contents, nm)
    PROVE  InodesMoved(c)
<1>1. <<>> \in Streams /\ Len(<<>>) = 0 /\ 0 <= MaxSize
  BY Constants DEF Streams
<1>2. inode' = [i \in Inodes |-> IF i = nm \/ \E d \in Clients \ {c} : server[d].inode = i
                                 THEN contents[i] ELSE <<>>]
  BY DEF Kept
<1>3. inode' \in [Inodes -> Streams]
  BY <1>1, <1>2
<1>4. \A i \in Inodes : Len(inode'[i]) <= MaxSize
  BY <1>1, <1>2
<1>5. \A d \in Clients \ {c} : \A i \in Inodes :
        server[d].inode = i => Len(inode'[i]) >= Len(inode[i])
  BY <1>2
<1> QED BY <1>3, <1>4, <1>5 DEF InodesMoved

\* rm: the others keep the files they have open.
LEMMA RemoveFileKeeps ==
    ASSUME IInv, NEW c \in Clients, RemoveFile(c)
    PROVE  Keeps(c)
<1> DEFINE s == Lines(3) \o Terminator
<1>0. /\ UNCHANGED <<client, toServer, local, lapses>> /\ Done(c)
      /\ server[c].pc = "rm" /\ Reply(c, s)
      /\ name' = NoInode /\ inode' = Kept(c, inode, NoInode)
  BY DEF RemoveFile
<1>1. s \in Streams /\ Listing(s)
  BY ListingIs
<1> HIDE DEF s
<1>2. ServerMoved(c) /\ server'[c].pc = "request" /\ server'[c].length = 0
  BY <1>0, WasDone
<1>3. ServerPlace(c)'
  BY <1>2 DEF ServerPlace
<1>4. lapses[c] = {} => ServerSide("request", 0, toServer[c])
  BY <1>0, Upright DEF ServerSide
<1>5. ASSUME lapses[c] = {}, ~Gone(c)
      PROVE  BothSides(client[c].pc, client[c].skip, client[c].length,
                       "request", 0, toServer[c], toClient[c] \o s)
  <2>1. client[c].pc = "reply" /\ Len(toServer[c]) = 0 /\ Len(toClient[c]) = 0
    BY <1>0, <1>5, Upright, Where
  <2>2. toClient[c] \o s = s
    BY <1>1, <2>1, Upright, Beginning
  <2> QED BY <1>1, <2>1, <2>2, Upright, AfterLines, Constants
<1>6. InodesMoved(c)
  <2>1. inode \in [Inodes -> Streams] /\ \A i \in Inodes : Len(inode[i]) <= MaxSize
    BY DEF IInv, Types, Room
  <2>2. \A i \in Inodes : Len(inode[i]) >= Len(inode[i])
    BY <2>1 DEF Streams
  <2> QED BY <1>0, <2>1, <2>2, KeptIs
<1> QED BY <1>0, <1>1, <1>2, <1>3, <1>4, <1>5, <1>6, Unmoved, ReplyKeeps

\* A step of the child that nobody sees.
LEMMA SilentKeeps ==
    ASSUME IInv, NEW c \in Clients,
           UNCHANGED <<client, toClient, local, name>>,
           ServerMoved(c), ToServerMoved(c), LapsesMoved(c), InodesMoved(c), ServerPlace(c)',
           lapses'[c] = {} /\ Gone(c) => ServerSide(server'[c].pc, server'[c].length, toServer'[c]),
           lapses'[c] = {} /\ ~Gone(c) =>
                BothSides(client[c].pc, client[c].skip, client[c].length,
                          server'[c].pc, server'[c].length, toServer'[c], toClient[c])
    PROVE  Keeps(c)
<1>1. Moved(c)
  BY Unmoved DEF Moved
<1>2. Exchange(c)'
  BY ChildMoved
<1>3. ClientPlace(c)'
  BY ClientPlaceStays
<1> QED BY <1>1, <1>2, <1>3, OthersStay

\* get and cat: the error, or the file is open.
LEMMA GetOpenKeeps ==
    ASSUME IInv, NEW c \in Clients, GetOpen(c)
    PROVE  Keeps(c)
<1>0. UNCHANGED <<client, toServer, local, inode, name, lapses>> /\ server[c].pc = "get.open"
  BY DEF GetOpen
<1>1. lapses[c] = {} => Len(toServer[c]) = 0
  BY <1>0, Upright DEF ServerSide
<1>2. lapses[c] = {} /\ ~Gone(c) =>
        client[c].pc = "get.reply" /\ Len(toServer[c]) = 0 /\ Len(toClient[c]) = 0
  BY <1>0, Upright, Where
<1>3. CASE Reply(c, ErrorLines) /\ Done(c)
  <2>1. Reply(c, ErrorLines) /\ Done(c)
    BY <1>3
  <2>2. ErrorLines \in Streams /\ Len(ErrorLines) = 4 * LINEMAX /\ ErrorLines[1] = Text("Error")
    BY ErrorLinesAre
  <2>3. ServerMoved(c) /\ server'[c].pc = "request" /\ server'[c].length = 0
    BY <2>1, WasDone
  <2>4. ServerPlace(c)'
    BY <2>3 DEF ServerPlace
  <2>5. lapses[c] = {} => ServerSide("request", 0, toServer[c])
    BY <1>1 DEF ServerSide
  <2>6. ASSUME lapses[c] = {}, ~Gone(c)
        PROVE  BothSides(client[c].pc, client[c].skip, client[c].length,
                         "request", 0, toServer[c], toClient[c] \o ErrorLines)
    <3>1. toClient[c] \o ErrorLines = ErrorLines
      BY <1>2, <2>2, <2>6, Upright, Beginning
    <3>2. /\ client[c].skip \in 0 .. 3 /\ client[c].length \in 0 .. MaxSize
          /\ toServer[c] \in Streams /\ 0 \in 0 .. MaxSize
      BY Upright, Constants
    <3>3. client[c].pc = "get.reply" /\ Len(toServer[c]) = 0
      BY <1>2, <2>6
    <3> QED BY <2>2, <3>1, <3>2, <3>3, AfterGetError
  <2> QED BY <1>0, <2>1, <2>2, <2>3, <2>4, <2>5, <2>6, Unmoved, ReplyKeeps
<1>4. CASE /\ name # NoInode
           /\ server' = [server EXCEPT ![c] = [Idle EXCEPT !.pc = "get.stat", !.inode = name]]
           /\ UNCHANGED toClient
  <2>1. /\ server' = [server EXCEPT ![c] = [Idle EXCEPT !.pc = "get.stat", !.inode = name]]
        /\ UNCHANGED toClient
    BY <1>4
  <2>2. name \in Inodes
    BY <1>4 DEF IInv, Types
  <2>4. /\ ServerMoved(c) /\ server'[c].pc = "get.stat" /\ server'[c].length = 0
        /\ server'[c].inode = name
    BY <2>1, <2>2, HasOpened DEF ServerPcs
  <2>5. ServerPlace(c)'
    BY <2>2, <2>4 DEF ServerPlace
  <2>6. lapses[c] = {} => ServerSide("get.stat", 0, toServer[c])
    BY <1>1 DEF ServerSide
  <2>7. lapses[c] = {} /\ ~Gone(c) =>
            BothSides(client[c].pc, client[c].skip, client[c].length,
                      "get.stat", 0, toServer[c], toClient[c])
    BY <1>2 DEF BothSides, InGetReply
  <2> QED BY <1>0, <2>1, <2>4, <2>5, <2>6, <2>7, Unmoved, SilentKeeps
<1> QED BY <1>3, <1>4 DEF GetOpen, ErrorLines

\* The length goes first.
LEMMA GetStatKeeps ==
    ASSUME IInv, NEW c \in Clients, GetStat(c)
    PROVE  Keeps(c)
<1>0. UNCHANGED <<client, toServer, local, inode, name>> /\ server[c].pc = "get.stat"
  BY DEF GetStat
<1>1. CASE name = NoInode
  <2>1. Goto(c, "garbled") /\ lapses' = [lapses EXCEPT ![c] = @ \cup {"size"}] /\ UNCHANGED toClient
    BY <1>1 DEF GetStat
  <2>2. ServerMoved(c) /\ server'[c].pc = "garbled"
    BY <2>1, WentTo DEF ServerPcs
  <2>3. LapsesMoved(c) /\ lapses'[c] # {}
    BY <2>1, Lapsed DEF Lapses
  <2>4. ServerPlace(c)'
    BY <2>2 DEF ServerPlace
  <2> QED BY <1>0, <2>1, <2>2, <2>3, <2>4, Unmoved, SilentKeeps
<1>2. CASE name # NoInode
  <2> DEFINE n == Len(inode[name])
             s == Line("found") \o <<Long(n)>>
  <2>1. /\ server' = [server EXCEPT ![c].pc = "get.data", ![c].length = n]
        /\ Reply(c, s) /\ UNCHANGED lapses
    BY <1>2 DEF GetStat
  <2>2. n \in 0 .. MaxSize
    BY <1>2, Constants DEF IInv, Types, Room, Streams
  <2>3. s \in Streams /\ Len(s) = LINEMAX + 1 /\ s[1] = Text("found") /\ s[LINEMAX + 1] = Long(n)
    <3> DEFINE one == <<Long(n)>>
    <3>1. one \in Streams /\ Len(one) = 1 /\ one[1] = Long(n)
      BY <2>2, UnitTypes DEF Streams
    <3>2. "found" \in Requests \cup Careless \cup Replies
      BY DEF Replies
    <3>3. s = Line("found") \o one
      OBVIOUS
    <3> HIDE DEF s, one
    <3>4. /\ s \in Streams /\ Len(s) = LINEMAX + Len(one) /\ s[1] = Text("found")
          /\ Len(one) > 0 => s[LINEMAX + 1] = one[1]
      BY <3>1, <3>2, <3>3, LineAnd
    <3> QED BY <3>1, <3>4
  <2> HIDE DEF s, n
  <2>4. server[c].inode \in Inodes /\ server \in [Clients -> ServerStates]
    BY <1>0 DEF IInv, Types, Places, ServerPlace
  <2>5. /\ ServerMoved(c) /\ server'[c].pc = "get.data" /\ server'[c].length = n
        /\ server'[c].inode = server[c].inode
    BY <2>1, <2>2, <2>4 DEF ServerMoved, ServerStates, ServerPcs
  <2>6. ServerPlace(c)'
    BY <2>4, <2>5 DEF ServerPlace
  <2>7. lapses[c] = {} => ServerSide("get.data", n, toServer[c])
    BY <1>0, Upright DEF ServerSide
  <2>8. ASSUME lapses[c] = {}, ~Gone(c)
        PROVE  BothSides(client[c].pc, client[c].skip, client[c].length,
                         "get.data", n, toServer[c], toClient[c] \o s)
    <3>1. client[c].pc = "get.reply" /\ Len(toServer[c]) = 0 /\ Len(toClient[c]) = 0
      BY <1>0, <2>8, Upright, Where
    <3>2. toClient[c] \o s = s
      BY <2>3, <3>1, Upright, Beginning
    <3> QED BY <2>2, <2>3, <3>1, <3>2, Upright, AfterFound
  <2> QED BY <1>0, <2>1, <2>3, <2>5, <2>6, <2>7, <2>8, Unmoved, ReplyKeeps
<1> QED BY <1>1, <1>2

\* What a read of the file returns.
LEMMA FromFileIs ==
    ASSUME IInv, NEW c \in Clients, server[c].pc = "get.data"
    PROVE  /\ FromFile(c) \in Streams /\ Len(FromFile(c)) \in 0 .. LINEMAX
           /\ server[c].pos + Len(FromFile(c)) \in 0 .. MaxSize
<1> DEFINE s == inode[server[c].inode]
           a == server[c].pos
           b == Least(Len(s), a + LINEMAX)
<1>1. server[c].inode \in Inodes
  BY DEF IInv, Places, ServerPlace
<1>2. s \in Streams /\ Len(s) <= MaxSize /\ Len(s) \in Nat /\ a \in 0 .. MaxSize
  BY <1>1, Upright DEF IInv, Types, Room, Streams
<1>3. FromFile(c) = SubSeq(s, a + 1, b)
  BY DEF FromFile
<1> HIDE DEF s, a
<1>4. b \in Nat /\ b <= Len(s) /\ b <= a + LINEMAX /\ MaxSize \in Nat /\ LINEMAX \in Nat /\ a \in Nat
  BY <1>2, Constants DEF Least
<1> HIDE DEF b
<1>5. \A i \in a + 1 .. b : s[i] \in Units
  BY <1>2, <1>4 DEF Streams
<1>6. /\ SubSeq(s, a + 1, b) \in Seq(Units)
      /\ Len(SubSeq(s, a + 1, b)) = IF a + 1 <= b THEN b - (a + 1) + 1 ELSE 0
  BY <1>2, <1>4, <1>5, SubSeqProperties DEF Streams
<1>7. Len(FromFile(c)) = IF a + 1 <= b THEN b - a ELSE 0
  BY <1>3, <1>4, <1>6
<1>8. Len(FromFile(c)) \in 0 .. LINEMAX /\ a + Len(FromFile(c)) \in 0 .. MaxSize
  BY <1>2, <1>4, <1>7
<1> QED BY <1>3, <1>6, <1>8 DEF Streams, a

\* A buffer that is sent or written whole.
LEMMA FilledIs ==
    ASSUME NEW s \in Streams, Len(s) <= LINEMAX
    PROVE  Filled(s) \in Streams /\ Len(Filled(s)) = LINEMAX
<1>1. Len(s) \in Nat /\ LINEMAX - Len(s) \in Nat /\ LINEMAX \in Nat
  BY Constants DEF Streams
<1>2. Rests(LINEMAX - Len(s)) \in Streams /\ Len(Rests(LINEMAX - Len(s))) = LINEMAX - Len(s)
  BY <1>1, RestsAre
<1>3. Filled(s) \in Streams /\ Len(Filled(s)) = Len(s) + (LINEMAX - Len(s))
  BY <1>2, Joined DEF Filled
<1> QED BY <1>1, <1>3

\* The lapse of a file whose length is not what stat said.
LEMMA SizeLapsed ==
    ASSUME IInv, NEW c \in Clients, NEW differs \in BOOLEAN, SizeLapse(c, differs)
    PROVE  LapsesMoved(c) /\ (lapses'[c] = {} => lapses[c] = {} /\ ~differs)
<1> DEFINE X == IF differs THEN {"size"} ELSE {}
<1>1. X \in SUBSET Lapses
  BY DEF Lapses
<1>2. lapses' = [lapses EXCEPT ![c] = @ \cup X]
  BY Zenon DEF SizeLapse
<1>3. X = {} => ~differs
  OBVIOUS
<1> HIDE DEF X
<1> QED BY <1>1, <1>2, <1>3, Lapsed

\* A line of the file.
LEMMA GetChunkKeeps ==
    ASSUME IInv, NEW c \in Clients, GetChunk(c)
    PROVE  Keeps(c)
<1> DEFINE s == FromFile(c)
<1>0. /\ UNCHANGED <<client, toServer, local, inode, name>> /\ server[c].pc = "get.data"
      /\ server[c].length > LINEMAX /\ Reply(c, Filled(s)) /\ SizeLapse(c, Len(s) < LINEMAX)
      /\ server' = [server EXCEPT ![c].length = @ - Len(s), ![c].pos = @ + Len(s)]
  BY DEF GetChunk
<1>1. s \in Streams /\ Len(s) \in 0 .. LINEMAX /\ server[c].pos + Len(s) \in 0 .. MaxSize
  BY <1>0, FromFileIs
<1> HIDE DEF s
<1>2. Filled(s) \in Streams /\ Len(Filled(s)) = LINEMAX
  BY <1>1, FilledIs, Constants
<1>3. LapsesMoved(c) /\ (lapses'[c] = {} => lapses[c] = {} /\ Len(s) = LINEMAX)
  <2> DEFINE short == Len(s) < LINEMAX
  <2>1. short \in BOOLEAN /\ SizeLapse(c, short)
    BY <1>0
  <2>2. ~short => Len(s) = LINEMAX
    <3>1. LINEMAX \in Nat
      BY Constants
    <3> QED BY <1>1, <3>1
  <2> HIDE DEF short
  <2> QED BY <2>1, <2>2, SizeLapsed
<1>4. server[c].length - Len(s) \in 0 .. MaxSize
  <2> DEFINE left == server[c].length
             n == Len(s)
  <2>1. /\ left \in 0 .. MaxSize /\ left > LINEMAX /\ n \in 0 .. LINEMAX
        /\ LINEMAX \in Nat /\ MaxSize \in Nat
    BY <1>0, <1>1, Upright, Constants
  <2> HIDE DEF left, n
  <2>2. left - n \in 0 .. MaxSize
    BY <2>1
  <2> QED BY <2>2 DEF left, n
<1>5. /\ ServerMoved(c) /\ server'[c].pc = "get.data" /\ server'[c].length = server[c].length - Len(s)
      /\ server'[c].inode = server[c].inode
  <2>1. server \in [Clients -> ServerStates]
    BY DEF IInv, Types
  <2> QED BY <1>0, <1>1, <1>4, <2>1 DEF ServerMoved, ServerStates
<1>6. ServerPlace(c)'
  BY <1>0, <1>5 DEF IInv, Places, ServerPlace
<1>7. lapses[c] = {} => ServerSide("get.data", server'[c].length, toServer[c])
  BY <1>0, Upright DEF ServerSide
<1>8. ASSUME lapses'[c] = {}, ~Gone(c)
      PROVE  BothSides(client[c].pc, client[c].skip, client[c].length,
                       "get.data", server[c].length - Len(s), toServer[c], toClient[c] \o Filled(s))
  <2>1. Len(s) = LINEMAX /\ server[c].length - LINEMAX \in Nat
    BY <1>3, <1>4, <1>8
  <2>2. BothSides(client[c].pc, client[c].skip, client[c].length,
                  "get.data", server[c].length, toServer[c], toClient[c])
    BY <1>0, <1>3, <1>8, Upright
  <2> QED BY <1>0, <1>2, <1>3, <1>8, <2>1, <2>2, Upright, AfterData
<1> QED BY <1>0, <1>2, <1>3, <1>5, <1>6, <1>7, <1>8, Unmoved, ReplyKeeps

\* The last units, and the terminator.
LEMMA GetLastKeeps ==
    ASSUME IInv, NEW c \in Clients, GetLast(c)
    PROVE  Keeps(c)
<1> DEFINE s == FromFile(c) \o Terminator
<1>0. /\ UNCHANGED <<client, toServer, local, name>> /\ server[c].pc = "get.data"
      /\ Reply(c, s) /\ SizeLapse(c, Len(FromFile(c)) # server[c].length)
      /\ Done(c) /\ inode' = Kept(c, inode, name)
  BY DEF GetLast
<1>1. FromFile(c) \in Streams /\ Terminator \in Streams /\ Len(Terminator) = LINEMAX
  BY <1>0, FromFileIs, TerminatorIs DEF Starts
<1>2. s \in Streams /\ Len(s) = Len(FromFile(c)) + LINEMAX
  BY <1>1, Joined
<1> HIDE DEF s
<1>3. LapsesMoved(c) /\ (lapses'[c] = {} => lapses[c] = {} /\ Len(FromFile(c)) = server[c].length)
  BY <1>0, SizeLapsed
<1>4. ServerMoved(c) /\ server'[c].pc = "request" /\ server'[c].length = 0
  BY <1>0, WasDone
<1>5. ServerPlace(c)'
  BY <1>4 DEF ServerPlace
<1>6. lapses[c] = {} => ServerSide("request", 0, toServer[c])
  BY <1>0, Upright DEF ServerSide
<1>7. ASSUME lapses'[c] = {}, ~Gone(c)
      PROVE  BothSides(client[c].pc, client[c].skip, client[c].length,
                       "request", 0, toServer[c], toClient[c] \o s)
  <2>1. Len(s) = server[c].length + LINEMAX
    BY <1>2, <1>3, <1>7
  <2>2. BothSides(client[c].pc, client[c].skip, client[c].length,
                  "get.data", server[c].length, toServer[c], toClient[c])
    BY <1>0, <1>3, <1>7, Upright
  <2> QED BY <1>2, <1>3, <1>7, <2>1, <2>2, Upright, AfterData
<1>8. InodesMoved(c)
  <2>1. inode \in [Inodes -> Streams] /\ \A i \in Inodes : Len(inode[i]) <= MaxSize
    BY DEF IInv, Types, Room
  <2>2. \A i \in Inodes : Len(inode[i]) >= Len(inode[i])
    BY <2>1 DEF Streams
  <2> QED BY <1>0, <2>1, <2>2, KeptIs
<1> QED BY <1>0, <1>2, <1>3, <1>4, <1>5, <1>6, <1>7, <1>8, Unmoved, ReplyKeeps

\* The error of put, before it opens its file or because it cannot.
LEMMA PutErrorKeeps ==
    ASSUME IInv, NEW c \in Clients, server[c].pc \in {"put.check", "put.open"},
           UNCHANGED <<client, toServer, local, inode, name, lapses>>,
           Reply(c, Line("error") \o Terminator), Done(c)
    PROVE  Keeps(c)
<1> DEFINE s == Line("error") \o Terminator
<1>1. lapses[c] = {} => Len(toServer[c]) = 0
  BY Upright DEF ServerSide
<1>2. lapses[c] = {} /\ ~Gone(c) =>
        client[c].pc = "put.reply" /\ Len(toServer[c]) = 0 /\ Len(toClient[c]) = 0
  BY Upright, Where
<1>3. s \in Streams /\ Len(s) = 2 * LINEMAX /\ s[1] = Text("error")
  <2>1. /\ s \in Streams /\ Len(s) = LINEMAX + Len(Terminator) /\ Len(Terminator) = LINEMAX
        /\ s[1] = Text("error")
    BY LineAnd, TerminatorIs DEF Replies, Starts
  <2> QED BY <2>1, Constants
<1>4. Reply(c, s)
  OBVIOUS
<1> HIDE DEF s
<1>5. ServerMoved(c) /\ server'[c].pc = "request" /\ server'[c].length = 0
  BY WasDone
<1>6. ServerPlace(c)'
  BY <1>5 DEF ServerPlace
<1>7. lapses[c] = {} => ServerSide("request", 0, toServer[c])
  BY <1>1 DEF ServerSide
<1>8. ASSUME lapses[c] = {}, ~Gone(c)
      PROVE  BothSides(client[c].pc, client[c].skip, client[c].length,
                       "request", 0, toServer[c], toClient[c] \o s)
  <2>1. toClient[c] \o s = s
    BY <1>2, <1>3, <1>8, Upright, Beginning
  <2> QED BY <1>2, <1>3, <1>8, <2>1 DEF BothSides, InPutReply
<1> QED BY <1>3, <1>4, <1>5, <1>6, <1>7, <1>8, Unmoved, ReplyKeeps

\* put: the error, or on to open.
LEMMA PutCheckKeeps ==
    ASSUME IInv, NEW c \in Clients, PutCheck(c)
    PROVE  Keeps(c)
<1>0. UNCHANGED <<client, toServer, local, inode, name, lapses>> /\ server[c].pc = "put.check"
  BY DEF PutCheck
<1>1. lapses[c] = {} => Len(toServer[c]) = 0
  BY <1>0, Upright DEF ServerSide
<1>2. lapses[c] = {} /\ ~Gone(c) =>
        client[c].pc = "put.reply" /\ Len(toServer[c]) = 0 /\ Len(toClient[c]) = 0
  BY <1>0, Upright, Where
<1>3. CASE name = NoInode
  <2>1. Goto(c, "put.open") /\ UNCHANGED toClient
    BY <1>3 DEF PutCheck
  <2>2. ServerMoved(c) /\ server'[c].pc = "put.open" /\ server'[c].length = server[c].length
    BY <2>1, WentTo DEF ServerPcs
  <2>3. ServerPlace(c)'
    BY <2>2 DEF ServerPlace
  <2>4. lapses[c] = {} => ServerSide("put.open", server[c].length, toServer[c])
    BY <1>1 DEF ServerSide
  <2>5. lapses[c] = {} /\ ~Gone(c) =>
            BothSides(client[c].pc, client[c].skip, client[c].length,
                      "put.open", server[c].length, toServer[c], toClient[c])
    BY <1>2 DEF BothSides, InPutReply
  <2> QED BY <1>0, <2>1, <2>2, <2>3, <2>4, <2>5, Unmoved, SilentKeeps
<1>4. CASE name # NoInode
  BY <1>0, <1>4, PutErrorKeeps DEF PutCheck
<1> QED BY <1>3, <1>4

\* There is an inode for a new file: one more than the children can have open.
LEMMA FreeInode ==
    ASSUME IInv, name = NoInode
    PROVE  Inodes \ InUse # {}
<1> DEFINE Held == {server[c].inode : c \in Clients}
<1>1. SUFFICES ASSUME Inodes \ InUse = {} PROVE FALSE
  OBVIOUS
<1>2. IsFiniteSet(Clients) /\ Cardinality(Clients) \in Nat
  BY ServerAssumption, FS_CardinalityType
<1>3. IsFiniteSet(Held) /\ Cardinality(Held) <= Cardinality(Clients)
  <2> DEFINE F == [c \in Clients |-> server[c].inode]
  <2>1. F \in Surjection(Clients, Held)
    BY DEF Surjection
  <2> HIDE DEF F, Held
  <2> QED BY <1>2, <2>1, FS_Surjection
<1>4. Inodes \subseteq Held
  BY <1>1, Constants DEF InUse
<1>5. Cardinality(Inodes) = Cardinality(Clients) + 1
  BY <1>2, FS_Interval DEF Inodes
<1> HIDE DEF Held
<1>6. Cardinality(Inodes) <= Cardinality(Held)
  BY <1>3, <1>4, FS_Subset
<1>7. Cardinality(Held) \in Nat
  BY <1>3, FS_CardinalityType
<1> QED BY <1>2, <1>3, <1>5, <1>6, <1>7

\* put: open fails.
LEMMA PutRefuseKeeps ==
    ASSUME IInv, NEW c \in Clients, PutRefuse(c)
    PROVE  Keeps(c)
BY PutErrorKeeps DEF PutRefuse

\* put: a new file, or the one that another child has made.
LEMMA PutOpenKeeps ==
    ASSUME IInv, NEW c \in Clients, PutOpen(c)
    PROVE  Keeps(c)
<1> DEFINE new == CHOOSE i \in Inodes \ InUse : TRUE
           i == IF name = NoInode THEN new ELSE name
           s == Line("opened")
<1>0. /\ UNCHANGED <<client, toServer, local, lapses>> /\ server[c].pc = "put.open"
      /\ server' = [server EXCEPT ![c] = [Idle EXCEPT !.pc = "put.ready", !.inode = i]]
      /\ name' = i /\ Reply(c, s)
      /\ inode' = IF name = NoInode THEN [inode EXCEPT ![new] = <<>>] ELSE inode
  BY DEF PutOpen
<1>1. name = NoInode => new \in Inodes \ InUse
  BY FreeInode
<1> HIDE DEF new
<1>2. i \in Inodes
  BY <1>1 DEF IInv, Types
<1>3. InodesMoved(c)
  <2>1. CASE name = NoInode
    <3>1. inode \in [Inodes -> Streams] /\ \A j \in Inodes : Len(inode[j]) <= MaxSize
      BY DEF IInv, Types, Room
    <3>2. inode' = [inode EXCEPT ![new] = <<>>] /\ new \in Inodes
      BY <1>0, <1>1, <2>1
    <3>3. <<>> \in Streams /\ Len(<<>>) = 0 /\ 0 <= MaxSize
      BY Constants DEF Streams
    <3>4. inode' \in [Inodes -> Streams] /\ \A j \in Inodes : Len(inode'[j]) <= MaxSize
      BY <3>1, <3>2, <3>3
    <3>5. ASSUME NEW d \in Clients \ {c}, NEW j \in Inodes, server[d].inode = j
          PROVE  Len(inode'[j]) >= Len(inode[j])
      <4>1. j # new
        BY <1>1, <2>1, <3>5 DEF InUse
      <4>2. inode'[j] = inode[j] /\ Len(inode[j]) \in Nat
        BY <3>1, <3>2, <4>1 DEF Streams
      <4> QED BY <4>2
    <3> QED BY <3>4, <3>5 DEF InodesMoved
  <2>2. CASE name # NoInode
    BY <1>0, <2>2, Unmoved
  <2> QED BY <2>1, <2>2
<1> HIDE DEF i
<1>4. /\ ServerMoved(c) /\ server'[c].pc = "put.ready" /\ server'[c].length = 0
      /\ server'[c].inode = i /\ server'[c].pos = 0
  BY <1>0, <1>2, HasOpened DEF ServerPcs
<1>5. ServerPlace(c)'
  BY <1>2, <1>4 DEF ServerPlace
<1>6. s \in Streams /\ Starts(s, Text("opened"))
  BY LineIs DEF Replies
<1> HIDE DEF s
<1>7. lapses[c] = {} => ServerSide("put.ready", 0, toServer[c])
  BY <1>0, Upright DEF ServerSide
<1>8. ASSUME lapses[c] = {}, ~Gone(c)
      PROVE  BothSides(client[c].pc, client[c].skip, client[c].length,
                       "put.ready", 0, toServer[c], toClient[c] \o s)
  <2>1. client[c].pc = "put.reply" /\ Len(toServer[c]) = 0 /\ Len(toClient[c]) = 0
    BY <1>0, <1>8, Upright, Where
  <2>2. toClient[c] \o s = s
    BY <1>6, <2>1, Upright, Beginning
  <2> QED BY <1>6, <2>1, <2>2 DEF BothSides, InPutReply
<1> QED BY <1>0, <1>2, <1>3, <1>4, <1>5, <1>6, <1>7, <1>8, Unmoved, ReplyKeeps

\* The lapse of a read that is cut short.
LEMMA CutLapsed ==
    ASSUME IInv, NEW c \in Clients, NEW s, NEW want, NEW n,
           lapses' = [lapses EXCEPT ![c] = @ \cup Cut(s, want, n)]
    PROVE  LapsesMoved(c) /\ (lapses'[c] = {} => lapses[c] = {} /\ Cut(s, want, n) = {})
<1>1. Cut(s, want, n) \in SUBSET Lapses
  BY DEF Cut, Lapses
<1> QED BY <1>1, Lapsed

\* The line "ready to send file".
LEMMA PutReadyKeeps ==
    ASSUME IInv, NEW c \in Clients, PutReady(c)
    PROVE  Keeps(c)
<1> DEFINE up == toServer[c]
<1>0. /\ UNCHANGED <<client, toClient, local, inode, name>> /\ server[c].pc = "put.ready"
      /\ Goto(c, "put.length") /\ LINEMAX \in Nat /\ LINEMAX > 1
  BY Constants DEF PutReady
<1>1. PICK n \in 0 .. LINEMAX :
        /\ ServerRead(c, LINEMAX, n)
        /\ lapses' = [lapses EXCEPT ![c] = @ \cup Cut(up, LINEMAX, n)]
  BY DEF PutReady
<1>2. /\ ToServerMoved(c) /\ toServer'[c] = Without(up, n) /\ n \in 0 .. Len(up)
      /\ n = 0 => LINEMAX = 0 \/ AtEnd(c)
      /\ n # 0 => n \in Amounts(c, up, LINEMAX)
  BY <1>0, <1>1, ServerHasRead
<1>3. LapsesMoved(c) /\ (lapses'[c] = {} => lapses[c] = {} /\ Cut(up, LINEMAX, n) = {})
  BY <1>1, CutLapsed
<1>4. /\ ServerMoved(c) /\ server'[c].pc = "put.length" /\ server'[c].length = server[c].length
      /\ server'[c].inode = server[c].inode /\ server'[c].pos = server[c].pos
  BY <1>0, WentTo DEF ServerPcs
<1>5. ServerPlace(c)'
  BY <1>0, <1>4 DEF IInv, Places, ServerPlace
<1>6. up \in Streams /\ Len(up) \in Nat
  BY Upright
<1> HIDE DEF up
<1>7. lapses'[c] = {} /\ n # 0 => n = Least(LINEMAX, Len(up)) /\ Len(up) # 0
  BY <1>0, <1>2, <1>3, <1>6, ReadAll
<1>8. ASSUME lapses'[c] = {}, n # 0, NEW m \in Nat, Putting("put.ready", server[c].length, up, m)
       PROVE  Putting("put.length", server[c].length, Without(up, n), m)
  <2>1. Len(up) > LINEMAX /\ Putting("put.length", server[c].length, Without(up, LINEMAX), m)
    BY <1>6, <1>8, PuttingReady
  <2>2. n = LINEMAX
    BY <1>0, <1>6, <1>7, <1>8, <2>1 DEF Least
  <2> QED BY <2>1, <2>2
<1>9. ASSUME lapses'[c] = {}, Gone(c)
      PROVE  ServerSide("put.length", server[c].length, Without(up, n))
  <2>1. CASE n = 0
    <3>1. up = <<>>
      BY <1>0, <1>2, <2>1 DEF AtEnd, up
    <3> QED BY <1>6, <2>1, <3>1, Taken DEF ServerSide
  <2>2. CASE n # 0
    <3>1. ServerSide("put.ready", server[c].length, up)
      BY <1>0, <1>3, <1>9, Upright DEF up
    <3>2. PICK m \in 0 .. MaxSize : Putting("put.ready", server[c].length, up, m)
      BY <1>7, <1>9, <2>2, <3>1 DEF ServerSide
    <3>3. Putting("put.length", server[c].length, Without(up, n), m)
      BY <1>9, <2>2, <3>2, <1>8
    <3>4. Without(up, n) \in Streams
      BY <1>2, <1>6, Taken
    <3> QED BY <3>3, <3>4, PuttingSide
  <2> QED BY <2>1, <2>2
<1>10. ASSUME lapses'[c] = {}, ~Gone(c)
      PROVE  BothSides(client[c].pc, client[c].skip, client[c].length,
                       "put.length", server[c].length, Without(up, n), toClient[c])
  <2>1. n # 0
    BY <1>0, <1>2, <1>10 DEF AtEnd
  <2>2. \A m \in Nat : Putting("put.ready", server[c].length, up, m) =>
                       Putting("put.length", server[c].length, Without(up, n), m)
    BY <1>10, <1>8, <2>1
  <2>3. BothSides(client[c].pc, client[c].skip, client[c].length,
                  "put.ready", server[c].length, up, toClient[c])
    BY <1>0, <1>3, <1>10, Upright DEF up
  <2> QED BY <1>3, <1>7, <1>10, <2>1, <2>2, <2>3, Upright, AfterPutStep
<1> QED BY <1>0, <1>2, <1>3, <1>4, <1>5, <1>9, <1>10, Unmoved, SilentKeeps

\* The length of what follows.
LEMMA PutLengthKeeps ==
    ASSUME IInv, NEW c \in Clients, PutLength(c)
    PROVE  Keeps(c)
<1> DEFINE up == toServer[c]
           u == Head(up)
<1>0. /\ UNCHANGED <<client, toClient, local, inode, name, lapses>> /\ server[c].pc = "put.length"
  BY DEF PutLength
<1>1. PICK n \in 0 .. 1 :
        /\ ServerRead(c, 1, n)
        /\ IF n = 0 THEN Goto(c, "put.data")
           ELSE IF u.kind = "long"
                THEN server' = [server EXCEPT ![c].pc = "put.data", ![c].length = u.val]
                ELSE Goto(c, "garbled")
  BY Zenon DEF PutLength
<1>2. /\ ToServerMoved(c) /\ toServer'[c] = Without(up, n) /\ n \in 0 .. Len(up)
      /\ n = 0 => 1 = 0 \/ AtEnd(c)
  BY <1>1, ServerHasRead
<1>3. up \in Streams /\ Len(up) \in Nat /\ server \in [Clients -> ServerStates]
  BY Upright DEF IInv, Types
<1>4. /\ server[c].inode \in Inodes /\ server[c].length = 0 /\ server[c].pos = 0
      /\ inode[server[c].inode] \in Streams /\ Len(inode[server[c].inode]) \in Nat
  BY <1>0 DEF IInv, Types, Places, ServerPlace, Streams
<1>5. lapses[c] = {} => ServerSide("put.length", 0, up)
  BY <1>0, <1>4, Upright
<1>6. lapses[c] = {} /\ ~Gone(c) =>
        BothSides(client[c].pc, client[c].skip, client[c].length, "put.length", 0, up, toClient[c])
  BY <1>0, <1>4, Upright
<1>7. CASE n = 0
  <2>1. /\ ServerMoved(c) /\ server'[c].pc = "put.data" /\ server'[c].length = 0
        /\ server'[c].inode = server[c].inode /\ server'[c].pos = 0
    BY <1>1, <1>4, <1>7, WentTo DEF ServerPcs
  <2>2. ServerPlace(c)'
    BY <1>0, <1>4, <2>1 DEF ServerPlace
  <2>3. Gone(c) /\ up = <<>>
    BY <1>2, <1>7 DEF AtEnd
  <2>4. ServerSide("put.data", 0, toServer'[c])
    <3>1. toServer'[c] \in Streams /\ Len(toServer'[c]) = 0
      BY <1>2, <1>3, <1>7, <2>3, Taken
    <3>2. 0 \in 0 .. MaxSize /\ Putting("put.data", 0, toServer'[c], 0)
      BY <3>1, Constants DEF Putting
    <3> QED BY <3>1, <3>2, PuttingSide
  <2> QED BY <1>0, <1>2, <2>1, <2>2, <2>3, <2>4, Unmoved, SilentKeeps
<1>8. CASE n # 0 /\ u.kind = "long"
  <2>1. n = 1 /\ u = up[1] /\ u \in Units
    BY <1>2, <1>3, <1>8 DEF Streams
  <2>2. u.val \in 0 .. MaxSize /\ u = Long(u.val)
    BY <1>8, <2>1, LongUnits
  <2> DEFINE size == u.val
  <2>3. server' = [server EXCEPT ![c].pc = "put.data", ![c].length = size]
    BY <1>1, <1>8
  <2> HIDE DEF u, up
  <2>4. /\ ServerMoved(c) /\ server'[c].pc = "put.data" /\ server'[c].length = size
        /\ server'[c].inode = server[c].inode /\ server'[c].pos = 0
    BY <1>3, <1>4, <2>2, <2>3 DEF ServerMoved, ServerStates, ServerPcs
  <2>5. ServerPlace(c)'
    BY <1>0, <1>4, <2>4 DEF ServerPlace
  <2>6. ASSUME lapses[c] = {}
        PROVE  ServerSide("put.data", size, toServer'[c])
    <3>1. PICK m \in 0 .. MaxSize : Putting("put.length", 0, up, m)
      BY <1>2, <1>5, <2>1, <2>6 DEF ServerSide
    <3>2. Putting("put.data", size, toServer'[c], m) /\ toServer'[c] \in Streams
      BY <1>2, <1>3, <2>1, <3>1, Constants, PuttingLength, Taken
    <3> QED BY <3>2, PuttingSide
  <2>7. ASSUME lapses[c] = {}, ~Gone(c)
        PROVE  BothSides(client[c].pc, client[c].skip, client[c].length,
                         "put.data", size, toServer'[c], toClient[c])
    <3>1. \A m \in Nat : Putting("put.length", 0, up, m) => Putting("put.data", size, toServer'[c], m)
      BY <1>2, <1>3, <2>1, PuttingLength
    <3> QED BY <1>6, <2>7, <3>1, Upright, AfterPutStep
  <2> QED BY <1>0, <1>2, <2>4, <2>5, <2>6, <2>7, Unmoved, SilentKeeps
<1>9. CASE n # 0 /\ u.kind # "long"
  <2>1. n = 1 /\ u = up[1]
    BY <1>2, <1>3, <1>9 DEF Streams
  <2>2. ServerMoved(c) /\ server'[c].pc = "garbled"
    BY <1>1, <1>9, WentTo DEF ServerPcs
  <2>3. ServerPlace(c)'
    BY <2>2 DEF ServerPlace
  <2>4. lapses[c] # {}
    <3>1. SUFFICES ASSUME lapses[c] = {} PROVE FALSE
      OBVIOUS
    <3>2. PICK m \in 0 .. MaxSize : Putting("put.length", 0, up, m)
      BY <1>2, <1>5, <2>1, <3>1 DEF ServerSide
    <3>3. m \in Nat
      BY Constants
    <3> QED BY <1>3, <1>9, <2>1, <3>2, <3>3, PuttingLength
  <2> QED BY <1>0, <1>2, <2>2, <2>3, <2>4, Unmoved, SilentKeeps
<1> QED BY <1>7, <1>8, <1>9

\* A write at an offset inside of a file.
LEMMA StoredIs ==
    ASSUME NEW s \in Streams, NEW pos \in 0 .. Len(s), NEW u \in Streams, Len(s) <= MaxSize
    PROVE  /\ Stored(s, pos, u) \in Streams /\ Len(Stored(s, pos, u)) <= MaxSize
           /\ Len(Stored(s, pos, u)) >= Len(s)
           /\ Advanced(pos, u) \in 0 .. MaxSize /\ Advanced(pos, u) <= Len(Stored(s, pos, u))
<1>0. Len(s) \in Nat /\ Len(u) \in Nat /\ pos \in Nat /\ MaxSize \in Nat
  BY Constants DEF Streams
<1>1. CASE Fits(pos, u)
  <2> DEFINE m == Most(Len(s), pos + Len(u))
  <2>1. m \in Nat /\ m >= Len(s) /\ m >= pos + Len(u) /\ m <= MaxSize
    BY <1>0, <1>1 DEF Most, Fits
  <2>2. m = Len(s) \/ m = pos + Len(u)
    BY DEF Most
  <2>3. Overlay(s, pos, u) = [i \in 1 .. m |-> IF i \in pos + 1 .. pos + Len(u)
                                              THEN u[i - pos] ELSE s[i]]
    BY DEF Overlay
  <2> HIDE DEF m
  <2>4. ASSUME NEW i \in 1 .. m
        PROVE  (IF i \in pos + 1 .. pos + Len(u) THEN u[i - pos] ELSE s[i]) \in Units
    <3>1. CASE i \in pos + 1 .. pos + Len(u)
      <4>1. i - pos \in 1 .. Len(u)
        BY <1>0, <3>1
      <4> QED BY <3>1, <4>1 DEF Streams
    <3>2. CASE i \notin pos + 1 .. pos + Len(u)
      <4>1. i \in 1 .. Len(s)
        BY <1>0, <2>1, <2>2, <3>2
      <4> QED BY <3>2, <4>1 DEF Streams
    <3> QED BY <3>1, <3>2
  <2>5. Overlay(s, pos, u) \in Streams /\ Len(Overlay(s, pos, u)) = m
    BY <2>1, <2>3, <2>4 DEF Streams
  <2>6. Stored(s, pos, u) = Overlay(s, pos, u) /\ Advanced(pos, u) = pos + Len(u)
    BY <1>1 DEF Stored, Advanced
  <2> QED BY <1>0, <2>1, <2>5, <2>6
<1>2. CASE ~Fits(pos, u)
  <2>1. Stored(s, pos, u) = s /\ Advanced(pos, u) = pos
    BY <1>2 DEF Stored, Advanced
  <2> QED BY <1>0, <2>1
<1> QED BY <1>1, <1>2

\* The units a read has returned.
LEMMA FrontIs ==
    ASSUME NEW s \in Streams, NEW n \in 0 .. Len(s)
    PROVE  SubSeq(s, 1, n) \in Streams /\ Len(SubSeq(s, 1, n)) = n
<1>1. Len(s) \in Nat /\ n \in Nat /\ \A i \in 1 .. n : s[i] \in Units
  BY DEF Streams
<1>2. /\ SubSeq(s, 1, n) \in Seq(Units)
      /\ Len(SubSeq(s, 1, n)) = IF 1 <= n THEN n - 1 + 1 ELSE 0
  BY <1>1, SubSeqProperties DEF Streams
<1> QED BY <1>1, <1>2 DEF Streams

\* What a put of the child does to its file.
LEMMA SavedIs ==
    ASSUME IInv, NEW c \in Clients, server[c].pc = "put.data", NEW u \in Streams
    PROVE  /\ Saved(c, u) \in [Inodes -> Streams]
           /\ \A i \in Inodes : Len(Saved(c, u)[i]) <= MaxSize /\ Len(Saved(c, u)[i]) >= Len(inode[i])
           /\ server[c].inode \in Inodes
           /\ Advanced(server[c].pos, u) \in 0 .. MaxSize
           /\ Advanced(server[c].pos, u) <= Len(Saved(c, u)[server[c].inode])
<1> DEFINE i == server[c].inode
           pos == server[c].pos
<1>1. i \in Inodes /\ inode \in [Inodes -> Streams] /\ \A j \in Inodes : Len(inode[j]) <= MaxSize
  BY DEF IInv, Types, Room, Places, ServerPlace
<1>2. inode[i] \in Streams /\ pos \in 0 .. Len(inode[i]) /\ Len(inode[i]) <= MaxSize
  <2>1. pos <= Len(inode[i]) /\ pos \in Nat
    BY Upright, Constants DEF IInv, Places, ServerPlace
  <2> QED BY <1>1, <2>1 DEF Streams
<1> DEFINE x == Stored(inode[i], pos, u)
<1>3. /\ x \in Streams /\ Len(x) <= MaxSize /\ Len(x) >= Len(inode[i])
      /\ Advanced(pos, u) \in 0 .. MaxSize /\ Advanced(pos, u) <= Len(x)
  BY <1>2, StoredIs
<1>4. Saved(c, u) = [inode EXCEPT ![i] = x]
  BY DEF Saved
<1> HIDE DEF x, i, pos
<1>5. \A j \in Inodes : Len(inode[j]) >= Len(inode[j])
  BY <1>1 DEF Streams
<1>6. /\ Saved(c, u) \in [Inodes -> Streams]
      /\ \A j \in Inodes : Len(Saved(c, u)[j]) <= MaxSize /\ Len(Saved(c, u)[j]) >= Len(inode[j])
      /\ Saved(c, u)[i] = x
  BY <1>1, <1>3, <1>4, <1>5
<1> QED BY <1>1, <1>3, <1>6 DEF i, pos

\* A line of the file is written.
LEMMA PutChunkKeeps ==
    ASSUME IInv, NEW c \in Clients, PutChunk(c)
    PROVE  Keeps(c)
<1> DEFINE up == toServer[c]
           left == server[c].length
<1>0. /\ UNCHANGED <<client, toClient, local, name>> /\ server[c].pc = "put.data"
      /\ left > LINEMAX /\ LINEMAX \in Nat /\ LINEMAX > 1 /\ left \in Nat /\ left <= MaxSize
      /\ MaxSize \in Nat
  BY Upright, Constants DEF PutChunk
<1>1. PICK n \in 0 .. LINEMAX :
        /\ ServerRead(c, LINEMAX, n)
        /\ inode' = Saved(c, Filled(SubSeq(up, 1, n)))
        /\ server' = [server EXCEPT ![c].length = @ - n,
                                    ![c].pos = Advanced(@, Filled(SubSeq(up, 1, n)))]
        /\ lapses' = [lapses EXCEPT ![c] = @ \cup
                        IF n = 0 THEN {"eof"} ELSE Cut(up, LINEMAX, n)]
  BY Zenon DEF PutChunk
<1>2. /\ ToServerMoved(c) /\ toServer'[c] = Without(up, n) /\ n \in 0 .. Len(up)
      /\ n # 0 => n \in Amounts(c, up, LINEMAX)
  BY <1>0, <1>1, ServerHasRead
<1>3. up \in Streams /\ Len(up) \in Nat
  BY Upright
<1> HIDE DEF up
<1> DEFINE u == Filled(SubSeq(up, 1, n))
<1>4. u \in Streams /\ Len(u) = LINEMAX
  <2>1. SubSeq(up, 1, n) \in Streams /\ Len(SubSeq(up, 1, n)) = n /\ n <= LINEMAX
    BY <1>0, <1>1, <1>2, <1>3, FrontIs
  <2> QED BY <2>1, FilledIs
<1>5. LapsesMoved(c) /\ (lapses'[c] = {} => lapses[c] = {} /\ n # 0 /\ Cut(up, LINEMAX, n) = {})
  <2> DEFINE X == IF n = 0 THEN {"eof"} ELSE Cut(up, LINEMAX, n)
  <2>1. X \in SUBSET Lapses /\ (X = {} => n # 0 /\ Cut(up, LINEMAX, n) = {})
    BY DEF Cut, Lapses
  <2>2. lapses' = [lapses EXCEPT ![c] = @ \cup X]
    BY <1>1, Zenon
  <2> HIDE DEF X
  <2> QED BY <2>1, <2>2, Lapsed
<1> DEFINE pos == Advanced(server[c].pos, u)
<1>6. /\ Saved(c, u) \in [Inodes -> Streams]
      /\ \A i \in Inodes : Len(Saved(c, u)[i]) <= MaxSize /\ Len(Saved(c, u)[i]) >= Len(inode[i])
      /\ server[c].inode \in Inodes
      /\ pos \in 0 .. MaxSize /\ pos <= Len(Saved(c, u)[server[c].inode])
  BY <1>0, <1>4, SavedIs
<1>7. inode' = Saved(c, u) /\ server' = [server EXCEPT ![c].length = left - n, ![c].pos = pos]
  BY <1>1
<1> HIDE DEF u, pos
<1>8. InodesMoved(c)
  BY <1>6, <1>7 DEF InodesMoved
<1>9. left - n \in 0 .. MaxSize
  BY <1>0
<1>10. /\ ServerMoved(c) /\ server'[c].pc = "put.data" /\ server'[c].length = left - n
       /\ server'[c].inode = server[c].inode /\ server'[c].pos = pos
  <2>1. server \in [Clients -> ServerStates]
    BY DEF IInv, Types
  <2> HIDE DEF left
  <2> QED BY <1>0, <1>6, <1>7, <1>9, <2>1 DEF ServerMoved, ServerStates
<1>11. ServerPlace(c)'
  BY <1>6, <1>7, <1>10 DEF ServerPlace
<1>12. ASSUME lapses'[c] = {}
       PROVE  n = Least(LINEMAX, Len(up)) /\ Len(up) > 0 /\ lapses[c] = {}
  BY <1>0, <1>2, <1>3, <1>5, <1>12, ReadAll
<1>13. ASSUME lapses'[c] = {}, NEW m \in Nat, Putting("put.data", left, up, m)
       PROVE  Putting("put.data", left - n, Without(up, n), m)
  <2>1. Len(up) >= LINEMAX /\ Putting("put.data", left - LINEMAX, Without(up, LINEMAX), m)
    BY <1>0, <1>3, <1>12, <1>13, PuttingData
  <2>2. n = LINEMAX
    BY <1>0, <1>3, <1>12, <1>13, <2>1 DEF Least
  <2> QED BY <2>1, <2>2
<1>14. ASSUME lapses'[c] = {}, Gone(c)
       PROVE  ServerSide("put.data", left - n, Without(up, n))
  <2>1. PICK m \in 0 .. MaxSize : Putting("put.data", left, up, m)
    BY <1>0, <1>12, <1>14, Upright DEF ServerSide, up
  <2>2. Putting("put.data", left - n, Without(up, n), m) /\ Without(up, n) \in Streams
    BY <1>2, <1>3, <1>13, <1>14, <2>1, Constants, Taken
  <2> QED BY <2>2, PuttingSide
<1>15. ASSUME lapses'[c] = {}, ~Gone(c)
       PROVE  BothSides(client[c].pc, client[c].skip, client[c].length,
                        "put.data", left - n, Without(up, n), toClient[c])
  <2>2. BothSides(client[c].pc, client[c].skip, client[c].length,
                  "put.data", left, up, toClient[c])
    BY <1>0, <1>12, <1>15, Upright DEF up
  <2>3. client[c].pc \in ClientPcs /\ client[c].pc # "gone" /\ client[c].skip \in 0 .. 3
        /\ client[c].length \in 0 .. MaxSize
    BY <1>12, <1>15, Upright
  <2> HIDE DEF left
  <2> QED BY <1>13, <1>15, <2>2, <2>3, AfterPutStep
<1> HIDE DEF left
<1> QED BY <1>0, <1>2, <1>5, <1>8, <1>10, <1>11, <1>15, <1>14, Unmoved, SilentKeeps

\* The last units are written, and the terminator goes back.
LEMMA PutLastKeeps ==
    ASSUME IInv, NEW c \in Clients, PutLast(c)
    PROVE  Keeps(c)
<1> DEFINE up == toServer[c]
           left == server[c].length
<1>0. /\ UNCHANGED <<client, local, name>> /\ server[c].pc = "put.data" /\ Done(c)
      /\ Reply(c, Terminator) /\ left <= LINEMAX /\ left \in Nat
  BY Upright, Constants DEF PutLast
<1>1. PICK n \in 0 .. left :
        /\ ServerRead(c, left, n)
        /\ inode' = Kept(c, Saved(c, SubSeq(up, 1, n)), name)
        /\ lapses' = [lapses EXCEPT ![c] = @ \cup Cut(up, left, n)]
  BY Zenon DEF PutLast
<1>2. /\ ToServerMoved(c) /\ toServer'[c] = Without(up, n) /\ n \in 0 .. Len(up) /\ n <= left
      /\ n = 0 => left = 0 \/ AtEnd(c)
      /\ n # 0 => n \in Amounts(c, up, left)
  BY <1>0, <1>1, ServerHasRead
<1>3. up \in Streams /\ Len(up) \in Nat /\ toServer' \in [Clients -> Streams]
  BY <1>2, Upright DEF ToServerMoved
<1>4. InodesMoved(c)
  <2> DEFINE u == SubSeq(up, 1, n)
  <2>1. u \in Streams
    BY <1>2, <1>3, FrontIs
  <2>2. /\ Saved(c, u) \in [Inodes -> Streams]
        /\ \A i \in Inodes : Len(Saved(c, u)[i]) <= MaxSize /\ Len(Saved(c, u)[i]) >= Len(inode[i])
    BY <1>0, <2>1, SavedIs
  <2> HIDE DEF u
  <2>3. inode' = Kept(c, Saved(c, u), name)
    BY <1>1 DEF u
  <2> QED BY <2>2, <2>3, KeptIs
<1>5. LapsesMoved(c) /\ (lapses'[c] = {} => lapses[c] = {} /\ Cut(up, left, n) = {})
  BY <1>1, CutLapsed
<1>6. ServerMoved(c) /\ server'[c].pc = "request" /\ server'[c].length = 0
  BY <1>0, WasDone
<1>7. ServerPlace(c)'
  BY <1>6 DEF ServerPlace
<1>8. Terminator \in Streams /\ Len(Terminator) = LINEMAX
  BY TerminatorIs DEF Starts
<1>9. ToClientMoved(c) /\ (Gone(c) \/ toClient'[c] = toClient[c] \o Terminator)
  BY <1>0, <1>8, Replied
<1>10. ASSUME lapses'[c] = {}
       PROVE  Len(toServer'[c]) = 0 /\ (n # 0 => Len(up) > 0) /\ lapses[c] = {}
  <2>1. lapses[c] = {} /\ ServerSide("put.data", left, up)
    BY <1>0, <1>5, <1>10, Upright
  <2>2. Len(up) <= left
    <3>1. PICK m \in 0 .. MaxSize : Putting("put.data", left, up, m)
      BY <2>1 DEF ServerSide
    <3>2. left = Len(up) + m /\ m \in Nat
      BY <3>1, Constants DEF Putting
    <3> QED BY <1>3, <3>2
  <2>3. n = Len(up)
    <3>1. CASE n # 0
      <4>1. n = Least(left, Len(up))
        BY <1>0, <1>2, <1>3, <1>5, <1>10, <3>1, ReadAll
      <4> HIDE DEF up, left
      <4> QED BY <1>0, <1>3, <2>2, <4>1 DEF Least
    <3>2. CASE n = 0
      <4>1. left = 0 \/ up = <<>>
        BY <1>2, <3>2 DEF AtEnd
      <4> QED BY <1>3, <2>2, <3>2, <4>1
    <3> QED BY <3>1, <3>2
  <2>4. Len(Without(up, n)) = Len(up) - n
    BY <1>2, <1>3, Taken
  <2> HIDE DEF up, left
  <2> QED BY <1>2, <1>3, <2>1, <2>3, <2>4
<1>11. lapses'[c] = {} => ServerSide("request", 0, toServer'[c])
  BY <1>10 DEF ServerSide
<1>12. ASSUME lapses'[c] = {}, ~Gone(c)
       PROVE  BothSides(client[c].pc, client[c].skip, client[c].length,
                        "request", 0, toServer'[c], toClient[c] \o Terminator)
  <2>1. left = 0 \/ Len(up) > 0
    BY <1>2, <1>10, <1>12 DEF AtEnd
  <2>2. BothSides(client[c].pc, client[c].skip, client[c].length,
                  "put.data", left, up, toClient[c])
    BY <1>0, <1>10, <1>12, Upright
  <2>3. /\ client[c].pc \in ClientPcs /\ client[c].pc # "gone" /\ client[c].skip \in 0 .. 3
        /\ client[c].length \in 0 .. MaxSize /\ toClient[c] \in Streams
    BY <1>10, <1>12, Upright
  <2>4. toServer'[c] \in Streams /\ Len(toServer'[c]) = 0
    BY <1>3, <1>10, <1>12
  <2> HIDE DEF up, left
  <2> QED BY <1>0, <1>3, <1>8, <2>1, <2>2, <2>3, <2>4, AfterPutLast
<1>13. Exchange(c)'
  BY <1>0, <1>6, <1>9, <1>11, <1>12, ChildMoved
<1>14. ClientPlace(c)'
  BY <1>0, ClientPlaceStays
<1>15. Moved(c)
  BY <1>0, <1>2, <1>4, <1>5, <1>6, <1>9, Unmoved DEF Moved
<1> QED BY <1>7, <1>13, <1>14, <1>15, OthersStay

\* A write to a client that is gone.
LEMMA KilledKeeps ==
    ASSUME IInv, NEW c \in Clients, Killed(c)
    PROVE  Keeps(c)
<1> DEFINE x == [Idle EXCEPT !.pc = "gone"]
<1>0. /\ UNCHANGED <<client, toServer, toClient, local, inode, name, lapses>> /\ Gone(c)
      /\ server[c].pc \in {"stale", "text", "listing", "ls", "bad", "get nothing", "put nothing",
                           "get.data"}
      /\ server' = [server EXCEPT ![c] = x]
  BY DEF Killed
<1>1. Idle \in ServerStates
  BY Constants DEF Idle, ServerStates, ServerPcs
<1>2. x \in ServerStates /\ x.pc = "gone"
  BY <1>1 DEF ServerStates, ServerPcs
<1> HIDE DEF x
<1>3. ServerMoved(c) /\ server'[c].pc = "gone"
  BY <1>0, <1>2 DEF ServerMoved, IInv, Types
<1>4. ServerPlace(c)'
  BY <1>3 DEF ServerPlace
<1>5. lapses[c] = {} => ServerSide("gone", server'[c].length, toServer[c])
  BY <1>0, Upright DEF ServerSide
<1> QED BY <1>0, <1>3, <1>4, <1>5, Unmoved, SilentKeeps

\* A read that returns -1.
LEMMA ReadResetKeeps ==
    ASSUME IInv, NEW c \in Clients, ReadReset(c)
    PROVE  Keeps(c)
<1>0. /\ UNCHANGED <<client, toServer, toClient, local, inode, name, lapses>> /\ Gone(c)
      /\ toServer[c] = <<>> /\ Goto(c, "stale")
  BY DEF ReadReset, AtEnd
<1>1. ServerMoved(c) /\ server'[c].pc = "stale"
  BY <1>0, WentTo DEF ServerPcs
<1>2. ServerPlace(c)'
  BY <1>1 DEF ServerPlace
<1>3. ServerSide("stale", server'[c].length, toServer[c])
  BY <1>0 DEF ServerSide
<1> QED BY <1>0, <1>1, <1>2, <1>3, Unmoved, SilentKeeps

\* A request without a name has upset the exchange when its client is still there.
LEMMA ReplyNoNameKeeps ==
    ASSUME IInv, NEW c \in Clients, ReplyNoName(c)
    PROVE  Keeps(c)
<1> DEFINE t == IF server[c].pc = "get nothing" THEN Line("Error") \o Lines(1) ELSE Line("error")
           s == t \o Terminator
<1>0. /\ UNCHANGED <<client, toServer, local, inode, name, lapses>> /\ Done(c)
      /\ server[c].pc \in {"get nothing", "put nothing"} /\ Reply(c, s)
  BY DEF ReplyNoName
<1>1. s \in Streams
  <2>1. /\ Line("Error") \in Streams /\ Line("error") \in Streams
        /\ Lines(1) \in Streams /\ Terminator \in Streams
    BY LineIs, LinesAre, TerminatorIs DEF Replies
  <2>2. Line("Error") \o Lines(1) \in Streams
    BY <2>1, Joined
  <2>3. t \in Streams
    BY <2>1, <2>2
  <2> HIDE DEF t
  <2> QED BY <2>1, <2>3, Joined
<1> HIDE DEF s
<1>2. ServerMoved(c) /\ server'[c].pc = "request" /\ server'[c].length = 0
  BY <1>0, WasDone
<1>3. ServerPlace(c)'
  BY <1>2 DEF ServerPlace
<1>4. lapses[c] = {} => ServerSide("request", 0, toServer[c])
  BY <1>0, Upright DEF ServerSide
<1>5. lapses[c] = {} => Gone(c)
  BY <1>0, Upright, Nowhere
<1> QED BY <1>0, <1>1, <1>2, <1>3, <1>4, <1>5, Unmoved, ReplyKeeps

\* Every step of the child keeps the invariant.
LEMMA ServerStepKeeps ==
    ASSUME IInv, NEW c \in Clients, ServerStep(c)
    PROVE  Keeps(c)
BY GetRequestKeeps, ReadResetKeeps, ReplyLinesKeeps, ReplyHeaderKeeps, ReplyNotFoundKeeps,
   ReplyNoNameKeeps, RemoveFileKeeps,
   GetOpenKeeps, GetStatKeeps, GetChunkKeeps, GetLastKeeps, PutCheckKeeps, PutRefuseKeeps, PutOpenKeeps,
   PutReadyKeeps, PutLengthKeeps, PutChunkKeeps, PutLastKeeps, KilledKeeps DEF ServerStep

-------------------------------------------------------------------------------
\* The steps of the client.

\* A step of the client leaves the child and the files of the server alone.
LEMMA ClientKeeps ==
    ASSUME IInv, NEW c \in Clients, UNCHANGED <<server, inode, name>>,
           ClientMoved(c), ToServerMoved(c), ToClientMoved(c), LocalMoved(c), LapsesMoved(c),
           ClientPlace(c)',
           lapses'[c] = {} /\ client'[c].pc = "gone" =>
                ServerSide(server[c].pc, server[c].length, toServer'[c]),
           lapses'[c] = {} /\ client'[c].pc # "gone" =>
                BothSides(client'[c].pc, client'[c].skip, client'[c].length,
                          server[c].pc, server[c].length, toServer'[c], toClient'[c])
    PROVE  Keeps(c)
<1>1. Moved(c)
  BY Unmoved DEF Moved
<1>2. Exchange(c)'
  BY Zenon DEF Exchange, Gone
<1>3. ServerPlace(c)'
  BY DEF IInv, Places, ServerPlace
<1> QED BY <1>1, <1>2, <1>3, OthersStay

\* The client has gone to another state.
LEMMA ClientWent ==
    ASSUME IInv, NEW c \in Clients, NEW x \in ClientStates, client' = [client EXCEPT ![c] = x]
    PROVE  ClientMoved(c) /\ client'[c] = x
BY DEF IInv, Types, ClientMoved

\* The state of a client at its prompt.
LEMMA PromptIs ==
    /\ Prompt \in ClientStates /\ Prompt.pc = "prompt" /\ Prompt.skip = 0
    /\ Prompt.length = 0 /\ Prompt.pos = 0
BY Constants DEF Prompt, ClientStates, ClientPcs, Requests

\* A state of the client that differs from the prompt in its place.
LEMMA AtIs ==
    ASSUME NEW where \in ClientPcs
    PROVE  LET x == [Prompt EXCEPT !.pc = where]
           IN  x \in ClientStates /\ x.pc = where /\ x.skip = 0 /\ x.length = 0 /\ x.pos = 0
<1> DEFINE x == [Prompt EXCEPT !.pc = where]
<1>1. x \in ClientStates /\ x.pc = where /\ x.skip = 0 /\ x.length = 0 /\ x.pos = 0
  BY PromptIs DEF ClientStates
<1> QED BY <1>1

\* The state of a client that drops lines.
LEMMA SkippingIs ==
    ASSUME NEW k \in 0 .. 3
    PROVE  /\ Skipping(k) \in ClientStates /\ Skipping(k).skip = k
           /\ Skipping(k).pc = IF k = 0 THEN "prompt" ELSE "skip"
<1>1. CASE k = 0
  BY <1>1, PromptIs DEF Skipping
<1>2. CASE k # 0
  <2> DEFINE x == [Prompt EXCEPT !.pc = "skip", !.skip = k]
  <2>1. x \in ClientStates /\ x.skip = k /\ x.pc = "skip"
    BY PromptIs DEF ClientStates, ClientPcs
  <2>2. Skipping(k) = x
    BY <1>2 DEF Skipping
  <2> HIDE DEF x
  <2> QED BY <1>2, <2>1, <2>2
<1> QED BY <1>1, <1>2

\* A state that waits for nothing but lines, or is at an end.
LEMMA PlaceIs ==
    ASSUME NEW c \in Clients,
           \/ client'[c].pc \in {"prompt", "reply", "put.reply", "garbled", "gone"}
           \/ client'[c].pc = "skip" /\ client'[c].skip # 0
    PROVE  ClientPlace(c)'
BY DEF ClientPlace

\* The state of a client that has sent a request.
LEMMA AfterIs ==
    ASSUME IInv, NEW c \in Clients, NEW op \in Requests
    PROVE  LET x == After(c, op) IN
           /\ x \in ClientStates
           /\ op = "quit" => x.pc = "gone"
           /\ op \in {"text", "ls", "rm"} => x.pc = "reply" /\ x.skip = 0
           /\ op \in {"get", "cat"} => x.pc = "get.reply" /\ x.skip = 0 /\ x.pos = 0
           /\ op = "put" /\ local[c].has => x.pc = "put.reply" /\ x.skip = 0
           /\ op = "put" /\ ~local[c].has => x.pc = "skip" /\ x.skip = 1
           /\ op = "bad" => x.pc = "skip" /\ x.skip = 2
<1> DEFINE x == After(c, op)
<1>1. CASE op = "quit"
  <2>1. x = [Prompt EXCEPT !.pc = "gone"]
    BY <1>1 DEF After
  <2> QED BY <1>1, <2>1, AtIs DEF ClientPcs
<1>2. CASE op \in {"text", "ls", "rm"}
  <2>1. x = [Prompt EXCEPT !.pc = "reply"]
    BY <1>2 DEF After
  <2> QED BY <1>2, <2>1, AtIs DEF ClientPcs
<1>3. CASE op \in {"get", "cat"}
  <2> DEFINE y == [Prompt EXCEPT !.pc = "get.reply", !.op = op]
  <2>1. x = y
    BY <1>3 DEF After
  <2>2. y \in ClientStates /\ y.pc = "get.reply" /\ y.skip = 0 /\ y.pos = 0
    BY PromptIs DEF ClientStates, ClientPcs
  <2> HIDE DEF y
  <2> QED BY <1>3, <2>1, <2>2
<1>4. CASE op = "put" /\ local[c].has
  <2>1. x = [Prompt EXCEPT !.pc = "put.reply"]
    BY <1>4 DEF After
  <2> QED BY <1>4, <2>1, AtIs DEF ClientPcs
<1>5. CASE op = "put" /\ ~local[c].has
  <2>1. x = Skipping(1)
    BY <1>5 DEF After
  <2> QED BY <1>5, <2>1, SkippingIs
<1>6. CASE op = "bad"
  <2>1. x = Skipping(2)
    BY <1>6 DEF After
  <2> QED BY <1>6, <2>1, SkippingIs
<1> QED BY <1>1, <1>2, <1>3, <1>4, <1>5, <1>6 DEF Requests

\* What a client leaves behind.
LEMMA HasLeft ==
    ASSUME IInv, NEW c \in Clients, Leave(c)
    PROVE  ToClientMoved(c) /\ LocalMoved(c)
<1>1. <<>> \in Streams /\ Len(<<>>) = 0 /\ 0 <= Capacity /\ 0 <= MaxSize
  BY Constants DEF Streams
<1>2. NoFile \in [has : BOOLEAN, text : Streams] /\ Len(NoFile.text) <= MaxSize
  BY <1>1 DEF NoFile
<1>3. toClient' = [toClient EXCEPT ![c] = <<>>] /\ local' = [local EXCEPT ![c] = NoFile]
  BY DEF Leave
<1>4. ToClientMoved(c)
  BY <1>1, <1>3 DEF ToClientMoved, IInv, Types, Room
<1>5. LocalMoved(c)
  BY <1>2, <1>3 DEF LocalMoved, IInv, Types, Room
<1> QED BY <1>4, <1>5

\* Which requests upset the exchange.
LEMMA UpsetsIs ==
    ASSUME NEW c, NEW op
    PROVE  /\ Upsets(c, op) \in SUBSET Lapses
           /\ op = "put" /\ ~local[c].has => Upsets(c, op) # {}
           /\ op \in Careless => Upsets(c, op) # {}
<1>1. CASE op \in {"get nothing", "put nothing"}
  <2>1. Upsets(c, op) = {"no name"}
    BY <1>1 DEF Upsets
  <2> QED BY <2>1 DEF Lapses
<1>2. CASE op = "get directory"
  <2>1. Upsets(c, op) = {"directory"}
    BY <1>2 DEF Upsets
  <2> QED BY <2>1 DEF Lapses
<1>3. CASE op = "put" /\ ~local[c].has
  <2>1. Upsets(c, op) = {"put"}
    BY <1>3 DEF Upsets
  <2> QED BY <2>1 DEF Lapses
<1>4. CASE op \notin Careless /\ ~(op = "put" /\ ~local[c].has)
  <2>1. Upsets(c, op) = {}
    BY <1>4 DEF Upsets, Careless
  <2> QED BY <1>4, <2>1
<1> QED BY <1>1, <1>2, <1>3, <1>4 DEF Careless

\* A request that names no file upsets the exchange, of which then nothing is said.
LEMMA CarelessKeeps ==
    ASSUME IInv, NEW c \in Clients, NEW op \in Careless, Request(c, op)
    PROVE  Keeps(c) /\ lapses'[c] # {}
<1> DEFINE x == After(c, op)
<1>0. /\ UNCHANGED <<server, toClient, local, inode, name>> /\ Send(c, Line(op))
      /\ client' = [client EXCEPT ![c] = x]
      /\ lapses' = [lapses EXCEPT ![c] = @ \cup Upsets(c, op)]
  BY DEF Request, Careless
<1>1. /\ x \in ClientStates
      /\ (x.pc = "skip" /\ x.skip # 0) \/ (x.pc = "get.reply" /\ x.pos = 0)
  <2>1. CASE op = "put nothing"
    <3>1. x = Skipping(1)
      BY <2>1 DEF After
    <3> QED BY <3>1, SkippingIs
  <2>2. CASE op # "put nothing"
    <3> DEFINE y == [Prompt EXCEPT !.pc = "get.reply", !.op = "cat"]
    <3>1. x = y
      BY <2>2 DEF After, Careless
    <3>2. y \in ClientStates /\ y.pc = "get.reply" /\ y.pos = 0
      BY PromptIs DEF ClientStates, ClientPcs, Requests
    <3> HIDE DEF y
    <3> QED BY <3>1, <3>2
  <2> QED BY <2>1, <2>2
<1> HIDE DEF x
<1>2. ClientMoved(c) /\ client'[c] = x
  BY <1>0, <1>1, ClientWent
<1>3. ToServerMoved(c)
  BY <1>0, LineIs, Sent
<1>4. LapsesMoved(c) /\ lapses'[c] # {}
  BY <1>0, UpsetsIs, Lapsed
<1>5. ClientPlace(c)'
  BY <1>1, <1>2 DEF ClientPlace
<1>6. Exchange(c)'
  BY <1>4 DEF Exchange
<1>7. ServerPlace(c)'
  BY <1>0 DEF IInv, Places, ServerPlace
<1>8. Moved(c)
  BY <1>0, <1>2, <1>3, <1>4, Unmoved DEF Moved
<1> QED BY <1>4, <1>5, <1>6, <1>7, <1>8, OthersStay

\* A request finds the connection empty and the child waiting for it.
LEMMA RequestKeeps ==
    ASSUME IInv, NEW c \in Clients, NEW op \in Requests, Request(c, op)
    PROVE  Keeps(c)
<1> DEFINE x == After(c, op)
           up == toServer[c] \o Line(op)
<1>0. /\ UNCHANGED <<server, inode, name>> /\ client[c].pc = "prompt" /\ Send(c, Line(op))
      /\ client' = [client EXCEPT ![c] = x]
      /\ lapses' = [lapses EXCEPT ![c] = @ \cup Upsets(c, op)]
  BY DEF Request
<1>1. /\ x \in ClientStates
      /\ op = "quit" => x.pc = "gone"
      /\ op \in {"text", "ls", "rm"} => x.pc = "reply" /\ x.skip = 0
      /\ op \in {"get", "cat"} => x.pc = "get.reply" /\ x.skip = 0 /\ x.pos = 0
      /\ op = "put" /\ local[c].has => x.pc = "put.reply" /\ x.skip = 0
      /\ op = "put" /\ ~local[c].has => x.pc = "skip" /\ x.skip = 1
      /\ op = "bad" => x.pc = "skip" /\ x.skip = 2
  BY AfterIs
<1> HIDE DEF x
<1>2. ClientMoved(c) /\ client'[c] = x
  BY <1>0, <1>1, ClientWent
<1>3. Line(op) \in Streams /\ Starts(Line(op), Text(op))
  BY LineIs
<1>4. ToServerMoved(c) /\ toServer'[c] = up
  BY <1>0, <1>3, Sent
<1>5. ToClientMoved(c) /\ LocalMoved(c) /\ (op # "quit" => toClient' = toClient)
  <2>1. CASE op = "quit"
    BY <2>1, HasLeft DEF Request
  <2>2. CASE op # "quit"
    BY <2>2, Unmoved DEF Request
  <2> QED BY <2>1, <2>2
<1>6. LapsesMoved(c) /\ (lapses'[c] = {} => lapses[c] = {} /\ ~(op = "put" /\ ~local[c].has))
  <2> DEFINE X == Upsets(c, op)
  <2>1. X \in SUBSET Lapses /\ (X = {} => ~(op = "put" /\ ~local[c].has))
    BY UpsetsIs
  <2>2. lapses' = [lapses EXCEPT ![c] = @ \cup X]
    BY <1>0, Zenon
  <2> HIDE DEF X
  <2> QED BY <2>1, <2>2, Lapsed
<1>7. ClientPlace(c)'
  <2>1. CASE op \in {"get", "cat"}
    BY <1>1, <1>2, <2>1 DEF ClientPlace
  <2>2. CASE op \notin {"get", "cat"}
    <3>1. x.pc \in {"reply", "put.reply", "gone"} \/ (x.pc = "skip" /\ x.skip # 0)
      BY <1>1, <2>2 DEF Requests
    <3> QED BY <1>2, <3>1, PlaceIs
  <2> QED BY <2>1, <2>2
<1>8. ASSUME lapses'[c] = {}
      PROVE  /\ server[c].pc = "request" /\ toServer'[c] = Line(op) /\ Len(toClient[c]) = 0
             /\ lapses[c] = {} /\ (op = "put" => local[c].has)
  <2>1. lapses[c] = {} /\ ~Gone(c) /\ (op = "put" => local[c].has)
    BY <1>0, <1>6, <1>8 DEF Gone
  <2>2. server[c].pc = "request" /\ Len(toServer[c]) = 0 /\ Len(toClient[c]) = 0
    <3>1. BothSides("prompt", client[c].skip, client[c].length,
                    server[c].pc, server[c].length, toServer[c], toClient[c])
      BY <1>0, <2>1, Upright
    <3> QED BY <3>1 DEF BothSides
  <2>3. toServer[c] \o Line(op) = Line(op)
    BY <1>3, <2>2, Upright, Beginning
  <2> QED BY <1>4, <2>1, <2>2, <2>3
<1>9. ASSUME lapses'[c] = {}, x.pc = "gone"
      PROVE  ServerSide(server[c].pc, server[c].length, toServer'[c])
  BY <1>3, <1>8, <1>9 DEF ServerSide
<1>10. ASSUME lapses'[c] = {}, x.pc # "gone"
       PROVE  BothSides(x.pc, x.skip, x.length,
                        server[c].pc, server[c].length, toServer'[c], toClient'[c])
  <2>1. op # "quit" /\ toClient'[c] = toClient[c]
    BY <1>1, <1>5, <1>10
  <2>2. /\ op \in {"text", "ls", "rm"} => x.pc = "reply" /\ x.skip = 0
        /\ op \in {"get", "cat"} => x.pc = "get.reply" /\ x.skip = 0
        /\ op = "put" => x.pc = "put.reply" /\ x.skip = 0
        /\ op = "bad" => x.pc = "skip" /\ x.skip = 2
    BY <1>1, <1>8, <1>10
  <2> DEFINE n == x.length
             left == server[c].length
             dn == toClient[c]
             s == Line(op)
  <2>3. s \in Streams /\ Starts(s, Text(op)) /\ Len(dn) = 0 /\ server[c].pc = "request"
        /\ toServer'[c] = s
    BY <1>3, <1>8, <1>10
  <2> HIDE DEF n, left, dn, s
  <2>4. /\ op \in {"text", "ls", "rm"} => BothSides("reply", 0, n, "request", left, s, dn)
        /\ op \in {"get", "cat"} => BothSides("get.reply", 0, n, "request", left, s, dn)
        /\ op = "put" => BothSides("put.reply", 0, n, "request", left, s, dn)
        /\ op = "bad" => BothSides("skip", 2, n, "request", left, s, dn)
    BY <2>1, <2>3 DEF BothSides, InReply, InGetReply, InPutReply, InSkip
  <2>5. BothSides(x.pc, x.skip, n, "request", left, s, dn)
    BY <2>1, <2>2, <2>4 DEF Requests
  <2> QED BY <2>1, <2>3, <2>5 DEF n, left, dn
<1> QED BY <1>0, <1>2, <1>4, <1>5, <1>6, <1>7, <1>9, <1>10, ClientKeeps

\* lrm sends nothing.
LEMMA LocalRemoveKeeps ==
    ASSUME IInv, NEW c \in Clients, LocalRemove(c)
    PROVE  Keeps(c)
<1>0. /\ UNCHANGED <<client, server, toServer, toClient, inode, name, lapses>>
      /\ client[c].pc = "prompt" /\ local' = [local EXCEPT ![c] = NoFile]
  BY DEF LocalRemove
<1>1. LocalMoved(c)
  <2>1. NoFile \in [has : BOOLEAN, text : Streams] /\ Len(NoFile.text) <= MaxSize
    BY Constants DEF NoFile, Streams
  <2> QED BY <1>0, <2>1 DEF LocalMoved, IInv, Types, Room
<1>2. ClientPlace(c)'
  BY <1>0, PlaceIs
<1>3. client[c].pc # "gone" /\ ~Gone(c)
  BY <1>0 DEF Gone
<1>4. lapses[c] = {} => BothSides(client[c].pc, client[c].skip, client[c].length,
                                  server[c].pc, server[c].length, toServer[c], toClient[c])
  BY <1>3, Upright
<1> QED BY <1>0, <1>1, <1>2, <1>3, <1>4, Unmoved, ClientKeeps

\* What the child finds in the connection is what it was.
LEMMA DieKeeps ==
    ASSUME IInv, NEW c \in Clients, Die(c)
    PROVE  Keeps(c)
<1>0. /\ UNCHANGED <<server, toServer, inode, name, lapses>> /\ Leave(c)
      /\ client' = [client EXCEPT ![c] = [Prompt EXCEPT !.pc = "gone"]]
  BY DEF Die
<1>1. ClientMoved(c) /\ client'[c].pc = "gone"
  <2> DEFINE x == [Prompt EXCEPT !.pc = "gone"]
  <2>1. x \in ClientStates /\ x.pc = "gone"
    BY AtIs DEF ClientPcs
  <2> HIDE DEF x
  <2>2. client' = [client EXCEPT ![c] = x]
    BY <1>0 DEF x
  <2> QED BY <2>1, <2>2, ClientWent
<1>2. ToClientMoved(c) /\ LocalMoved(c)
  BY <1>0, HasLeft
<1>3. ClientPlace(c)'
  BY <1>1, PlaceIs
<1>4. lapses[c] = {} => ServerSide(server[c].pc, server[c].length, toServer[c])
  BY Upright
<1> QED BY <1>0, <1>1, <1>2, <1>3, <1>4, Unmoved, ClientKeeps

\* A line of a reply.
LEMMA ReadLinesKeeps ==
    ASSUME IInv, NEW c \in Clients, ReadLines(c)
    PROVE  Keeps(c)
<1> DEFINE dn == toClient[c]
           u == Head(dn)
           x == CASE u.kind = "text" -> client[c]
                  [] u.kind = "nul" -> Prompt
                  [] OTHER -> [Prompt EXCEPT !.pc = "garbled"]
<1>0. /\ UNCHANGED <<server, toServer, local, inode, name>> /\ client[c].pc = "reply"
      /\ LINEMAX \in Nat /\ LINEMAX > 1
  BY Constants DEF ReadLines
<1>1. PICK n \in 1 .. LINEMAX :
        /\ ClientRead(c, LINEMAX, n)
        /\ client' = [client EXCEPT ![c] = x]
        /\ lapses' = [lapses EXCEPT ![c] = @ \cup Cut(dn, LINEMAX, n) \cup RanTogether(dn, n)]
  BY Zenon DEF ReadLines
<1>2. /\ ToClientMoved(c) /\ toClient'[c] = Without(dn, n)
      /\ n \in 0 .. Len(dn) /\ n # 0 /\ n \in Amounts(c, dn, LINEMAX)
  BY <1>0, <1>1, ClientHasRead
<1>3. dn \in Streams /\ Len(dn) \in Nat
  BY Upright
<1> HIDE DEF dn
<1>4. LapsesMoved(c) /\ (lapses'[c] = {} => lapses[c] = {} /\ Cut(dn, LINEMAX, n) = {}
                                                           /\ RanTogether(dn, n) = {})
  <2> DEFINE X == Cut(dn, LINEMAX, n) \cup RanTogether(dn, n)
  <2>1. X \in SUBSET Lapses
    BY DEF Cut, RanTogether, Lapses
  <2>2. lapses' = [lapses EXCEPT ![c] = @ \cup X]
    BY <1>1
  <2>3. X = {} => Cut(dn, LINEMAX, n) = {} /\ RanTogether(dn, n) = {}
    OBVIOUS
  <2> HIDE DEF X
  <2> QED BY <2>1, <2>2, <2>3, Lapsed
<1>5. CASE u.kind = "text"
  <2>1. x = client[c]
    BY <1>5
  <2> HIDE DEF x, u
  <2>2. client' = client
    BY <1>1, <2>1 DEF IInv, Types
  <2>3. ClientPlace(c)'
    BY <1>0, <2>2, PlaceIs
  <2>4. ASSUME lapses'[c] = {}
        PROVE  BothSides(client[c].pc, client[c].skip, client[c].length,
                         server[c].pc, server[c].length, toServer[c], Without(dn, n))
    <3>1. n = Least(LINEMAX, Len(dn)) /\ RanTogether(dn, n) = {} /\ Len(dn) > 0
      BY <1>0, <1>2, <1>3, <1>4, <2>4, ReadAll
    <3>2. BothSides("reply", client[c].skip, client[c].length,
                    server[c].pc, server[c].length, toServer[c], dn)
      BY <1>0, <1>4, <2>4, Upright DEF Gone, dn
    <3>3. dn[1].kind = "text" /\ "text" # "nul"
      BY <1>3, <1>5, <3>1 DEF u, Streams
    <3> QED BY <1>0, <1>3, <3>1, <3>2, <3>3, Upright, AfterReadLines
  <2> QED BY <1>0, <1>2, <1>4, <2>2, <2>3, <2>4, Unmoved, ClientKeeps
<1>6. CASE u.kind # "text"
  <2>1. \/ u.kind = "nul" /\ x = Prompt
        \/ u.kind # "nul" /\ x = [Prompt EXCEPT !.pc = "garbled"]
    BY <1>6
  <2>2. /\ x \in ClientStates
        /\ x.pc = IF u.kind = "nul" THEN "prompt" ELSE "garbled"
    BY <2>1, PromptIs, AtIs DEF ClientPcs
  <2> HIDE DEF x, u
  <2>3. ClientMoved(c) /\ client'[c] = x
    BY <1>1, <2>2, ClientWent
  <2>4. ClientPlace(c)'
    BY <2>2, <2>3, PlaceIs
  <2>5. ASSUME lapses'[c] = {}
        PROVE  BothSides(x.pc, x.skip, x.length,
                         server[c].pc, server[c].length, toServer[c], Without(dn, n))
    <3>1. n = Least(LINEMAX, Len(dn)) /\ RanTogether(dn, n) = {} /\ Len(dn) > 0
      BY <1>0, <1>2, <1>3, <1>4, <2>5, ReadAll
    <3>2. BothSides("reply", client[c].skip, client[c].length,
                    server[c].pc, server[c].length, toServer[c], dn)
      BY <1>0, <1>4, <2>5, Upright DEF Gone, dn
    <3>3. dn[1].kind = u.kind
      BY <1>3, <3>1 DEF u, Streams
    <3>4. /\ dn[1].kind = "nul"
          /\ BothSides("prompt", x.skip, x.length,
                       server[c].pc, server[c].length, toServer[c], Without(dn, n))
      BY <1>0, <1>3, <1>6, <3>1, <3>2, <3>3, Upright, AfterReadLines
    <3> QED BY <2>2, <3>3, <3>4
  <2>6. x.pc # "gone"
    BY <2>2
  <2> QED BY <1>0, <1>2, <1>4, <2>3, <2>4, <2>5, <2>6, Unmoved, ClientKeeps
<1> QED BY <1>5, <1>6

\* A line that is dropped.
LEMMA SkipLineKeeps ==
    ASSUME IInv, NEW c \in Clients, SkipLine(c)
    PROVE  Keeps(c)
<1> DEFINE dn == toClient[c]
           k == client[c].skip - 1
           x == Skipping(k)
<1>0. /\ UNCHANGED <<server, toServer, local, inode, name>> /\ client[c].pc = "skip"
      /\ LINEMAX \in Nat /\ LINEMAX > 1 /\ client' = [client EXCEPT ![c] = x]
  BY Constants DEF SkipLine
<1>1. PICK n \in 1 .. LINEMAX :
        /\ ClientRead(c, LINEMAX, n)
        /\ lapses' = [lapses EXCEPT ![c] = @ \cup Cut(dn, LINEMAX, n)]
  BY DEF SkipLine
<1>2. /\ ToClientMoved(c) /\ toClient'[c] = Without(dn, n)
      /\ n \in 0 .. Len(dn) /\ n # 0 /\ n \in Amounts(c, dn, LINEMAX)
  BY <1>0, <1>1, ClientHasRead
<1>3. dn \in Streams /\ Len(dn) \in Nat
  BY Upright
<1>4. LapsesMoved(c) /\ (lapses'[c] = {} => lapses[c] = {} /\ Cut(dn, LINEMAX, n) = {})
  BY <1>1, CutLapsed
<1>5. client[c].skip # 0 /\ client[c].skip \in 0 .. 3
  BY <1>0, Upright DEF IInv, Places, ClientPlace
<1>6. k \in 0 .. 3
  BY <1>5
<1> HIDE DEF k
<1>7. x \in ClientStates /\ x.skip = k /\ x.pc = IF k = 0 THEN "prompt" ELSE "skip"
  BY <1>6, SkippingIs
<1> HIDE DEF x, dn
<1>8. ClientMoved(c) /\ client'[c] = x
  BY <1>0, <1>7, ClientWent
<1>9. ClientPlace(c)'
  BY <1>7, <1>8, PlaceIs
<1>10. ASSUME lapses'[c] = {}
       PROVE  BothSides(x.pc, x.skip, x.length,
                        server[c].pc, server[c].length, toServer[c], Without(dn, n))
  <2>1. n = Least(LINEMAX, Len(dn)) /\ Len(dn) > 0
    BY <1>0, <1>2, <1>3, <1>4, <1>10, ReadAll
  <2>2. BothSides("skip", client[c].skip, client[c].length,
                  server[c].pc, server[c].length, toServer[c], dn)
    BY <1>0, <1>4, <1>10, Upright DEF Gone, dn
  <2>3. BothSides(IF client[c].skip - 1 = 0 THEN "prompt" ELSE "skip", client[c].skip - 1, x.length,
                  server[c].pc, server[c].length, toServer[c], Without(dn, n))
    BY <1>3, <1>5, <2>1, <2>2, Upright, AfterSkip
  <2> QED BY <1>7, <2>3 DEF k
<1>11. x.pc # "gone"
  BY <1>7
<1> QED BY <1>0, <1>2, <1>4, <1>8, <1>9, <1>10, <1>11, Unmoved, ClientKeeps

\* What get and cat do with the units they have read.
LEMMA LocalSaved ==
    ASSUME IInv, NEW c \in Clients, client[c].pc = "get.data", NEW u \in Streams, LocalSave(c, u)
    PROVE  /\ LocalMoved(c)
           /\ Advanced(client[c].pos, u) \in 0 .. MaxSize
           /\ client[c].op = "get" => Advanced(client[c].pos, u) <= Len(local'[c].text)
<1> DEFINE pos == client[c].pos
           s == local[c].text
           x == Stored(s, pos, u)
<1>0. /\ local \in [Clients -> [has : BOOLEAN, text : Streams]]
      /\ s \in Streams /\ Len(s) <= MaxSize /\ pos \in 0 .. MaxSize
  BY Upright DEF IInv, Types, Room
<1>1. CASE client[c].op = "get"
  <2>1. pos \in 0 .. Len(s)
    <3>1. pos <= Len(s)
      BY <1>1 DEF IInv, Places, ClientPlace
    <3> QED BY <1>0, <3>1, Constants DEF Streams
  <2>2. /\ x \in Streams /\ Len(x) <= MaxSize
        /\ Advanced(pos, u) \in 0 .. MaxSize /\ Advanced(pos, u) <= Len(x)
    BY <1>0, <2>1, StoredIs
  <2>3. local' = [local EXCEPT ![c].text = x]
    BY <1>1 DEF LocalSave
  <2> HIDE DEF x, s, pos
  <2>4. \A d \in Clients : Len(local[d].text) <= MaxSize
    BY DEF IInv, Room
  <2>5. /\ local' \in [Clients -> [has : BOOLEAN, text : Streams]] /\ local'[c].text = x
        /\ \A d \in Clients \ {c} : local'[d] = local[d]
    BY <1>0, <2>2, <2>3
  <2>6. LocalMoved(c)
    BY <2>2, <2>4, <2>5 DEF LocalMoved
  <2> QED BY <2>2, <2>5, <2>6 DEF pos
<1>2. CASE client[c].op # "get"
  <2>1. local' = local
    BY <1>2 DEF LocalSave
  <2>2. Advanced(pos, u) \in 0 .. MaxSize
    BY <1>0, Constants DEF Advanced, Fits, Streams
  <2> QED BY <1>2, <2>1, <2>2, Unmoved
<1> QED BY <1>1, <1>2

\* The first line of the reply to get or cat.
LEMMA ReadGetReplyKeeps ==
    ASSUME IInv, NEW c \in Clients, ReadGetReply(c)
    PROVE  Keeps(c)
<1> DEFINE dn == toClient[c]
           u == Head(dn)
           x == CASE u = Text("Error") -> Skipping(3)
                  [] u # Text("Error") /\ u.kind \in {"text", "nul"} ->
                        [client[c] EXCEPT !.pc = "get.length"]
                  [] OTHER -> [Prompt EXCEPT !.pc = "garbled"]
<1>0. /\ UNCHANGED <<server, toServer, local, inode, name>> /\ client[c].pc = "get.reply"
      /\ LINEMAX \in Nat /\ LINEMAX > 1
  BY Constants DEF ReadGetReply
<1>1. PICK n \in 1 .. LINEMAX :
        /\ ClientRead(c, LINEMAX, n)
        /\ client' = [client EXCEPT ![c] = x]
        /\ lapses' = [lapses EXCEPT ![c] = @ \cup Cut(dn, LINEMAX, n)]
  BY Zenon DEF ReadGetReply
<1>2. /\ ToClientMoved(c) /\ toClient'[c] = Without(dn, n)
      /\ n \in 0 .. Len(dn) /\ n # 0 /\ n \in Amounts(c, dn, LINEMAX)
  BY <1>0, <1>1, ClientHasRead
<1>3. dn \in Streams /\ Len(dn) \in Nat
  BY Upright
<1>4. LapsesMoved(c) /\ (lapses'[c] = {} => lapses[c] = {} /\ Cut(dn, LINEMAX, n) = {})
  BY <1>1, CutLapsed
<1>5. u = dn[1]
  BY <1>2, <1>3 DEF Streams
<1>6. \/ u = Text("Error") /\ x = Skipping(3)
      \/ u # Text("Error") /\ u.kind \in {"text", "nul"} /\ x = [client[c] EXCEPT !.pc = "get.length"]
      \/ u # Text("Error") /\ u.kind \notin {"text", "nul"} /\ x = [Prompt EXCEPT !.pc = "garbled"]
  OBVIOUS
<1> HIDE DEF x, u, dn
<1>7. ASSUME x = Skipping(3)
      PROVE  x \in ClientStates /\ x.pc = "skip" /\ x.skip = 3
  BY <1>7, SkippingIs
<1>8. ASSUME x = [client[c] EXCEPT !.pc = "get.length"]
      PROVE  /\ x \in ClientStates /\ x.pc = "get.length" /\ x.skip = client[c].skip
             /\ x.length = client[c].length /\ x.pos = 0
  <2>1. client[c] \in ClientStates /\ client[c].pos = 0
    BY <1>0 DEF IInv, Types, Places, ClientPlace
  <2> QED BY <1>8, <2>1 DEF ClientStates, ClientPcs
<1>9. ASSUME x = [Prompt EXCEPT !.pc = "garbled"]
      PROVE  x \in ClientStates /\ x.pc = "garbled"
  BY <1>9, AtIs DEF ClientPcs
<1>10. ClientMoved(c) /\ client'[c] = x /\ x.pc # "gone"
  BY <1>1, <1>6, <1>7, <1>8, <1>9, ClientWent
<1>11. ClientPlace(c)'
  BY <1>6, <1>7, <1>8, <1>9, <1>10 DEF ClientPlace
<1>12. ASSUME lapses'[c] = {}
       PROVE  BothSides(x.pc, x.skip, x.length,
                        server[c].pc, server[c].length, toServer[c], Without(dn, n))
  <2>1. n = Least(LINEMAX, Len(dn)) /\ Len(dn) > 0
    BY <1>0, <1>2, <1>3, <1>4, <1>12, ReadAll
  <2>2. BothSides("get.reply", client[c].skip, client[c].length,
                  server[c].pc, server[c].length, toServer[c], dn)
    BY <1>0, <1>4, <1>12, Upright DEF Gone, dn
  <2>3. /\ dn[1].kind = "text"
        /\ dn[1] = Text("Error") => BothSides("skip", 3, x.length,
                server[c].pc, server[c].length, toServer[c], Without(dn, n))
        /\ dn[1] # Text("Error") => BothSides("get.length", client[c].skip, x.length,
                server[c].pc, server[c].length, toServer[c], Without(dn, n))
    <3> DEFINE up == toServer[c]
    <3>1. /\ client[c].skip \in 0 .. 3 /\ client[c].length \in 0 .. MaxSize
          /\ server[c].length \in 0 .. MaxSize /\ up \in Streams
      BY Upright
    <3> HIDE DEF up
    <3>2. BothSides("get.reply", client[c].skip, client[c].length,
                    server[c].pc, server[c].length, up, dn)
      BY <2>2 DEF up
    <3> DEFINE skip == client[c].skip
               len == client[c].length
               left == server[c].length
               pc == server[c].pc
               n2 == x.length
    <3> HIDE DEF skip, len, left, pc, n2
    <3>3. skip \in 0 .. 3 /\ len \in 0 .. MaxSize /\ left \in 0 .. MaxSize
          /\ BothSides("get.reply", skip, len, pc, left, up, dn)
      BY <3>1, <3>2 DEF skip, len, left, pc
    <3>4. dn[1].kind = "text"
      BY <1>3, <2>1, <3>1, <3>3, AfterGetReply
    <3>5. dn[1] = Text("Error") => BothSides("skip", 3, n2, pc, left, up, Without(dn, n))
      BY <1>3, <2>1, <3>1, <3>3, AfterGetReply
    <3>6. dn[1] # Text("Error") => BothSides("get.length", skip, n2, pc, left, up, Without(dn, n))
      BY <1>3, <2>1, <3>1, <3>3, AfterGetReply
    <3> QED BY <3>4, <3>5, <3>6 DEF up, skip, left, pc, n2
  <2> QED BY <1>5, <1>6, <1>7, <1>8, <2>3
<1> QED BY <1>0, <1>2, <1>4, <1>10, <1>11, <1>12, Unmoved, ClientKeeps

\* The length of the file.
LEMMA ReadLengthKeeps ==
    ASSUME IInv, NEW c \in Clients, ReadLength(c)
    PROVE  Keeps(c)
<1> DEFINE dn == toClient[c]
           u == Head(dn)
           x == [client[c] EXCEPT !.pc = "get.data", !.length = u.val]
           y == [Prompt EXCEPT !.pc = "garbled"]
<1>0. /\ UNCHANGED <<server, toServer, inode, name, lapses>> /\ client[c].pc = "get.length"
      /\ ClientRead(c, 1, 1)
      /\ client \in [Clients -> ClientStates]
  BY DEF ReadLength, IInv, Types
<1>1. /\ ToClientMoved(c) /\ toClient'[c] = Without(dn, 1) /\ 1 \in 0 .. Len(dn)
  BY <1>0, ClientHasRead
<1>2. dn \in Streams /\ Len(dn) \in Nat /\ Len(dn) > 0 /\ u = dn[1] /\ u \in Units
  BY <1>1, Upright DEF Streams
<1>3. CASE u.kind = "long"
  <2>1. /\ client' = [client EXCEPT ![c].pc = "get.data", ![c].length = u.val]
        /\ local' = IF client[c].op = "get" THEN [local EXCEPT ![c].has = TRUE] ELSE local
    BY <1>3 DEF ReadLength
  <2>2. u.val \in 0 .. MaxSize
    BY <1>2, <1>3, LongUnits
  <2> HIDE DEF u, dn
  <2>3. client' = [client EXCEPT ![c] = x]
    BY <1>0, <2>1 DEF ClientStates
  <2>4. client[c] \in ClientStates /\ client[c].pos = 0
    BY <1>0 DEF IInv, Places, ClientPlace
  <2>5. x \in ClientStates /\ x.pc = "get.data" /\ x.skip = client[c].skip /\ x.length = u.val
        /\ x.pos = 0
    BY <2>2, <2>4 DEF ClientStates, ClientPcs
  <2> HIDE DEF x
  <2>6. ClientMoved(c) /\ client'[c] = x
    BY <2>3, <2>5, ClientWent
  <2>7. LocalMoved(c)
    <3>1. CASE client[c].op = "get"
      <4>1. local' = [local EXCEPT ![c].has = TRUE]
        BY <2>1, <3>1
      <4> QED BY <4>1 DEF LocalMoved, IInv, Types, Room
    <3>2. CASE client[c].op # "get"
      BY <2>1, <3>2, Unmoved
    <3> QED BY <3>1, <3>2
  <2>8. ClientPlace(c)'
    <3>1. 0 <= Len(local'[c].text)
      BY <2>7 DEF LocalMoved, Streams
    <3> QED BY <2>5, <2>6, <3>1 DEF ClientPlace
  <2>9. ASSUME lapses'[c] = {}
        PROVE  BothSides("get.data", client[c].skip, u.val,
                         server[c].pc, server[c].length, toServer[c], Without(dn, 1))
    <3> DEFINE up == toServer[c]
               skip == client[c].skip
               n == client[c].length
               left == server[c].length
               pc == server[c].pc
    <3>1. /\ skip \in 0 .. 3 /\ n \in 0 .. MaxSize /\ left \in 0 .. MaxSize /\ up \in Streams
      BY Upright
    <3>2. BothSides("get.length", skip, n, pc, left, up, dn)
      BY <1>0, <2>9, Upright DEF Gone, dn
    <3> HIDE DEF up, skip, n, left, pc
    <3>3. BothSides("get.data", skip, dn[1].val, pc, left, up, Without(dn, 1))
      BY <1>2, <3>1, <3>2, AfterLength
    <3> QED BY <1>2, <3>3 DEF up, skip, left, pc
  <2> QED BY <1>0, <1>1, <2>5, <2>6, <2>7, <2>8, <2>9, Unmoved, ClientKeeps
<1>4. CASE u.kind # "long"
  <2>1. client' = [client EXCEPT ![c] = y] /\ local' = local
    BY <1>4 DEF ReadLength
  <2>2. y \in ClientStates /\ y.pc = "garbled"
    BY AtIs DEF ClientPcs
  <2> HIDE DEF y
  <2>3. ClientMoved(c) /\ client'[c] = y
    BY <2>1, <2>2, ClientWent
  <2>4. ClientPlace(c)'
    BY <2>2, <2>3, PlaceIs
  <2>5. lapses[c] # {}
    <3> DEFINE up == toServer[c]
               skip == client[c].skip
               n == client[c].length
               left == server[c].length
               pc == server[c].pc
    <3>1. /\ skip \in 0 .. 3 /\ n \in 0 .. MaxSize /\ left \in 0 .. MaxSize /\ up \in Streams
      BY Upright
    <3>2. lapses[c] = {} => BothSides("get.length", skip, n, pc, left, up, dn)
      BY <1>0, Upright DEF Gone
    <3> HIDE DEF up, skip, n, left, pc
    <3>3. lapses[c] = {} => dn[1].kind = "long"
      BY <1>2, <3>1, <3>2, AfterLength
    <3> QED BY <1>2, <1>4, <3>3
  <2> QED BY <1>0, <1>1, <2>1, <2>2, <2>3, <2>4, <2>5, Unmoved, ClientKeeps
<1> QED BY <1>3, <1>4

\* A line of the file.
LEMMA ReadChunkKeeps ==
    ASSUME IInv, NEW c \in Clients, ReadChunk(c)
    PROVE  Keeps(c)
<1> DEFINE dn == toClient[c]
           m == client[c].length
<1>0. /\ UNCHANGED <<server, toServer, inode, name>> /\ client[c].pc = "get.data"
      /\ LINEMAX \in Nat /\ LINEMAX > 1 /\ m > LINEMAX /\ m \in 0 .. MaxSize /\ MaxSize \in Nat
      /\ client \in [Clients -> ClientStates]
  BY Upright, Constants DEF ReadChunk, IInv, Types
<1>1. PICK n \in 1 .. LINEMAX :
        /\ ClientRead(c, LINEMAX, n)
        /\ LocalSave(c, Filled(SubSeq(dn, 1, n)))
        /\ client' = [client EXCEPT ![c].length = @ - n,
                                    ![c].pos = Advanced(@, Filled(SubSeq(dn, 1, n)))]
        /\ lapses' = [lapses EXCEPT ![c] = @ \cup Cut(dn, LINEMAX, n)]
  BY Zenon DEF ReadChunk
<1>2. /\ ToClientMoved(c) /\ toClient'[c] = Without(dn, n)
      /\ n \in 0 .. Len(dn) /\ n # 0 /\ n <= LINEMAX /\ n \in Amounts(c, dn, LINEMAX)
  BY <1>0, <1>1, ClientHasRead
<1>3. dn \in Streams /\ Len(dn) \in Nat
  BY Upright
<1>4. LapsesMoved(c) /\ (lapses'[c] = {} => lapses[c] = {} /\ Cut(dn, LINEMAX, n) = {})
  BY <1>1, CutLapsed
<1> HIDE DEF dn, m
<1> DEFINE u == Filled(SubSeq(dn, 1, n))
           pos == Advanced(client[c].pos, u)
<1>5. u \in Streams
  <2>1. SubSeq(dn, 1, n) \in Streams /\ Len(SubSeq(dn, 1, n)) = n
    BY <1>2, <1>3, FrontIs
  <2> QED BY <1>2, <2>1, FilledIs
<1>6. LocalMoved(c) /\ pos \in 0 .. MaxSize /\ (client[c].op = "get" => pos <= Len(local'[c].text))
  BY <1>0, <1>1, <1>5, LocalSaved
<1>7. client' = [client EXCEPT ![c].length = m - n, ![c].pos = pos]
  BY <1>1 DEF m
<1>8. m - n \in 0 .. MaxSize
  BY <1>0, <1>2
<1> HIDE DEF u, pos
<1>9. /\ ClientMoved(c) /\ client'[c].pc = "get.data" /\ client'[c].skip = client[c].skip
      /\ client'[c].length = m - n /\ client'[c].pos = pos /\ client'[c].op = client[c].op
  BY <1>0, <1>6, <1>7, <1>8 DEF ClientMoved, ClientStates
<1>10. ClientPlace(c)'
  BY <1>6, <1>9 DEF ClientPlace
<1>11. ASSUME lapses'[c] = {}
       PROVE  BothSides("get.data", client[c].skip, m - n,
                        server[c].pc, server[c].length, toServer[c], Without(dn, n))
  <2> DEFINE up == toServer[c]
             skip == client[c].skip
             left == server[c].length
             pc == server[c].pc
  <2>1. /\ skip \in 0 .. 3 /\ left \in 0 .. MaxSize /\ up \in Streams
    BY Upright
  <2>2. BothSides("get.data", skip, m, pc, left, up, dn)
    BY <1>0, <1>4, <1>11, Upright DEF Gone, dn, m
  <2>3. n = Least(LINEMAX, Len(dn)) /\ Len(dn) > 0
    BY <1>0, <1>2, <1>3, <1>4, <1>11, ReadAll
  <2> HIDE DEF up, skip, left, pc
  <2>4. BothSides("get.data", skip, m - n, pc, left, up, Without(dn, n))
    BY <1>0, <1>3, <2>1, <2>2, <2>3, AfterChunk
  <2> QED BY <2>4 DEF up, skip, left, pc
<1> QED BY <1>0, <1>2, <1>4, <1>6, <1>9, <1>10, <1>11, Unmoved, ClientKeeps

\* The last units of the file.
LEMMA ReadLastKeeps ==
    ASSUME IInv, NEW c \in Clients, ReadLast(c)
    PROVE  Keeps(c)
<1> DEFINE dn == toClient[c]
           m == client[c].length
           x == Skipping(1)
<1>0. /\ UNCHANGED <<server, toServer, inode, name>> /\ client[c].pc = "get.data"
      /\ LINEMAX \in Nat /\ m <= LINEMAX /\ m \in 0 .. MaxSize /\ m \in Nat
      /\ client' = [client EXCEPT ![c] = x]
  BY Upright, Constants DEF ReadLast
<1>1. PICK n \in 0 .. m :
        /\ ClientRead(c, m, n)
        /\ LocalSave(c, SubSeq(dn, 1, n))
        /\ lapses' = [lapses EXCEPT ![c] = @ \cup Cut(dn, m, n)]
  BY Zenon DEF ReadLast
<1>2. /\ ToClientMoved(c) /\ toClient'[c] = Without(dn, n) /\ n \in 0 .. Len(dn)
      /\ (m = 0 => n = 0) /\ (m # 0 => n # 0 /\ n \in Amounts(c, dn, m))
  BY <1>0, <1>1, ClientHasRead
<1>3. dn \in Streams /\ Len(dn) \in Nat
  BY Upright
<1>4. LapsesMoved(c) /\ (lapses'[c] = {} => lapses[c] = {} /\ Cut(dn, m, n) = {})
  BY <1>1, CutLapsed
<1>5. x \in ClientStates /\ x.pc = "skip" /\ x.skip = 1
  BY SkippingIs
<1> HIDE DEF dn, m, x
<1>6. SubSeq(dn, 1, n) \in Streams
  BY <1>2, <1>3, FrontIs
<1>7. LocalMoved(c)
  BY <1>0, <1>1, <1>6, LocalSaved
<1>8. ClientMoved(c) /\ client'[c] = x
  BY <1>0, <1>5, ClientWent
<1>9. ClientPlace(c)'
  BY <1>5, <1>8, PlaceIs
<1>10. ASSUME lapses'[c] = {}
       PROVE  BothSides("skip", 1, x.length,
                        server[c].pc, server[c].length, toServer[c], Without(dn, n))
  <2> DEFINE up == toServer[c]
             skip == client[c].skip
             left == server[c].length
             pc == server[c].pc
  <2>1. /\ skip \in 0 .. 3 /\ left \in 0 .. MaxSize /\ up \in Streams
    BY Upright
  <2>2. BothSides("get.data", skip, m, pc, left, up, dn)
    BY <1>0, <1>4, <1>10, Upright DEF Gone, dn, m
  <2>3. n = Least(m, Len(dn)) /\ (m = 0 \/ Len(dn) > 0)
    <3>1. CASE m = 0
      BY <1>2, <1>3, <3>1 DEF Least
    <3>2. CASE m # 0
      <4>1. n \in 1 .. Len(dn) /\ n = Least(m, Len(dn))
        BY <1>0, <1>2, <1>3, <1>4, <1>10, <3>2, ReadAll
      <4> QED BY <1>3, <4>1
    <3> QED BY <3>1, <3>2
  <2> HIDE DEF up, skip, left, pc
  <2>4. BothSides("skip", 1, x.length, pc, left, up, Without(dn, n))
    BY <1>0, <1>3, <2>1, <2>2, <2>3, AfterReadLast
  <2> QED BY <2>4 DEF up, left, pc
<1> QED BY <1>0, <1>2, <1>4, <1>5, <1>7, <1>8, <1>9, <1>10, Unmoved, ClientKeeps

\* The reply to put, which "ready" and the length answer.
LEMMA ReadPutReplyKeeps ==
    ASSUME IInv, NEW c \in Clients, ReadPutReply(c)
    PROVE  Keeps(c)
<1> DEFINE dn == toClient[c]
           u == Head(dn)
           size == Len(local[c].text)
           y == [Prompt EXCEPT !.pc = "put.data", !.length = size]
           x == CASE u = Text("error") -> Skipping(1)
                  [] u # Text("error") /\ u.kind \in {"text", "nul"} -> y
                  [] OTHER -> [Prompt EXCEPT !.pc = "garbled"]
           s == Line("ready") \o <<Long(size)>>
<1>0. /\ UNCHANGED <<server, local, inode, name>> /\ client[c].pc = "put.reply"
      /\ LINEMAX \in Nat /\ LINEMAX > 1
  BY Constants DEF ReadPutReply
<1>1. PICK n \in 1 .. LINEMAX :
        /\ ClientRead(c, LINEMAX, n)
        /\ client' = [client EXCEPT ![c] = x]
        /\ IF u.kind \in {"text", "nul"} /\ u # Text("error") THEN Send(c, s) ELSE UNCHANGED toServer
        /\ lapses' = [lapses EXCEPT ![c] = @ \cup Cut(dn, LINEMAX, n)]
  BY Zenon DEF ReadPutReply
<1>2. /\ ToClientMoved(c) /\ toClient'[c] = Without(dn, n)
      /\ n \in 0 .. Len(dn) /\ n # 0 /\ n \in Amounts(c, dn, LINEMAX)
  BY <1>0, <1>1, ClientHasRead
<1>3. dn \in Streams /\ Len(dn) \in Nat
  BY Upright
<1>4. LapsesMoved(c) /\ (lapses'[c] = {} => lapses[c] = {} /\ Cut(dn, LINEMAX, n) = {})
  BY <1>1, CutLapsed
<1>5. u = dn[1]
  BY <1>2, <1>3 DEF Streams
<1>6. size \in 0 .. MaxSize /\ s \in Streams
  <2>1. size \in 0 .. MaxSize
    BY Constants DEF IInv, Types, Room, Streams
  <2>2. <<Long(size)>> \in Streams
    BY <2>1, UnitTypes DEF Streams
  <2>3. "ready" \in Requests \cup Careless \cup Replies
    BY DEF Replies
  <2> QED BY <2>1, <2>2, <2>3, LineAnd
<1> HIDE DEF size, s
<1>7. \/ u = Text("error") /\ x = Skipping(1) /\ toServer' = toServer
      \/ u # Text("error") /\ u.kind \in {"text", "nul"} /\ x = y /\ Send(c, s)
      \/ u # Text("error") /\ u.kind \notin {"text", "nul"} /\ x = [Prompt EXCEPT !.pc = "garbled"]
         /\ toServer' = toServer
  <2>1. \/ u = Text("error") /\ x = Skipping(1)
        \/ u # Text("error") /\ u.kind \in {"text", "nul"} /\ x = y
        \/ u # Text("error") /\ u.kind \notin {"text", "nul"} /\ x = [Prompt EXCEPT !.pc = "garbled"]
    OBVIOUS
  <2> HIDE DEF x, y, u
  <2> QED BY <1>1, <2>1
<1> HIDE DEF x, y, u, dn
<1>8. ASSUME x = Skipping(1)
      PROVE  x \in ClientStates /\ x.pc = "skip" /\ x.skip = 1
  BY <1>8, SkippingIs
<1>9. y \in ClientStates /\ y.pc = "put.data" /\ y.length = size /\ y.pos = 0
  BY <1>6, PromptIs DEF ClientStates, ClientPcs, y
<1>10. ASSUME x = [Prompt EXCEPT !.pc = "garbled"]
       PROVE  x \in ClientStates /\ x.pc = "garbled"
  BY <1>10, AtIs DEF ClientPcs
<1>11. ClientMoved(c) /\ client'[c] = x /\ x.pc # "gone"
  BY <1>1, <1>7, <1>8, <1>9, <1>10, ClientWent
<1>12. ClientPlace(c)'
  <2>1. CASE x = y
    <3>1. y.pos + y.length <= Len(local'[c].text)
      BY <1>0, <1>6, <1>9, Constants DEF size
    <3> QED BY <1>9, <1>11, <2>1, <3>1 DEF ClientPlace
  <2>2. CASE x # y
    BY <1>7, <1>8, <1>10, <1>11, <2>2, PlaceIs
  <2> QED BY <2>1, <2>2
<1>13. ToServerMoved(c) /\ (x = y => toServer'[c] = toServer[c] \o s)
  <2>1. CASE Send(c, s)
    BY <1>6, <2>1, Sent
  <2>2. CASE ~Send(c, s)
    BY <1>7, <1>8, <1>9, <1>10, <2>2, Unmoved
  <2> QED BY <2>1, <2>2
<1>14. ASSUME lapses'[c] = {}
       PROVE  BothSides(x.pc, x.skip, x.length,
                        server[c].pc, server[c].length, toServer'[c], Without(dn, n))
  <2> DEFINE up == toServer[c]
             skip == client[c].skip
             m == client[c].length
             left == server[c].length
             pc == server[c].pc
             skip2 == x.skip
  <2>1. /\ skip \in 0 .. 3 /\ m \in 0 .. MaxSize /\ left \in 0 .. MaxSize /\ up \in Streams
    BY Upright
  <2>2. BothSides("put.reply", skip, m, pc, left, up, dn)
    BY <1>0, <1>4, <1>14, Upright DEF Gone, dn
  <2>3. n = Least(LINEMAX, Len(dn)) /\ Len(dn) > 0
    BY <1>0, <1>2, <1>3, <1>4, <1>14, ReadAll
  <2> HIDE DEF up, skip, m, left, pc, skip2
  <2>4. /\ dn[1].kind = "text"
        /\ dn[1] # Text("error") => BothSides("put.data", skip2, size, pc, left, up \o s, Without(dn, n))
    <3> DEFINE ready == Line("ready") \o <<Long(size)>>
    <3>1. /\ dn[1].kind = "text"
          /\ dn[1] # Text("error") =>
                BothSides("put.data", skip2, size, pc, left, up \o ready, Without(dn, n))
      BY <1>3, <1>6, <2>1, <2>2, <2>3, AfterPutReply
    <3> QED BY <3>1 DEF s
  <2>5. CASE dn[1] = Text("error")
    <3>1. x = Skipping(1) /\ toServer' = toServer
      BY <1>5, <1>7, <2>5
    <3> DEFINE k == x.length
    <3>2. x.pc = "skip" /\ x.skip = 1 /\ k \in 0 .. MaxSize
      BY <1>8, <3>1 DEF ClientStates
    <3> HIDE DEF k
    <3>3. BothSides("skip", 1, k, pc, left, up, Without(dn, n))
      BY <1>3, <2>1, <2>2, <2>3, <2>5, <3>2, AfterPutReply
    <3> QED BY <3>1, <3>2, <3>3 DEF up, left, pc, k
  <2>6. CASE dn[1] # Text("error")
    <3>1. x = y
      BY <1>5, <1>7, <2>4, <2>6
    <3>2. BothSides("put.data", skip2, size, pc, left, up \o s, Without(dn, n))
      BY <2>4, <2>6
    <3> QED BY <1>9, <1>13, <3>1, <3>2 DEF up, skip2, left, pc
  <2> QED BY <2>5, <2>6
<1> QED BY <1>0, <1>2, <1>4, <1>11, <1>12, <1>13, <1>14, Unmoved, ClientKeeps

\* A line of the file, or what is left of it.
LEMMA SendChunkKeeps ==
    ASSUME IInv, NEW c \in Clients, SendChunk(c)
    PROVE  Keeps(c)
<1> DEFINE m == client[c].length
           pos == client[c].pos
           n == Least(LINEMAX, m)
           text == local[c].text
           s == SubSeq(text, pos + 1, pos + n)
           x == IF m <= LINEMAX THEN Skipping(1)
                ELSE [client[c] EXCEPT !.length = m - n, !.pos = pos + n]
<1>0. /\ UNCHANGED <<server, toClient, local, inode, name, lapses>> /\ client[c].pc = "put.data"
      /\ Send(c, s) /\ client' = [client EXCEPT ![c] = x]
  BY Zenon DEF SendChunk
<1>1. /\ m \in 0 .. MaxSize /\ pos \in 0 .. MaxSize /\ pos + m <= Len(text)
      /\ LINEMAX \in Nat /\ LINEMAX > 1 /\ MaxSize \in Nat
      /\ text \in Streams /\ Len(text) \in Nat /\ Len(text) <= MaxSize
  <2>1. pos + m <= Len(text)
    BY <1>0 DEF IInv, Places, ClientPlace
  <2>2. text \in Streams /\ Len(text) <= MaxSize
    BY DEF IInv, Types, Room
  <2> QED BY <2>1, <2>2, Upright, Constants DEF Streams
<1>2. client[c] \in ClientStates
  BY DEF IInv, Types
<1> HIDE DEF text
<1>3. x = IF m <= LINEMAX THEN Skipping(1) ELSE [client[c] EXCEPT !.length = m - n, !.pos = pos + n]
  OBVIOUS
<1> HIDE DEF m, pos, x
<1>4. n \in Nat /\ n <= m /\ n <= LINEMAX /\ (m > LINEMAX => n = LINEMAX)
  BY <1>1 DEF Least
<1> HIDE DEF n
<1>5. s \in Streams /\ Len(s) = n
  <2>1. pos + 1 \in Nat /\ pos + n \in Nat /\ pos + n <= Len(text)
    BY <1>1, <1>4
  <2>2. \A i \in pos + 1 .. pos + n : text[i] \in Units
    BY <1>1, <2>1 DEF Streams
  <2> DEFINE a == pos + 1
             b == pos + n
  <2> HIDE DEF a, b
  <2>3. SubSeq(text, a, b) \in Seq(Units) /\ Len(SubSeq(text, a, b)) = IF a <= b THEN b - a + 1 ELSE 0
    BY <1>1, <2>1, <2>2, SubSeqProperties DEF a, b, Streams
  <2>4. Len(s) = n
    BY <1>1, <1>4, <2>3 DEF s, a, b
  <2>5. s \in Seq(Units)
    BY <2>3 DEF s, a, b
  <2> QED BY <2>4, <2>5 DEF Streams
<1> HIDE DEF s
<1>6. ToServerMoved(c) /\ toServer'[c] = toServer[c] \o s
  BY <1>0, <1>5, Sent
<1>7. CASE m <= LINEMAX
  <2>1. x = Skipping(1)
    BY <1>3, <1>7
  <2>2. x \in ClientStates /\ x.pc = "skip" /\ x.skip = 1
    BY <2>1, SkippingIs
  <2>3. ClientMoved(c) /\ client'[c] = x
    BY <1>0, <2>2, ClientWent
  <2>4. ClientPlace(c)'
    BY <2>2, <2>3, PlaceIs
  <2>5. ASSUME lapses[c] = {}
        PROVE  BothSides("skip", 1, x.length,
                         server[c].pc, server[c].length, toServer[c] \o s, toClient[c])
    <3> DEFINE up == toServer[c]
               dn == toClient[c]
               skip == client[c].skip
               left == server[c].length
               pc == server[c].pc
               k == x.length
    <3>1. /\ skip \in 0 .. 3 /\ left \in 0 .. MaxSize /\ up \in Streams /\ dn \in Streams
      BY Upright
    <3>2. BothSides("put.data", skip, m, pc, left, up, dn)
      BY <1>0, <2>5, Upright DEF Gone, m
    <3> HIDE DEF up, dn, skip, left, pc, k
    <3>3. BothSides("skip", 1, k, pc, left, up \o s, dn)
      BY <1>1, <1>5, <1>7, <3>1, <3>2, AfterSend DEF n
    <3> QED BY <3>3 DEF up, dn, left, pc, k
  <2> QED BY <1>0, <1>6, <2>2, <2>3, <2>4, <2>5, Unmoved, ClientKeeps
<1>8. CASE m > LINEMAX
  <2>1. x = [client[c] EXCEPT !.length = m - n, !.pos = pos + n] /\ n = LINEMAX
    BY <1>1, <1>3, <1>4, <1>8
  <2>2. m - n \in 0 .. MaxSize /\ pos + n \in 0 .. MaxSize
    BY <1>1, <1>4
  <2>3. x \in ClientStates /\ x.pc = "put.data" /\ x.length = m - n /\ x.pos = pos + n
        /\ x.skip = client[c].skip
    BY <1>0, <1>2, <2>1, <2>2 DEF ClientStates
  <2>4. ClientMoved(c) /\ client'[c] = x
    BY <1>0, <2>3, ClientWent
  <2>5. ClientPlace(c)'
    <3>1. (pos + n) + (m - n) <= Len(text)
      BY <1>1, <1>4
    <3> QED BY <1>0, <2>3, <2>4, <3>1 DEF ClientPlace, text
  <2>6. ASSUME lapses[c] = {}
        PROVE  BothSides("put.data", client[c].skip, m - n,
                         server[c].pc, server[c].length, toServer[c] \o s, toClient[c])
    <3> DEFINE up == toServer[c]
               dn == toClient[c]
               skip == client[c].skip
               left == server[c].length
               pc == server[c].pc
    <3>1. /\ skip \in 0 .. 3 /\ left \in 0 .. MaxSize /\ up \in Streams /\ dn \in Streams
      BY Upright
    <3>2. BothSides("put.data", skip, m, pc, left, up, dn)
      BY <1>0, <2>6, Upright DEF Gone, m
    <3> HIDE DEF up, dn, skip, left, pc
    <3>3. BothSides("put.data", skip, m - LINEMAX, pc, left, up \o s, dn)
      BY <1>1, <1>5, <1>8, <3>1, <3>2, AfterSend DEF n
    <3> QED BY <2>1, <3>3 DEF up, dn, skip, left, pc
  <2> QED BY <1>0, <1>6, <2>3, <2>4, <2>5, <2>6, Unmoved, ClientKeeps
<1> QED BY <1>1, <1>7, <1>8

\* Every step of the client keeps the invariant.
LEMMA ClientStepKeeps ==
    ASSUME IInv, NEW c \in Clients, ClientStep(c)
    PROVE  Keeps(c)
BY ReadLinesKeeps, SkipLineKeeps, ReadGetReplyKeeps, ReadLengthKeeps, ReadChunkKeeps,
   ReadLastKeeps, ReadPutReplyKeeps, SendChunkKeeps DEF ClientStep

-------------------------------------------------------------------------------
\* The theorems.

\* In the initial states every client is at its prompt with its own file, and nothing
\* is in a connection or in a file of the server.
LEMMA InitHolds ==
    Init => IInv
<1> SUFFICES ASSUME Init PROVE IInv
  OBVIOUS
<1>1. <<>> \in Streams /\ Len(<<>>) = 0 /\ MaxSize \in Nat /\ Capacity \in Nat
  BY Constants DEF Streams
<1>2. /\ Prompt \in ClientStates /\ Prompt.pc = "prompt"
  BY PromptIs
<1>3. Idle \in ServerStates /\ Idle.pc = "request" /\ Idle.length = 0
  BY Constants DEF Idle, ServerStates, ServerPcs
<1> DEFINE text(c) == [i \in 1 .. Size[c] |-> Data(c, i)]
<1>4. ASSUME NEW c \in Clients
      PROVE  text(c) \in Streams /\ Len(text(c)) <= MaxSize
  <2>1. Size[c] \in Nat /\ Size[c] <= MaxSize
    BY Constants
  <2>2. \A i \in 1 .. Size[c] : Data(c, i) \in Units
    BY <1>1, <2>1, UnitTypes
  <2> QED BY <2>1, <2>2 DEF Streams
<1> HIDE DEF text
<1>5. local = [c \in Clients |-> [has |-> TRUE, text |-> text(c)]]
  BY DEF Init, text
<1>6. Types
  <2>1. local \in [Clients -> [has : BOOLEAN, text : Streams]]
    BY <1>4, <1>5
  <2>2. /\ client \in [Clients -> ClientStates] /\ server \in [Clients -> ServerStates]
    BY <1>2, <1>3 DEF Init
  <2>3. /\ toServer \in [Clients -> Streams] /\ toClient \in [Clients -> Streams]
        /\ inode \in [Inodes -> Streams]
    BY <1>1 DEF Init
  <2> QED BY <2>1, <2>2, <2>3 DEF Init, Types
<1>7. Room
  <2>1. \A c \in Clients : Len(local[c].text) <= MaxSize
    BY <1>4, <1>5
  <2> QED BY <1>1, <2>1 DEF Init, Room
<1>8. Places
  BY <1>2, <1>3 DEF Init, Places, ClientPlace, ServerPlace
<1>9. Exchanges
  <2>1. ASSUME NEW c \in Clients
        PROVE  /\ ~Gone(c)
               /\ BothSides(client[c].pc, client[c].skip, client[c].length,
                            server[c].pc, server[c].length, toServer[c], toClient[c])
    BY <1>1, <1>2, <1>3 DEF Init, Gone, BothSides
  <2> QED BY <2>1 DEF Exchanges, Exchange
<1> QED BY <1>6, <1>7, <1>8, <1>9 DEF IInv

\* Every step keeps the invariant.
LEMMA StepKeeps ==
    IInv /\ [Next]_vars => IInv'
<1> SUFFICES ASSUME IInv, [Next]_vars PROVE IInv'
  OBVIOUS
<1>1. CASE Next
  <2>1. PICK c \in Clients :
            \/ \E op \in Requests \cup Careless : Request(c, op)
            \/ LocalRemove(c)
            \/ Die(c)
            \/ ClientStep(c)
            \/ ServerStep(c)
    BY <1>1 DEF Next
  <2>2. CASE \E op \in Requests \cup Careless : Request(c, op)
    BY <2>2, RequestKeeps, CarelessKeeps DEF Keeps
  <2>3. CASE LocalRemove(c)
    BY <2>3, LocalRemoveKeeps DEF Keeps
  <2>4. CASE Die(c)
    BY <2>4, DieKeeps DEF Keeps
  <2>5. CASE ClientStep(c)
    BY <2>5, ClientStepKeeps DEF Keeps
  <2>6. CASE ServerStep(c)
    BY <2>6, ServerStepKeeps DEF Keeps
  <2> QED BY <2>1, <2>2, <2>3, <2>4, <2>5, <2>6
<1>2. CASE UNCHANGED vars
  <2>1. Types' /\ Room' /\ Places'
    BY <1>2 DEF vars, IInv, Types, Room, Places, ClientPlace, ServerPlace
  <2>2. Exchanges'
    BY <1>2, Zenon DEF vars, IInv, Exchanges, Exchange, Gone
  <2> QED BY <2>1, <2>2 DEF IInv
<1> QED BY <1>1, <1>2

\* The inductive invariant holds in every reachable state (client.c:299-387,
\* server.c:321-450).
THEOREM AlwaysSound == Spec => []IInv
<1>1. Init => IInv
  BY InitHolds
<1>2. IInv /\ [Next]_vars => IInv'
  BY StepKeeps
<1> QED BY <1>1, <1>2, PTL DEF Spec

\* The states of the two sides, what is in the connections and what is in the files
\* stay within their types and within their room.
THEOREM TypeCorrect == Spec => []TypeOK
<1>1. IInv => TypeOK
  <2> SUFFICES ASSUME IInv PROVE TypeOK
    OBVIOUS
  <2>1. ASSUME NEW s \in Streams
        PROVE  ToSet(s) \subseteq Units
    BY DEF ToSet, Streams
  <2>2. ASSUME NEW c \in Clients
        PROVE  /\ client[c].length \in 0 .. MaxSize /\ client[c].pos \in 0 .. MaxSize
               /\ server[c].length \in 0 .. MaxSize /\ server[c].pos \in 0 .. MaxSize
               /\ server[c].inode \in Inodes \cup {NoInode}
               /\ lapses[c] \subseteq Lapses
    BY Upright DEF IInv, Types, ServerStates
  <2>3. ASSUME NEW c \in Clients
        PROVE  /\ Len(toServer[c]) <= Capacity /\ ToSet(toServer[c]) \subseteq Units
               /\ Len(toClient[c]) <= Capacity /\ ToSet(toClient[c]) \subseteq Units
               /\ Len(local[c].text) <= MaxSize /\ ToSet(local[c].text) \subseteq Units
    BY <2>1 DEF IInv, Types, Room
  <2>4. \A i \in Inodes : Len(inode[i]) <= MaxSize /\ ToSet(inode[i]) \subseteq Units
    BY <2>1 DEF IInv, Types, Room
  <2>5. name \in Inodes \cup {NoInode}
    BY DEF IInv, Types
  <2> QED BY <2>2, <2>3, <2>4, <2>5 DEF TypeOK
<1> QED BY <1>1, AlwaysSound, PTL

\* The two sides agree where one command ends and the next begins, however many
\* clients there are and whatever the others do to the shared file, until one of the
\* four things that upset an exchange has happened to it (client.c:299-387,
\* server.c:321-450).
THEOREM InStepAlways == Spec => []InStep
<1>1. IInv => InStep
  <2> SUFFICES ASSUME IInv, NEW c \in Clients, lapses[c] = {}
               PROVE  /\ client[c].pc # "garbled" /\ server[c].pc # "garbled"
                      /\ client[c].pc = "prompt" =>
                            toServer[c] = <<>> /\ toClient[c] = <<>> /\ server[c].pc = "request"
    BY DEF InStep
  <2>1. server[c].pc # "garbled"
    BY Upright DEF ServerSide
  <2>2. CASE Gone(c)
    BY <2>1, <2>2 DEF Gone
  <2>3. CASE ~Gone(c)
    <3>1. BothSides(client[c].pc, client[c].skip, client[c].length,
                    server[c].pc, server[c].length, toServer[c], toClient[c])
      BY <2>3, Upright
    <3>2. /\ client[c].pc # "garbled"
          /\ client[c].pc = "prompt" =>
                server[c].pc = "request" /\ Len(toServer[c]) = 0 /\ Len(toClient[c]) = 0
      BY <3>1 DEF BothSides
    <3>3. \A s \in Streams : Len(s) = 0 => s = <<>>
      BY DEF Streams
    <3> QED BY <2>1, <3>2, <3>3, Upright
  <2> QED BY <2>2, <2>3
<1> QED BY <1>1, AlwaysSound, PTL

-------------------------------------------------------------------------------
\* The invariant of what is in the connections and in the files.

\* What is on its way to the child of c.
UpSound(c) ==
    UpPlaced(client[c].pc, client[c].pos, server[c].pc, server[c].length, server[c].pos, toServer[c])

\* What is on its way to c.  Nobody reads it when c is gone.
DownSound(c) ==
    Gone(c) \/ DownPlaced(client[c].pc, client[c].length, client[c].pos,
                          server[c].pc, server[c].pos, toClient[c])

\* The files of the server.
Files == \A i \in Inodes : InPlace(inode[i])

\* What a step of c has to show.
Sound(c) == Files /\ InPlace(local[c].text) /\ UpSound(c) /\ DownSound(c)

\* Nobody's exchange is upset.
Clean == \A c \in Clients : lapses[c] = {}

\* Together with IInv it is inductive.
DataInv == Clean => Files /\ \A c \in Clients : Sound(c)

-------------------------------------------------------------------------------
\* What a step of c has to show.

\* Without a lapse after a step there was none before it.
LEMMA SoundBefore ==
    ASSUME IInv, DataInv, NEW c \in Clients, Keeps(c), Clean'
    PROVE  lapses[c] = {} /\ lapses'[c] = {} /\ \A d \in Clients : Sound(d)
<1>1. ASSUME NEW d \in Clients PROVE lapses[d] = {}
  BY DEF Clean, Keeps, Moved, LapsesMoved
<1> QED BY <1>1 DEF Clean, DataInv

\* A step of c keeps data in place for the others, once it does so for c.
LEMMA SoundAfter ==
    ASSUME IInv, DataInv, NEW c \in Clients, Keeps(c), Clean' => Sound(c)'
    PROVE  DataInv'
<1> SUFFICES ASSUME Clean', NEW d \in Clients, d # c PROVE Sound(d)'
  BY DEF DataInv, Sound
<1>1. Sound(d) /\ Files'
  BY SoundBefore DEF Sound
<1>2. /\ client'[d] = client[d] /\ server'[d] = server[d] /\ local'[d] = local[d]
      /\ toServer'[d] = toServer[d] /\ toClient'[d] = toClient[d]
  BY DEF Keeps, Moved, ClientMoved, ServerMoved, ToServerMoved, ToClientMoved, LocalMoved
<1>3. UpSound(d)' /\ DownSound(d)'
  BY <1>1, <1>2 DEF Sound, UpSound, DownSound, Gone
<1> QED BY <1>1, <1>2, <1>3 DEF Sound

\* Away from get.stat and put there is nothing on its way to the child, and away from
\* get nothing on its way to the client.
LEMMA Elsewhere ==
    ASSUME NEW c \in Clients
    PROVE  /\ server[c].pc \notin {"get.stat", "put.ready", "put.length", "put.data"} => UpSound(c)
           /\ client[c].pc \notin {"get.reply", "get.length", "get.data"} => DownSound(c)
BY DEF UpSound, DownSound, UpPlaced, DownPlaced

\* What is on its way to the child stays what it is when neither has a part in a step.
LEMMA UpStays ==
    ASSUME NEW c \in Clients, UpSound(c), UNCHANGED <<server, toServer>>,
           client' = client \/ client'[c].pc # "put.data"
    PROVE  UpSound(c)'
BY DEF UpSound, UpPlaced

\* So does what is on its way to the client, unless the child goes on with its file.
LEMMA DownStays ==
    ASSUME NEW c \in Clients, DownSound(c), client' = client, Gone(c) \/ toClient' = toClient,
           server'[c].pc # "get.data"
    PROVE  DownSound(c)'
BY DEF DownSound, DownPlaced, Gone

\* A step that leaves the files alone.
LEMMA FilesStay ==
    ASSUME NEW c \in Clients, Sound(c)
    PROVE  /\ inode' = inode => Files'
           /\ local' = local => InPlace(local[c].text)'
BY DEF Sound, Files

\* Where the client is.
LEMMA WhereIs ==
    ASSUME IInv, NEW c \in Clients, lapses[c] = {}, ~Gone(c)
    PROVE  LET pc == server[c].pc  where == client[c].pc IN
           /\ pc \in {"text", "ls", "rm", "listing"} => where = "reply"
           /\ pc = "bad" => where = "skip"
           /\ pc \notin {"get nothing", "put nothing"}
           /\ pc \in {"get.open", "get.stat"} => where = "get.reply" /\ Len(toClient[c]) = 0
           /\ pc \in {"put.check", "put.open"} => where = "put.reply"
           /\ pc \in {"put.ready", "put.length", "put.data"} =>
                where \in {"skip", "put.reply", "put.data"}
<1> DEFINE pc == server[c].pc
           where == client[c].pc
           up == toServer[c]
           dn == toClient[c]
           skip == client[c].skip
           n == client[c].length
           left == server[c].length
<1>1. /\ where \in ClientPcs /\ where # "gone" /\ skip \in 0 .. 3 /\ n \in 0 .. MaxSize
      /\ left \in 0 .. MaxSize /\ up \in Streams /\ dn \in Streams
      /\ BothSides(where, skip, n, pc, left, up, dn)
  BY Upright
<1> HIDE DEF pc, where, up, dn, skip, n, left
<1>2. /\ pc \in {"text", "ls", "rm"} => where = "reply"
      /\ pc = "listing" => where = "reply"
      /\ pc = "bad" => where = "skip"
      /\ pc \in {"get.open", "get.stat"} => where = "get.reply" /\ Len(dn) = 0
      /\ pc \in {"put.check", "put.open"} => where = "put.reply"
  BY <1>1, Where
<1>3. ASSUME pc \in {"put.ready", "put.length", "put.data"}
      PROVE  where \in {"skip", "put.reply", "put.data"}
  <2>1. where \notin {"reply", "get.reply", "get.length", "get.data", "prompt", "garbled"}
    BY <1>1, <1>3 DEF BothSides, InReply, InGetReply, GettingAhead, Getting
  <2> QED BY <1>1, <2>1 DEF ClientPcs
<1>4. pc \notin {"get nothing", "put nothing"}
  BY <1>1, Nowhere
<1> QED BY <1>2, <1>3, <1>4 DEF pc, where, dn

-------------------------------------------------------------------------------
\* The steps of the child.

\* A step that only takes the child to another part of its command.
LEMMA ChildOn ==
    ASSUME IInv, DataInv, NEW c \in Clients, Keeps(c), Clean', UNCHANGED <<client, local>>, Files',
           server'[c].pc \notin {"get.stat", "get.data", "put.ready", "put.length", "put.data"},
           \/ toClient' = toClient
           \/ client[c].pc \notin {"get.reply", "get.length", "get.data"}
    PROVE  Sound(c)'
<1>1. Sound(c)
  BY SoundBefore
<1>2. UpSound(c)'
  BY Elsewhere DEF UpSound, UpPlaced
<1>3. DownSound(c)'
  BY <1>1 DEF Sound, DownSound, DownPlaced, Gone
<1> QED BY <1>1, <1>2, <1>3 DEF Sound

\* A request has no data in it.
LEMMA GetRequestSound ==
    ASSUME IInv, DataInv, NEW c \in Clients, Keeps(c), Clean', GetRequest(c)
    PROVE  Sound(c)'
<1> DEFINE u == Head(toServer[c])
           pc == CASE u.kind = "text" -> Handler(u.val)
                   [] u.kind = "nul" -> "bad"
                   [] OTHER -> "garbled"
<1>1. UNCHANGED <<client, toClient, local, inode, name>>
  BY DEF GetRequest
<1>2. PICK n \in 0 .. LINEMAX : IF n = 0 THEN Goto(c, "gone") ELSE Goto(c, pc)
  BY Zenon DEF GetRequest
<1>3. pc \in ServerPcs /\ pc \notin {"get.stat", "get.data", "put.ready", "put.length", "put.data"}
  BY HandlerIs DEF ServerPcs
<1> HIDE DEF pc
<1>4. server'[c].pc \in {"gone", pc}
  BY <1>2, <1>3, WentTo DEF ServerPcs
<1> QED BY <1>1, <1>3, <1>4, SoundBefore, FilesStay, ChildOn

\* Lines are not read as data.
LEMMA ReplyLinesSound ==
    ASSUME IInv, DataInv, NEW c \in Clients, Keeps(c), Clean', ReplyLines(c)
    PROVE  Sound(c)'
<1>1. /\ UNCHANGED <<client, local, inode>> /\ Done(c) /\ server[c].pc \in {"text", "listing"}
  BY DEF ReplyLines
<1>2. server'[c].pc = "request"
  BY <1>1, WasDone
<1>3. client[c].pc \in {"reply", "gone"}
  BY <1>1, SoundBefore, WhereIs DEF Gone
<1> QED BY <1>1, <1>2, <1>3, SoundBefore, FilesStay, ChildOn

\* Nor is the header.
LEMMA ReplyHeaderSound ==
    ASSUME IInv, DataInv, NEW c \in Clients, Keeps(c), Clean', ReplyHeader(c)
    PROVE  Sound(c)'
<1>1. /\ UNCHANGED <<client, local, inode>> /\ Goto(c, "listing") /\ server[c].pc = "ls"
  BY DEF ReplyHeader
<1>2. server'[c].pc = "listing"
  BY <1>1, WentTo DEF ServerPcs
<1>3. client[c].pc \in {"reply", "gone"}
  BY <1>1, SoundBefore, WhereIs DEF Gone
<1> QED BY <1>1, <1>2, <1>3, SoundBefore, FilesStay, ChildOn

\* Nor is the reply to an unknown command.
LEMMA ReplyNotFoundSound ==
    ASSUME IInv, DataInv, NEW c \in Clients, Keeps(c), Clean', ReplyNotFound(c)
    PROVE  Sound(c)'
<1>1. /\ UNCHANGED <<client, local, inode>> /\ Done(c) /\ server[c].pc = "bad"
  BY DEF ReplyNotFound
<1>2. server'[c].pc = "request"
  BY <1>1, WasDone
<1>3. client[c].pc \in {"skip", "gone"}
  BY <1>1, SoundBefore, WhereIs DEF Gone
<1> QED BY <1>1, <1>2, <1>3, SoundBefore, FilesStay, ChildOn

\* Nobody waits for the reply to a request without a name, unless the exchange is upset.
LEMMA ReplyNoNameSound ==
    ASSUME IInv, DataInv, NEW c \in Clients, Keeps(c), Clean', ReplyNoName(c)
    PROVE  Sound(c)'
<1>1. /\ UNCHANGED <<client, local, inode>> /\ Done(c)
      /\ server[c].pc \in {"get nothing", "put nothing"}
  BY DEF ReplyNoName
<1>2. server'[c].pc = "request"
  BY <1>1, WasDone
<1>3. client[c].pc = "gone"
  BY <1>1, SoundBefore, WhereIs DEF Gone
<1> QED BY <1>1, <1>2, <1>3, SoundBefore, FilesStay, ChildOn

\* A file that is gone holds nothing.
LEMMA KeptInPlace ==
    ASSUME NEW c \in Clients, NEW nm, NEW contents, inode' = Kept(c, contents, nm),
           \A i \in Inodes : InPlace(contents[i])
    PROVE  Files'
<1>1. \A i \in Inodes : inode'[i] \in {contents[i], <<>>}
  BY DEF Kept
<1>2. InPlace(<<>>)
  BY DEF InPlace
<1> QED BY <1>1, <1>2 DEF Files

\* A file that loses its name keeps what it holds or is gone.
LEMMA RemoveFileSound ==
    ASSUME IInv, DataInv, NEW c \in Clients, Keeps(c), Clean', RemoveFile(c)
    PROVE  Sound(c)'
<1>1. /\ UNCHANGED <<client, local>> /\ Done(c) /\ server[c].pc = "rm"
      /\ inode' = Kept(c, inode, NoInode)
  BY DEF RemoveFile
<1>2. server'[c].pc = "request"
  BY <1>1, WasDone
<1>3. client[c].pc \in {"reply", "gone"}
  BY <1>1, SoundBefore, WhereIs DEF Gone
<1>4. Files'
  BY <1>1, SoundBefore, KeptInPlace DEF Sound, Files
<1> QED BY <1>1, <1>2, <1>3, <1>4, ChildOn

\* The error of get is not read as data; of a file that is open nothing is sent yet.
LEMMA GetOpenSound ==
    ASSUME IInv, DataInv, NEW c \in Clients, Keeps(c), Clean', GetOpen(c)
    PROVE  Sound(c)'
<1>1. UNCHANGED <<client, toServer, local, inode, name>> /\ server[c].pc = "get.open"
  BY DEF GetOpen
<1>2. Sound(c) /\ Files' /\ InPlace(local[c].text)'
  BY <1>1, SoundBefore, FilesStay
<1>3. CASE Reply(c, ErrorLines) /\ Done(c)
  <2>1. Reply(c, ErrorLines) /\ Done(c)
    BY <1>3
  <2>2. server'[c].pc = "request"
    BY <2>1, WasDone
  <2>3. CASE Gone(c)
    BY <1>1, <1>2, <2>2, <2>3, Elsewhere DEF Sound, UpSound, DownSound, UpPlaced, Gone
  <2>4. CASE ~Gone(c)
    <3>1. client[c].pc = "get.reply" /\ Len(toClient[c]) = 0 /\ toClient[c] \in Streams
      BY <1>1, <2>4, SoundBefore, WhereIs, Upright
    <3>2. toClient'[c] = ErrorLines
      BY <2>1, <2>4, <3>1, ErrorLinesAre, Replied, Beginning
    <3>3. toClient'[c][1] # Text("found")
      BY <3>2, ErrorLinesAre DEF Text
    <3>4. UpSound(c)' /\ DownSound(c)'
      BY <1>1, <2>2, <3>1, <3>3 DEF UpSound, DownSound, UpPlaced, DownPlaced
    <3> QED BY <1>2, <3>4 DEF Sound
  <2> QED BY <2>3, <2>4
<1>4. CASE /\ name # NoInode
           /\ server' = [server EXCEPT ![c] = [Idle EXCEPT !.pc = "get.stat", !.inode = name]]
           /\ UNCHANGED toClient
  <2>1. /\ server' = [server EXCEPT ![c] = [Idle EXCEPT !.pc = "get.stat", !.inode = name]]
        /\ toClient' = toClient
    BY <1>4
  <2>2. server'[c].pc = "get.stat" /\ server'[c].pos = 0
    <3>1. name \in Inodes
      BY <1>4 DEF IInv, Types
    <3> QED BY <2>1, <3>1, HasOpened DEF ServerPcs
  <2>3. UpSound(c)'
    BY <2>2 DEF UpSound, UpPlaced
  <2>4. DownSound(c)'
    BY <1>1, <1>2, <2>1, <2>2, DownStays DEF Sound
  <2> QED BY <1>2, <2>3, <2>4 DEF Sound
<1> QED BY <1>3, <1>4 DEF GetOpen, ErrorLines

\* The length goes ahead of the first unit of the file.
LEMMA GetStatSound ==
    ASSUME IInv, DataInv, NEW c \in Clients, Keeps(c), Clean', GetStat(c)
    PROVE  Sound(c)'
<1>1. UNCHANGED <<client, toServer, local, inode, name>> /\ server[c].pc = "get.stat"
  BY DEF GetStat
<1>2. Sound(c) /\ Files' /\ InPlace(local[c].text)'
  BY <1>1, SoundBefore, FilesStay
<1>3. name # NoInode
  <2>1. SUFFICES ASSUME name = NoInode PROVE FALSE
    OBVIOUS
  <2>2. lapses' = [lapses EXCEPT ![c] = @ \cup {"size"}]
    BY <2>1 DEF GetStat
  <2>3. lapses'[c] # {}
    BY <2>2, Lapsed DEF Lapses
  <2> QED BY <2>3, SoundBefore
<1> DEFINE size == Len(inode[name])
           s == Line("found") \o <<Long(size)>>
<1>4. /\ server' = [server EXCEPT ![c].pc = "get.data", ![c].length = size]
      /\ Reply(c, s)
  BY <1>3 DEF GetStat
<1>5. size \in 0 .. MaxSize
  BY <1>3, Constants DEF IInv, Types, Room, Streams
<1> HIDE DEF size
<1>6. s \in Streams /\ Len(s) = LINEMAX + 1
  <2>1. <<Long(size)>> \in Streams /\ Len(<<Long(size)>>) = 1
    BY <1>5, UnitTypes DEF Streams
  <2>2. "found" \in Requests \cup Careless \cup Replies
    BY DEF Replies
  <2> QED BY <2>1, <2>2, LineAnd
<1> HIDE DEF s
<1>7. server'[c].pc = "get.data" /\ server'[c].pos = 0
  <2>1. server[c].pos = 0
    BY <1>1, <1>2 DEF Sound, UpSound, UpPlaced
  <2>2. server \in [Clients -> ServerStates]
    BY DEF IInv, Types
  <2> QED BY <1>4, <2>1, <2>2 DEF ServerStates
<1>8. UpSound(c)'
  BY <1>7 DEF UpSound, UpPlaced
<1>9. DownSound(c)'
  <2>1. CASE Gone(c)
    BY <1>1, <2>1 DEF DownSound, Gone
  <2>2. CASE ~Gone(c)
    <3> DEFINE dn == toClient'[c]
    <3>1. client[c].pc = "get.reply" /\ Len(toClient[c]) = 0 /\ toClient[c] \in Streams
      BY <1>1, <2>2, SoundBefore, WhereIs, Upright
    <3>2. dn = s
      BY <1>4, <1>6, <2>2, <3>1, Replied, Beginning
    <3> HIDE DEF dn
    <3>3. Placed(dn, LINEMAX + 1, dn[LINEMAX + 1].val, 0)
      BY <1>6, <3>2, Constants DEF Placed, Streams
    <3>4. DownPlaced("get.reply", client[c].length, client[c].pos, "get.data", 0, dn)
      BY <1>6, <3>2, <3>3, Constants DEF DownPlaced
    <3> QED BY <1>1, <1>7, <3>1, <3>4 DEF DownSound, dn
  <2> QED BY <2>1, <2>2
<1> QED BY <1>2, <1>8, <1>9 DEF Sound

\* What the child reads of its file.
LEMMA FromFilePlaced ==
    ASSUME IInv, NEW c \in Clients, server[c].pc = "get.data", Files
    PROVE  Placed(FromFile(c), 0, Len(FromFile(c)), server[c].pos)
<1> DEFINE s == inode[server[c].inode]
           a == server[c].pos
           b == Least(Len(s), a + LINEMAX)
<1>1. server[c].inode \in Inodes
  BY DEF IInv, Places, ServerPlace
<1>2. s \in Streams /\ Len(s) \in Nat /\ a \in Nat /\ InPlace(s)
  BY <1>1, Upright, Constants DEF IInv, Types, Streams, Files
<1>3. FromFile(c) = SubSeq(s, a + 1, b)
  BY DEF FromFile
<1> HIDE DEF s, a
<1>4. b \in Nat /\ b <= Len(s)
  BY <1>2, Constants DEF Least
<1> HIDE DEF b
<1> QED BY <1>2, <1>3, <1>4, PlacedPart DEF a

\* The child sends more of its file, or the rest of it.
LEMMA ChildSends ==
    ASSUME IInv, DataInv, NEW c \in Clients, Keeps(c), Clean', server[c].pc = "get.data",
           UNCHANGED client, NEW s \in Streams, Reply(c, s),
           Placed(s, 0, server[c].length, server[c].pos),
           server'[c].pc = "get.data" => server'[c].pos = server[c].pos + Len(s)
    PROVE  DownSound(c)'
<1>1. CASE Gone(c)
  BY <1>1 DEF DownSound, Gone
<1>2. CASE ~Gone(c)
  <2>1. toClient'[c] = toClient[c] \o s
    BY <1>2, Replied
  <2>2. /\ client[c].pc # "gone"
        /\ BothSides(client[c].pc, client[c].skip, client[c].length,
                     "get.data", server[c].length, toServer[c], toClient[c])
    BY <1>2, SoundBefore, Upright
  <2>3. DownPlaced(client[c].pc, client[c].length, client[c].pos,
                   "get.data", server[c].pos, toClient[c])
    BY <1>2, SoundBefore DEF Sound, DownSound
  <2> DEFINE where == client[c].pc
             skip == client[c].skip
             n == client[c].length
             received == client[c].pos
             left == server[c].length
             pos == server[c].pos
             up == toServer[c]
             dn == toClient[c]
             pc2 == server'[c].pc
             pos2 == server'[c].pos
  <2>4. /\ where \in ClientPcs /\ where # "gone" /\ skip \in 0 .. 3 /\ n \in 0 .. MaxSize
        /\ left \in 0 .. MaxSize /\ up \in Streams /\ dn \in Streams
        /\ received \in Nat /\ pos \in Nat
    BY <2>2, Upright, Constants
  <2> HIDE DEF where, skip, n, received, left, pos, up, dn, pc2, pos2
  <2>5. DownPlaced(where, n, received, pc2, pos2, dn \o s)
    <3>1. BothSides(where, skip, n, "get.data", left, up, dn)
      BY <2>2 DEF where, skip, n, left, up, dn
    <3>2. DownPlaced(where, n, received, "get.data", pos, dn) /\ Placed(s, 0, left, pos)
      BY <2>3 DEF where, n, received, pos, dn, left
    <3>3. pc2 = "get.data" => pos2 = pos + Len(s)
      BY DEF pc2, pos2, pos
    <3> QED BY <2>4, <3>1, <3>2, <3>3, DownMore
  <2> QED BY <2>1, <2>5 DEF DownSound, where, n, received, pc2, pos2, dn
<1> QED BY <1>1, <1>2

\* A whole line of the file, as a file shorter than stat said is a lapse.
LEMMA GetChunkSound ==
    ASSUME IInv, DataInv, NEW c \in Clients, Keeps(c), Clean', GetChunk(c)
    PROVE  Sound(c)'
<1> DEFINE s == FromFile(c)
           left == server[c].length
           pos == server[c].pos
<1>1. /\ UNCHANGED <<client, toServer, local, inode, name>> /\ server[c].pc = "get.data"
      /\ left > LINEMAX /\ Reply(c, Filled(s)) /\ SizeLapse(c, Len(s) < LINEMAX)
      /\ server' = [server EXCEPT ![c].length = @ - Len(s), ![c].pos = @ + Len(s)]
  BY DEF GetChunk
<1>2. Sound(c) /\ Files' /\ InPlace(local[c].text)'
  BY <1>1, SoundBefore, FilesStay
<1>3. /\ s \in Streams /\ Len(s) \in 0 .. LINEMAX /\ Placed(s, 0, Len(s), pos)
      /\ left \in Nat /\ pos \in Nat /\ LINEMAX \in Nat
  BY <1>1, <1>2, FromFileIs, FromFilePlaced, Upright, Constants DEF Sound
<1> HIDE DEF s
<1>4. Len(s) = LINEMAX
  <2> DEFINE short == Len(s) < LINEMAX
  <2>1. short \in BOOLEAN /\ SizeLapse(c, short)
    BY <1>1
  <2> HIDE DEF short
  <2>2. ~short
    BY <2>1, SizeLapsed, SoundBefore
  <2> QED BY <1>3, <2>2 DEF short
<1>5. server'[c].pc = "get.data" /\ server'[c].pos = pos + Len(s)
  <2>1. server \in [Clients -> ServerStates]
    BY DEF IInv, Types
  <2> QED BY <1>1, <2>1 DEF ServerStates
<1> HIDE DEF left, pos
<1>6. Filled(s) = s
  BY <1>3, <1>4, FilledWhole
<1>7. Placed(s, 0, left, pos)
  BY <1>3, PlacedAll
<1>8. DownSound(c)'
  BY <1>1, <1>3, <1>5, <1>6, <1>7, ChildSends DEF left, pos
<1>9. UpSound(c)'
  BY <1>5 DEF UpSound, UpPlaced
<1> QED BY <1>2, <1>8, <1>9 DEF Sound

\* The rest of the file and the terminator, which the client does not take for data.
LEMMA GetLastSound ==
    ASSUME IInv, DataInv, NEW c \in Clients, Keeps(c), Clean', GetLast(c)
    PROVE  Sound(c)'
<1> DEFINE f == FromFile(c)
           s == f \o Terminator
           left == server[c].length
           pos == server[c].pos
<1>1. /\ UNCHANGED <<client, toServer, local, name>> /\ server[c].pc = "get.data"
      /\ Reply(c, s) /\ SizeLapse(c, Len(f) # left)
      /\ Done(c) /\ inode' = Kept(c, inode, name)
  BY DEF GetLast
<1>2. Sound(c) /\ InPlace(local[c].text)'
  BY <1>1, SoundBefore, FilesStay
<1>3. Files'
  BY <1>1, <1>2, KeptInPlace DEF Sound, Files
<1>4. /\ f \in Streams /\ Placed(f, 0, Len(f), pos) /\ Terminator \in Streams
      /\ left \in Nat /\ pos \in Nat
  BY <1>1, <1>2, FromFileIs, FromFilePlaced, TerminatorIs, Upright, Constants DEF Sound
<1> HIDE DEF f
<1>5. Len(f) = left
  BY <1>1, SizeLapsed, SoundBefore
<1>6. server'[c].pc = "request"
  BY <1>1, WasDone
<1> HIDE DEF left, pos
<1>7. s \in Streams /\ Placed(s, 0, left, pos)
  <2>1. s \in Streams /\ Len(f) \in Nat
    BY <1>4, Joined
  <2>2. Placed(Terminator, 0, 0, pos + (Len(f) - 0))
    BY DEF Placed
  <2> QED BY <1>4, <1>5, <2>1, <2>2, PlacedMore
<1> HIDE DEF s
<1>8. DownSound(c)'
  BY <1>1, <1>6, <1>7, ChildSends DEF left, pos
<1>9. UpSound(c)'
  BY <1>6 DEF UpSound, UpPlaced
<1> QED BY <1>2, <1>3, <1>8, <1>9 DEF Sound

\* Nothing is on its way to the child before put has opened its file.
LEMMA PutCheckSound ==
    ASSUME IInv, DataInv, NEW c \in Clients, Keeps(c), Clean', PutCheck(c)
    PROVE  Sound(c)'
<1>1. UNCHANGED <<client, local, inode>> /\ server[c].pc = "put.check"
  BY DEF PutCheck
<1>2. Goto(c, "put.open") \/ Done(c)
  BY DEF PutCheck
<1>3. server'[c].pc \in {"put.open", "request"}
  BY <1>2, WentTo, WasDone DEF ServerPcs
<1>4. client[c].pc \in {"put.reply", "gone"}
  BY <1>1, SoundBefore, WhereIs DEF Gone
<1> QED BY <1>1, <1>3, <1>4, SoundBefore, FilesStay, ChildOn

\* Neither is it a file when open fails.
LEMMA PutRefuseSound ==
    ASSUME IInv, DataInv, NEW c \in Clients, Keeps(c), Clean', PutRefuse(c)
    PROVE  Sound(c)'
<1>1. UNCHANGED <<client, local, inode>> /\ server[c].pc = "put.open" /\ Done(c)
  BY DEF PutRefuse
<1>2. server'[c].pc = "request"
  BY <1>1, WasDone
<1>3. client[c].pc \in {"put.reply", "gone"}
  BY <1>1, SoundBefore, WhereIs DEF Gone
<1> QED BY <1>1, <1>2, <1>3, SoundBefore, FilesStay, ChildOn

\* A step of put by the child: the client does not wait for a file.
LEMMA ChildPuts ==
    ASSUME IInv, DataInv, NEW c \in Clients, Keeps(c), Clean', UNCHANGED <<client, local>>,
           server[c].pc \in {"put.open", "put.ready", "put.length", "put.data"}, Files',
           UpSound(c)'
    PROVE  Sound(c)'
<1>1. client[c].pc \in {"skip", "put.reply", "put.data", "gone"}
  BY SoundBefore, WhereIs DEF Gone
<1>2. DownSound(c)'
  BY <1>1 DEF DownSound, DownPlaced
<1> QED BY <1>2, SoundBefore DEF Sound

\* A new file holds nothing, and one that another child has made holds data.
LEMMA PutOpenSound ==
    ASSUME IInv, DataInv, NEW c \in Clients, Keeps(c), Clean', PutOpen(c)
    PROVE  Sound(c)'
<1> DEFINE new == CHOOSE i \in Inodes \ InUse : TRUE
           i == IF name = NoInode THEN new ELSE name
<1>1. /\ UNCHANGED <<client, toServer, local, lapses>> /\ server[c].pc = "put.open"
      /\ server' = [server EXCEPT ![c] = [Idle EXCEPT !.pc = "put.ready", !.inode = i]]
      /\ inode' = IF name = NoInode THEN [inode EXCEPT ![new] = <<>>] ELSE inode
  BY DEF PutOpen
<1>2. name = NoInode => new \in Inodes
  BY FreeInode
<1> HIDE DEF new
<1>3. i \in Inodes
  BY <1>2 DEF IInv, Types
<1>4. Files'
  <2>1. InPlace(<<>>)
    BY DEF InPlace
  <2>2. Files /\ inode \in [Inodes -> Streams]
    BY SoundBefore DEF Sound, IInv, Types
  <2> QED BY <1>1, <2>1, <2>2 DEF Files
<1> HIDE DEF i
<1>5. server'[c].pc = "put.ready"
  BY <1>1, <1>3, HasOpened DEF ServerPcs
<1>6. /\ Len(toServer[c]) = 0 /\ toServer[c] \in Streams /\ client[c].pc # "put.data"
  BY <1>1, SoundBefore, Upright, WhereIs DEF ServerSide, Gone
<1>7. UpSound(c)'
  BY <1>1, <1>5, <1>6 DEF UpSound, UpPlaced, Placed
<1> QED BY <1>1, <1>4, <1>7, ChildPuts

\* The line "ready" is read as a whole.
LEMMA PutReadySound ==
    ASSUME IInv, DataInv, NEW c \in Clients, Keeps(c), Clean', PutReady(c)
    PROVE  Sound(c)'
<1> DEFINE up == toServer[c]
           up2 == toServer'[c]
<1>0. /\ UNCHANGED <<client, toClient, local, inode, name>> /\ server[c].pc = "put.ready"
      /\ Goto(c, "put.length") /\ LINEMAX \in Nat /\ LINEMAX > 1
  BY Constants DEF PutReady
<1>1. PICK n \in 0 .. LINEMAX :
        /\ ServerRead(c, LINEMAX, n)
        /\ lapses' = [lapses EXCEPT ![c] = @ \cup Cut(up, LINEMAX, n)]
  BY DEF PutReady
<1>2. /\ up2 = Without(up, n) /\ n \in 0 .. Len(up)
      /\ n = 0 => LINEMAX = 0 \/ AtEnd(c)
      /\ n # 0 => n \in Amounts(c, up, LINEMAX)
  <2>1. ServerRead(c, LINEMAX, n)
    BY <1>1
  <2> QED BY <1>0, <2>1, ServerHasRead
<1>3. Cut(up, LINEMAX, n) = {} /\ lapses[c] = {}
  BY <1>1, CutLapsed, SoundBefore
<1>4. server'[c].pc = "put.length"
  BY <1>0, WentTo DEF ServerPcs
<1>5. up \in Streams /\ Len(up) \in Nat
  BY Upright
<1>6. /\ Placed(up, LINEMAX + 1, Len(up), 0)
      /\ client[c].pc = "put.data" => Len(up) = LINEMAX + 1 + client[c].pos
  BY <1>0, SoundBefore DEF Sound, UpSound, UpPlaced
<1>7. n = 0 => up = <<>> /\ client[c].pc = "gone"
  BY <1>0, <1>2 DEF AtEnd, Gone
<1>8. Len(up) # 0 => Len(up) > LINEMAX
  <2> SUFFICES ASSUME Len(up) # 0 PROVE Len(up) > LINEMAX
    OBVIOUS
  <2>1. PICK m \in 0 .. MaxSize : Putting("put.ready", server[c].length, up, m)
    BY <1>0, <1>3, Upright DEF ServerSide
  <2> QED BY <2>1 DEF Putting, Ahead
<1> DEFINE where == client[c].pc
           sent == client[c].pos
<1>9. sent \in Nat
  BY Upright, Constants
<1> HIDE DEF up, up2, where, sent
<1>10. n # 0 => n = LINEMAX
  <2>1. n # 0 => n = Least(LINEMAX, Len(up)) /\ Len(up) # 0
    BY <1>0, <1>2, <1>3, <1>5, ReadAll
  <2> QED BY <1>0, <1>5, <1>8, <2>1 DEF Least
<1>11. Placed(up2, 1, Len(up2), 0) /\ (where = "put.data" => Len(up2) = 1 + sent)
  <2>1. CASE n = 0
    <3>1. Len(up2) = 0 /\ up2 \in Streams
      BY <1>2, <1>5, <1>7, <2>1, Taken
    <3> QED BY <1>7, <2>1, <3>1 DEF Placed, where
  <2>2. CASE n # 0
    <3>1. Placed(up2, (LINEMAX + 1) - n, Len(up2), 0) /\ Len(up2) = Len(up) - n
      BY <1>0, <1>2, <1>5, <1>6, <1>10, <2>2, UpRead, Taken
    <3>2. (LINEMAX + 1) - n = 1
      BY <1>0, <1>10, <2>2
    <3>3. where = "put.data" => Len(up) = LINEMAX + 1 + sent
      BY <1>6 DEF where, sent, up
    <3> QED BY <1>0, <1>5, <1>9, <1>10, <2>2, <3>1, <3>2, <3>3
  <2> QED BY <2>1, <2>2
<1>12. UpSound(c)'
  BY <1>0, <1>4, <1>11 DEF UpSound, UpPlaced, up2, where, sent
<1> QED BY <1>0, <1>12, SoundBefore, FilesStay, ChildPuts

\* Behind the length is the beginning of the file.
LEMMA PutLengthSound ==
    ASSUME IInv, DataInv, NEW c \in Clients, Keeps(c), Clean', PutLength(c)
    PROVE  Sound(c)'
<1> DEFINE up == toServer[c]
           up2 == toServer'[c]
           u == Head(up)
           where == client[c].pc
           sent == client[c].pos
<1>0. /\ UNCHANGED <<client, toClient, local, inode, name>> /\ server[c].pc = "put.length"
  BY DEF PutLength
<1>1. PICK n \in 0 .. 1 :
        /\ ServerRead(c, 1, n)
        /\ IF n = 0 THEN Goto(c, "put.data")
           ELSE IF u.kind = "long"
                THEN server' = [server EXCEPT ![c].pc = "put.data", ![c].length = u.val]
                ELSE Goto(c, "garbled")
  BY Zenon DEF PutLength
<1>2. /\ up2 = Without(up, n) /\ n \in 0 .. Len(up)
      /\ n = 0 => 1 = 0 \/ AtEnd(c)
  BY <1>1, ServerHasRead
<1>3. /\ up \in Streams /\ Len(up) \in Nat /\ server \in [Clients -> ServerStates] /\ sent \in Nat
  BY Upright, Constants DEF IInv, Types
<1>4. /\ Placed(up, 1, Len(up), 0) /\ (where = "put.data" => Len(up) = 1 + sent)
  BY <1>0, SoundBefore DEF Sound, UpSound, UpPlaced
<1>5. server[c].length = 0 /\ server[c].pos = 0
  BY <1>0 DEF IInv, Places, ServerPlace
<1>6. CASE n = 0
  <2>1. up = <<>> /\ where = "gone"
    BY <1>2, <1>6 DEF AtEnd, Gone
  <2>2. Len(up2) = 0
    BY <1>2, <1>3, <1>6, <2>1, Taken
  <2>3. server'[c].pc = "put.data" /\ server'[c].length = 0 /\ server'[c].pos = 0
    BY <1>1, <1>5, <1>6, WentTo DEF ServerPcs
  <2>4. Placed(up2, 0, Len(up2), 0)
    BY <2>2 DEF Placed
  <2>5. UpSound(c)'
    BY <1>0, <2>1, <2>3, <2>4, Constants DEF UpSound, UpPlaced
  <2> QED BY <1>0, <2>5, SoundBefore, FilesStay, ChildPuts
<1>7. CASE n # 0
  <2>1. n = 1 /\ u = up[1] /\ Len(up) # 0
    BY <1>2, <1>3, <1>7 DEF Streams
  <2>2. PICK m \in 0 .. MaxSize : Putting("put.length", 0, up, m)
    BY <1>0, <1>5, <2>1, SoundBefore, Upright DEF ServerSide
  <2>3. u.kind = "long"
    <3>1. m \in Nat
      BY Constants
    <3> HIDE DEF u, up
    <3>2. up[1].kind = "long"
      BY <1>3, <2>2, <3>1, PuttingLength
    <3> QED BY <2>1, <3>2
  <2>4. u.val \in 0 .. MaxSize
    <3>1. u \in Units
      BY <1>3, <2>1 DEF Streams
    <3> QED BY <2>3, <3>1, LongUnits
  <2> DEFINE size == u.val
  <2>5. server' = [server EXCEPT ![c].pc = "put.data", ![c].length = size]
    BY <1>1, <1>7, <2>3
  <2> HIDE DEF size, u
  <2>6. server'[c].pc = "put.data" /\ server'[c].length = size /\ server'[c].pos = 0
    BY <1>3, <1>5, <2>4, <2>5 DEF ServerStates
  <2> HIDE DEF up, up2, where, sent
  <2>7. Placed(up2, 0, Len(up2), 0) /\ Len(up2) = Len(up) - 1
    <3>1. Len(up2) = Len(up) - n
      BY <1>2, <1>3, Taken
    <3>2. n <= 1 /\ 1 - n = 0
      BY <2>1
    <3>3. Placed(up2, 1 - n, Len(up2), 0)
      BY <1>2, <1>3, <1>4, <3>2, UpRead
    <3> QED BY <2>1, <3>1, <3>2, <3>3
  <2>8. 0 + size <= MaxSize /\ (where = "put.data" => sent = 0 + Len(up2))
    BY <1>3, <1>4, <2>4, <2>7, Constants DEF size
  <2>9. UpPlaced(where, sent, "put.data", size, 0, up2)
    BY <2>7, <2>8 DEF UpPlaced
  <2>10. UpSound(c)'
    BY <1>0, <2>6, <2>9 DEF UpSound, up2, where, sent
  <2> QED BY <1>0, <2>10, SoundBefore, FilesStay, ChildPuts
<1> QED BY <1>6, <1>7

\* The child writes data at its place.
LEMMA SavedInPlace ==
    ASSUME IInv, NEW c \in Clients, server[c].pc = "put.data", Files, NEW u \in Streams,
           Placed(u, 0, Len(u), server[c].pos)
    PROVE  \A i \in Inodes : InPlace(Saved(c, u)[i])
<1> DEFINE i == server[c].inode
           s == inode[i]
           pos == server[c].pos
           x == Stored(s, pos, u)
<1>1. i \in Inodes /\ inode \in [Inodes -> Streams]
  BY DEF IInv, Types, Places, ServerPlace
<1>2. s \in Streams /\ InPlace(s) /\ pos \in 0 .. Len(s)
  <2>1. pos <= Len(s) /\ pos \in Nat
    BY Upright, Constants DEF IInv, Places, ServerPlace
  <2> QED BY <1>1, <2>1 DEF Streams, Files
<1>3. Saved(c, u) = [inode EXCEPT ![i] = x]
  BY DEF Saved
<1>4. InPlace(x)
  BY <1>2, PlacedStored
<1> HIDE DEF x, i
<1> QED BY <1>1, <1>3, <1>4 DEF Files

\* The child takes a whole line of data and writes it where it belongs.
LEMMA PutChunkSound ==
    ASSUME IInv, DataInv, NEW c \in Clients, Keeps(c), Clean', PutChunk(c)
    PROVE  Sound(c)'
<1> DEFINE up == toServer[c]
           up2 == toServer'[c]
           left == server[c].length
           pos == server[c].pos
           where == client[c].pc
           sent == client[c].pos
<1>0. /\ UNCHANGED <<client, toClient, local, name>> /\ server[c].pc = "put.data"
      /\ left > LINEMAX /\ LINEMAX \in Nat /\ LINEMAX > 1 /\ left \in Nat /\ pos \in Nat
      /\ MaxSize \in Nat /\ sent \in Nat
  BY Upright, Constants DEF PutChunk
<1>1. PICK n \in 0 .. LINEMAX :
        /\ ServerRead(c, LINEMAX, n)
        /\ inode' = Saved(c, Filled(SubSeq(up, 1, n)))
        /\ server' = [server EXCEPT ![c].length = @ - n,
                                    ![c].pos = Advanced(@, Filled(SubSeq(up, 1, n)))]
        /\ lapses' = [lapses EXCEPT ![c] = @ \cup
                        IF n = 0 THEN {"eof"} ELSE Cut(up, LINEMAX, n)]
  BY Zenon DEF PutChunk
<1>2. /\ up2 = Without(up, n) /\ n \in 0 .. Len(up)
      /\ n # 0 => n \in Amounts(c, up, LINEMAX)
  BY <1>0, <1>1, ServerHasRead
<1>3. up \in Streams /\ Len(up) \in Nat /\ server \in [Clients -> ServerStates]
  BY Upright DEF IInv, Types
<1>4. /\ Placed(up, 0, Len(up), pos) /\ pos + left <= MaxSize
      /\ where = "put.data" => sent = pos + Len(up)
  BY <1>0, SoundBefore DEF Sound, UpSound, UpPlaced
<1>5. n # 0 /\ Cut(up, LINEMAX, n) = {}
  <2> DEFINE X == IF n = 0 THEN {"eof"} ELSE Cut(up, LINEMAX, n)
  <2>1. X \in SUBSET Lapses /\ (X = {} => n # 0 /\ Cut(up, LINEMAX, n) = {})
    BY DEF Cut, Lapses
  <2>2. lapses' = [lapses EXCEPT ![c] = @ \cup X]
    BY <1>1, Zenon
  <2> HIDE DEF X
  <2> QED BY <2>1, <2>2, Lapsed, SoundBefore
<1>6. PICK m \in 0 .. MaxSize : Putting("put.data", left, up, m)
  BY <1>0, SoundBefore, Upright DEF ServerSide
<1> HIDE DEF up, up2, left, pos, where, sent
<1>7. n = LINEMAX
  <2>1. n = Least(LINEMAX, Len(up)) /\ Len(up) # 0
    BY <1>0, <1>2, <1>3, <1>5, ReadAll
  <2>2. Len(up) >= LINEMAX
    BY <1>0, <1>3, <1>6, <2>1, PuttingData
  <2> QED BY <1>0, <1>3, <2>1, <2>2 DEF Least
<1> DEFINE u == SubSeq(up, 1, n)
<1>8. u \in Streams /\ Len(u) = n /\ Filled(u) = u
  BY <1>2, <1>3, <1>7, FrontIs, FilledWhole
<1>9. /\ Placed(up2, 0, Len(up) - n, pos + n) /\ Placed(u, 0, n, pos) /\ Len(up2) = Len(up) - n
  BY <1>0, <1>2, <1>3, <1>4, PlacedTaken, Taken
<1> HIDE DEF u
<1>10. Advanced(pos, u) = pos + n
  BY <1>0, <1>3, <1>4, <1>7, <1>8 DEF Advanced, Fits
<1>11. /\ inode' = Saved(c, u)
       /\ server' = [server EXCEPT ![c].length = @ - n, ![c].pos = Advanced(@, u)]
  BY <1>1, <1>8 DEF u
<1>12. server'[c].pc = "put.data" /\ server'[c].length = left - n /\ server'[c].pos = pos + n
  BY <1>0, <1>3, <1>10, <1>11 DEF ServerStates, left, pos
<1>13. Files'
  BY <1>0, <1>8, <1>9, <1>11, SoundBefore, SavedInPlace DEF Sound, Files, pos
<1>14. /\ (pos + n) + (left - n) <= MaxSize
       /\ where = "put.data" => sent = (pos + n) + Len(up2)
  BY <1>0, <1>3, <1>4, <1>7, <1>9
<1>15. UpPlaced(where, sent, "put.data", left - n, pos + n, up2)
  BY <1>9, <1>14 DEF UpPlaced
<1>16. UpSound(c)'
  BY <1>0, <1>12, <1>15 DEF UpSound, up2, where, sent
<1> QED BY <1>0, <1>13, <1>16, ChildPuts

\* The child writes what is left of the file, and no more than that.
LEMMA PutLastSound ==
    ASSUME IInv, DataInv, NEW c \in Clients, Keeps(c), Clean', PutLast(c)
    PROVE  Sound(c)'
<1> DEFINE up == toServer[c]
           left == server[c].length
           pos == server[c].pos
<1>0. /\ UNCHANGED <<client, local, name>> /\ server[c].pc = "put.data" /\ Done(c)
      /\ left \in Nat /\ pos \in Nat
  BY Upright, Constants DEF PutLast
<1>1. PICK n \in 0 .. left :
        /\ ServerRead(c, left, n)
        /\ inode' = Kept(c, Saved(c, SubSeq(up, 1, n)), name)
  BY Zenon DEF PutLast
<1>2. n \in 0 .. Len(up)
  BY <1>0, <1>1, ServerHasRead
<1>3. up \in Streams /\ Len(up) \in Nat /\ Placed(up, 0, Len(up), pos)
  BY <1>0, SoundBefore, Upright DEF Sound, UpSound, UpPlaced
<1> HIDE DEF up, left
<1> DEFINE u == SubSeq(up, 1, n)
<1>4. u \in Streams /\ Placed(u, 0, Len(u), pos)
  <2>1. u \in Streams /\ Len(u) = n
    BY <1>2, <1>3, FrontIs
  <2>2. Placed(u, 0, n, pos)
    BY <1>0, <1>2, <1>3, PlacedTaken
  <2> QED BY <2>1, <2>2
<1> HIDE DEF u
<1>5. inode' = Kept(c, Saved(c, u), name)
  BY <1>1 DEF u
<1>6. Files'
  <2>1. \A i \in Inodes : InPlace(Saved(c, u)[i])
    BY <1>0, <1>4, SoundBefore, SavedInPlace DEF Sound
  <2> QED BY <1>5, <2>1, KeptInPlace
<1>7. server'[c].pc = "request"
  BY <1>0, WasDone
<1>8. UpSound(c)'
  BY <1>7 DEF UpSound, UpPlaced
<1> QED BY <1>0, <1>6, <1>8, ChildPuts

\* A read that returns -1 brings nothing.
LEMMA ReadResetSound ==
    ASSUME IInv, DataInv, NEW c \in Clients, Keeps(c), Clean', ReadReset(c)
    PROVE  Sound(c)'
<1>1. UNCHANGED <<client, toClient, local, inode>> /\ Goto(c, "stale")
  BY DEF ReadReset
<1>2. server'[c].pc = "stale"
  BY <1>1, WentTo DEF ServerPcs
<1> QED BY <1>1, <1>2, SoundBefore, FilesStay, ChildOn

\* A child that is killed writes nothing.
LEMMA KilledSound ==
    ASSUME IInv, DataInv, NEW c \in Clients, Keeps(c), Clean', Killed(c)
    PROVE  Sound(c)'
<1>1. /\ UNCHANGED <<client, toServer, toClient, local, inode, name, lapses>>
      /\ server' = [server EXCEPT ![c] = [Idle EXCEPT !.pc = "gone"]]
  BY DEF Killed
<1>2. server'[c].pc = "gone"
  BY <1>1 DEF Idle, IInv, Types
<1> QED BY <1>1, <1>2, SoundBefore, FilesStay, ChildOn

\* Every step of the child keeps data in its place.
LEMMA ServerStepSound ==
    ASSUME IInv, DataInv, NEW c \in Clients, Keeps(c), Clean', ServerStep(c)
    PROVE  Sound(c)'
BY GetRequestSound, ReadResetSound, ReplyLinesSound, ReplyHeaderSound, ReplyNotFoundSound,
   ReplyNoNameSound, RemoveFileSound,
   GetOpenSound, GetStatSound, GetChunkSound, GetLastSound, PutCheckSound, PutRefuseSound, PutOpenSound,
   PutReadySound, PutLengthSound, PutChunkSound, PutLastSound, KilledSound DEF ServerStep

-------------------------------------------------------------------------------
\* The steps of the client.

\* A step after which the client waits for no file, and sends none.
LEMMA ClientOn ==
    ASSUME IInv, DataInv, NEW c \in Clients, Keeps(c), Clean', UNCHANGED <<server, inode>>,
           InPlace(local[c].text)',
           client'[c].pc \notin {"get.reply", "get.length", "get.data", "put.data"},
           \/ toServer' = toServer
           \/ server[c].pc = "request"
    PROVE  Sound(c)'
<1>1. Sound(c) /\ Files'
  BY SoundBefore, FilesStay
<1>2. UpSound(c)'
  <2>1. CASE toServer' = toServer
    BY <1>1, <2>1, UpStays DEF Sound
  <2>2. CASE server[c].pc = "request"
    BY <2>2 DEF UpSound, UpPlaced
  <2> QED BY <2>1, <2>2
<1>3. DownSound(c)'
  BY DEF DownSound, DownPlaced
<1> QED BY <1>1, <1>2, <1>3 DEF Sound

\* An empty file.
LEMMA NoFileInPlace ==
    ASSUME IInv, NEW c \in Clients, local' = [local EXCEPT ![c] = NoFile]
    PROVE  InPlace(local[c].text)'
BY DEF InPlace, NoFile, IInv, Types

\* A request waits for no data yet.
LEMMA RequestSound ==
    ASSUME IInv, DataInv, NEW c \in Clients, Keeps(c), Clean', NEW op \in Requests, Request(c, op)
    PROVE  Sound(c)'
<1>0. /\ UNCHANGED <<server, inode, name>> /\ client[c].pc = "prompt"
      /\ client' = [client EXCEPT ![c] = After(c, op)]
      /\ IF op = "quit" THEN Leave(c) ELSE UNCHANGED <<toClient, local>>
  BY DEF Request
<1>1. Sound(c) /\ Files' /\ ~Gone(c)
  BY <1>0, SoundBefore, FilesStay DEF Gone
<1>2. server[c].pc = "request" /\ Len(toClient[c]) = 0
  <2>1. BothSides("prompt", client[c].skip, client[c].length,
                  server[c].pc, server[c].length, toServer[c], toClient[c])
    BY <1>0, <1>1, SoundBefore, Upright
  <2> QED BY <2>1 DEF BothSides
<1>3. UpSound(c)'
  BY <1>0, <1>2 DEF UpSound, UpPlaced
<1> DEFINE x == After(c, op)
<1>4. /\ x \in ClientStates
      /\ op = "quit" => x.pc = "gone"
      /\ x.pc \in {"gone", "reply", "get.reply", "put.reply", "skip"}
  <2>1. /\ x \in ClientStates
        /\ op = "quit" => x.pc = "gone"
        /\ op \in {"text", "ls", "rm"} => x.pc = "reply" /\ x.skip = 0
        /\ op \in {"get", "cat"} => x.pc = "get.reply" /\ x.skip = 0 /\ x.pos = 0
        /\ op = "put" /\ local[c].has => x.pc = "put.reply" /\ x.skip = 0
        /\ op = "put" /\ ~local[c].has => x.pc = "skip" /\ x.skip = 1
        /\ op = "bad" => x.pc = "skip" /\ x.skip = 2
    BY AfterIs
  <2> HIDE DEF x
  <2> QED BY <2>1 DEF Requests
<1> HIDE DEF x
<1>5. client'[c] = x
  BY <1>0, <1>4, ClientWent DEF x
<1>6. CASE op = "quit"
  <2>1. DownSound(c)'
    BY <1>4, <1>5, <1>6 DEF DownSound, Gone
  <2>2. InPlace(local[c].text)'
    BY <1>0, <1>6, NoFileInPlace DEF Leave
  <2> QED BY <1>1, <1>3, <2>1, <2>2 DEF Sound
<1>7. CASE op # "quit"
  <2>1. toClient' = toClient /\ local' = local
    BY <1>0, <1>7
  <2>2. DownSound(c)'
    BY <1>2, <1>4, <1>5, <2>1 DEF DownSound, DownPlaced, Gone
  <2> QED BY <1>1, <1>3, <2>1, <2>2, FilesStay DEF Sound
<1> QED BY <1>6, <1>7

\* After a request that names no file nothing is said of the data.
LEMMA CarelessSound ==
    ASSUME IInv, DataInv, NEW c \in Clients, Keeps(c), Clean', NEW op \in Careless, Request(c, op)
    PROVE  Sound(c)'
BY CarelessKeeps, SoundBefore

\* The client removes its file.
LEMMA LocalRemoveSound ==
    ASSUME IInv, DataInv, NEW c \in Clients, Keeps(c), Clean', LocalRemove(c)
    PROVE  Sound(c)'
<1>0. /\ UNCHANGED <<client, server, toServer, toClient, inode, name, lapses>>
      /\ client[c].pc = "prompt" /\ local' = [local EXCEPT ![c] = NoFile]
  BY DEF LocalRemove
<1> QED BY <1>0, NoFileInPlace, ClientOn

\* A client that has died reads nothing more.
LEMMA DieSound ==
    ASSUME IInv, DataInv, NEW c \in Clients, Keeps(c), Clean', Die(c)
    PROVE  Sound(c)'
<1>0. /\ UNCHANGED <<server, toServer, inode, name, lapses>>
      /\ local' = [local EXCEPT ![c] = NoFile]
      /\ client' = [client EXCEPT ![c] = [Prompt EXCEPT !.pc = "gone"]]
  BY DEF Die, Leave
<1>1. client'[c].pc = "gone"
  <2> DEFINE x == [Prompt EXCEPT !.pc = "gone"]
  <2>1. x \in ClientStates /\ x.pc = "gone"
    BY AtIs DEF ClientPcs
  <2> HIDE DEF x
  <2>2. client' = [client EXCEPT ![c] = x]
    BY <1>0 DEF x
  <2> QED BY <2>1, <2>2, ClientWent
<1> QED BY <1>0, <1>1, NoFileInPlace, ClientOn

\* The client reads a reply of lines.
LEMMA ReadLinesSound ==
    ASSUME IInv, DataInv, NEW c \in Clients, Keeps(c), Clean', ReadLines(c)
    PROVE  Sound(c)'
<1> DEFINE kind == Head(toClient[c]).kind
           x == CASE kind = "text" -> client[c]
                  [] kind = "nul" -> Prompt
                  [] OTHER -> [Prompt EXCEPT !.pc = "garbled"]
<1>0. /\ UNCHANGED <<server, toServer, local, inode, name>> /\ client[c].pc = "reply"
      /\ client' = [client EXCEPT ![c] = x]
  BY Zenon DEF ReadLines
<1>1. x = client[c] \/ x = Prompt \/ x = [Prompt EXCEPT !.pc = "garbled"]
  OBVIOUS
<1> HIDE DEF x
<1>2. x \in ClientStates /\ x.pc \in {"reply", "prompt", "garbled"}
  <2>1. CASE x = client[c]
    BY <1>0, <2>1 DEF IInv, Types
  <2>2. CASE x = Prompt
    BY <2>2, PromptIs
  <2>3. CASE x = [Prompt EXCEPT !.pc = "garbled"]
    BY <2>3, AtIs DEF ClientPcs
  <2> QED BY <1>1, <2>1, <2>2, <2>3
<1>3. client'[c] = x
  BY <1>0, <1>2, ClientWent
<1> QED BY <1>0, <1>2, <1>3, SoundBefore, FilesStay, ClientOn

\* The client drops a line.
LEMMA SkipLineSound ==
    ASSUME IInv, DataInv, NEW c \in Clients, Keeps(c), Clean', SkipLine(c)
    PROVE  Sound(c)'
<1>0. /\ UNCHANGED <<server, toServer, local, inode, name>> /\ client[c].pc = "skip"
      /\ client' = [client EXCEPT ![c] = Skipping(client[c].skip - 1)]
  BY DEF SkipLine
<1> DEFINE k == client[c].skip - 1
<1>1. k \in 0 .. 3
  <2>1. client[c].skip # 0
    BY <1>0 DEF IInv, Places, ClientPlace
  <2> QED BY <2>1, Upright
<1> HIDE DEF k
<1>2. client'[c].pc \in {"skip", "prompt"}
  BY <1>0, <1>1, SkippingIs, ClientWent DEF k
<1> QED BY <1>0, <1>2, SoundBefore, FilesStay, ClientOn

\* Behind the reply to get come the length and the beginning of the file.
LEMMA ReadGetReplySound ==
    ASSUME IInv, DataInv, NEW c \in Clients, Keeps(c), Clean', ReadGetReply(c)
    PROVE  Sound(c)'
<1> DEFINE dn == toClient[c]
           dn2 == toClient'[c]
           u == Head(dn)
           x == CASE u = Text("Error") -> Skipping(3)
                  [] u # Text("Error") /\ u.kind \in {"text", "nul"} ->
                        [client[c] EXCEPT !.pc = "get.length"]
                  [] OTHER -> [Prompt EXCEPT !.pc = "garbled"]
<1>0. /\ UNCHANGED <<server, toServer, local, inode, name>> /\ client[c].pc = "get.reply"
      /\ LINEMAX \in Nat /\ LINEMAX > 1
  BY Constants DEF ReadGetReply
<1>1. PICK n \in 1 .. LINEMAX :
        /\ ClientRead(c, LINEMAX, n)
        /\ client' = [client EXCEPT ![c] = x]
        /\ lapses' = [lapses EXCEPT ![c] = @ \cup Cut(dn, LINEMAX, n)]
  BY Zenon DEF ReadGetReply
<1>2. /\ dn2 = Without(dn, n) /\ n \in 0 .. Len(dn) /\ n # 0 /\ n \in Amounts(c, dn, LINEMAX)
  BY <1>0, <1>1, ClientHasRead
<1>3. dn \in Streams /\ Len(dn) \in Nat
  BY Upright
<1>4. Cut(dn, LINEMAX, n) = {} /\ lapses[c] = {}
  BY <1>1, CutLapsed, SoundBefore
<1>5. u = dn[1]
  BY <1>2, <1>3 DEF Streams
<1>6. \/ u = Text("Error") /\ x = Skipping(3)
      \/ u # Text("Error") /\ x = [client[c] EXCEPT !.pc = "get.length"]
      \/ x = [Prompt EXCEPT !.pc = "garbled"]
  OBVIOUS
<1> HIDE DEF x, u, dn
<1>7. CASE x = Skipping(3) \/ x = [Prompt EXCEPT !.pc = "garbled"]
  <2>1. x \in ClientStates /\ x.pc \in {"skip", "garbled"}
    <3>1. CASE x = Skipping(3)
      BY <3>1, SkippingIs
    <3>2. CASE x = [Prompt EXCEPT !.pc = "garbled"]
      BY <3>2, AtIs DEF ClientPcs
    <3> QED BY <1>7, <3>1, <3>2
  <2>2. client'[c] = x
    BY <1>1, <2>1, ClientWent
  <2> QED BY <1>0, <2>1, <2>2, SoundBefore, FilesStay, ClientOn
<1>8. CASE u # Text("Error") /\ x = [client[c] EXCEPT !.pc = "get.length"]
  <2>1. x \in ClientStates /\ x.pc = "get.length"
    <3>1. client[c] \in ClientStates
      BY DEF IInv, Types
    <3> QED BY <1>8, <3>1 DEF ClientStates, ClientPcs
  <2>2. client'[c] = x
    BY <1>1, <2>1, ClientWent
  <2>3. UpSound(c)'
    BY <1>0, <2>1, <2>2, SoundBefore, UpStays DEF Sound
  <2> DEFINE pc == server[c].pc
             left == server[c].length
             pos == server[c].pos
  <2>4. dn[1] = Text("found") /\ GettingAhead(pc, left, dn, LINEMAX)
    <3>1. BothSides("get.reply", client[c].skip, client[c].length, pc, left, toServer[c], dn)
      BY <1>0, <1>4, Upright DEF Gone, dn
    <3> QED BY <1>2, <1>3, <1>5, <1>8, <3>1 DEF BothSides, InGetReply
  <2>5. /\ Placed(dn, LINEMAX + 1, dn[LINEMAX + 1].val, 0)
        /\ pc = "get.data" => Len(dn) = LINEMAX + 1 + pos
    <3>1. DownPlaced("get.reply", client[c].length, client[c].pos, pc, pos, dn)
      BY <1>0, SoundBefore DEF Sound, DownSound, Gone, dn
    <3> QED BY <1>2, <1>3, <2>4, <3>1 DEF DownPlaced
  <2> HIDE DEF pc, left, dn2
  <2>6. Len(dn) > LINEMAX /\ dn[LINEMAX + 1].val \in Nat
    <3>1. PICK m \in 0 .. MaxSize : Len(dn) > LINEMAX /\ dn[LINEMAX + 1] = Long(m)
      BY <2>4 DEF GettingAhead
    <3> QED BY <3>1, Kinds, Constants
  <2>7. n = LINEMAX
    <3>1. n = Least(LINEMAX, Len(dn))
      BY <1>0, <1>2, <1>3, <1>4, ReadAll
    <3> QED BY <1>0, <1>3, <2>6, <3>1 DEF Least
  <2> DEFINE m == dn[LINEMAX + 1].val
  <2>8. /\ Len(dn2) = Len(dn) - LINEMAX /\ dn2[1].val = m
    <3>1. /\ Len(dn2) = Len(dn) - LINEMAX
          /\ \A i \in 1 .. Len(dn) - LINEMAX : dn2[i] = dn[LINEMAX + i]
      BY <1>2, <1>3, <2>7, Taken
    <3>2. 1 \in 1 .. Len(dn) - LINEMAX
      BY <1>0, <1>3, <2>6
    <3> QED BY <3>1, <3>2
  <2> HIDE DEF m
  <2>9. Placed(dn2, 1, m, 0)
    <3>1. Placed(dn, LINEMAX + 1, m, 0) /\ m \in Nat
      BY <2>5, <2>6 DEF m
    <3> DEFINE k == LINEMAX + 1
    <3>2. k \in Nat /\ n <= k /\ k - n = 1
      BY <1>0, <2>7
    <3> HIDE DEF k
    <3>3. Placed(dn, k, m, 0)
      BY <3>1 DEF k
    <3>4. Placed(dn2, k - n, m, 0)
      BY <1>2, <1>3, <3>1, <3>2, <3>3, PlacedRead
    <3> QED BY <3>2, <3>4
  <2>10. pc = "get.data" => Len(dn2) = 1 + pos
    <3>1. pos \in Nat
      BY Upright, Constants
    <3> HIDE DEF pos
    <3> QED BY <1>0, <1>3, <2>5, <2>8, <3>1
  <2>11. DownSound(c)'
    BY <1>0, <2>1, <2>2, <2>8, <2>9, <2>10 DEF DownSound, DownPlaced, pc, dn2
  <2> QED BY <1>0, <2>3, <2>11, SoundBefore, FilesStay DEF Sound
<1> QED BY <1>6, <1>7, <1>8

\* Behind the length comes the beginning of the file.
LEMMA ReadLengthSound ==
    ASSUME IInv, DataInv, NEW c \in Clients, Keeps(c), Clean', ReadLength(c)
    PROVE  Sound(c)'
<1> DEFINE dn == toClient[c]
           dn2 == toClient'[c]
           u == Head(dn)
<1>0. /\ UNCHANGED <<server, toServer, inode, name, lapses>> /\ client[c].pc = "get.length"
      /\ ClientRead(c, 1, 1)
      /\ client \in [Clients -> ClientStates]
  BY DEF ReadLength, IInv, Types
<1>1. dn2 = Without(dn, 1) /\ 1 \in 0 .. Len(dn)
  BY <1>0, ClientHasRead
<1>2. dn \in Streams /\ Len(dn) \in Nat /\ Len(dn) > 0 /\ u = dn[1] /\ u \in Units
  BY <1>1, Upright DEF Streams
<1>3. CASE u.kind = "long"
  <2> DEFINE size == u.val
  <2>1. /\ client' = [client EXCEPT ![c].pc = "get.data", ![c].length = size]
        /\ local' = IF client[c].op = "get" THEN [local EXCEPT ![c].has = TRUE] ELSE local
    BY <1>3 DEF ReadLength
  <2>2. size \in 0 .. MaxSize
    BY <1>2, <1>3, LongUnits
  <2>3. size = dn[1].val
    BY <1>2
  <2> HIDE DEF u, size
  <2>4. client[c].pos = 0
    BY <1>0 DEF IInv, Places, ClientPlace
  <2>5. client'[c].pc = "get.data" /\ client'[c].length = size /\ client'[c].pos = 0
    BY <1>0, <2>1, <2>2, <2>4 DEF ClientStates
  <2>6. InPlace(local[c].text)'
    <3>1. local'[c].text = local[c].text
      BY <2>1 DEF IInv, Types
    <3> QED BY <3>1, SoundBefore DEF Sound
  <2>7. UpSound(c)'
    BY <1>0, <2>5, SoundBefore, UpStays DEF Sound
  <2> DEFINE pc == server[c].pc
             pos == server[c].pos
  <2>8. Placed(dn, 1, size, 0) /\ (pc = "get.data" => Len(dn) = 1 + pos)
    BY <1>0, <2>3, SoundBefore DEF Sound, DownSound, DownPlaced, Gone
  <2>9. pos \in Nat
    BY Upright, Constants
  <2> HIDE DEF dn, dn2, pc, pos
  <2>10. Placed(dn2, 0, size, 0) /\ Len(dn2) = Len(dn) - 1
    <3>1. size \in Nat /\ 1 <= 1 /\ 1 - 1 = 0
      BY <2>2, Constants
    <3>2. Placed(dn2, 1 - 1, size, 0)
      BY <1>1, <1>2, <2>8, <3>1, PlacedRead
    <3>3. Len(dn2) = Len(dn) - 1
      BY <1>1, <1>2, Taken
    <3> QED BY <3>1, <3>2, <3>3
  <2>11. 0 + size <= MaxSize /\ (pc = "get.data" => pos = 0 + Len(dn2))
    BY <1>2, <2>2, <2>8, <2>9, <2>10, Constants
  <2>12. DownPlaced("get.data", size, 0, pc, pos, dn2)
    BY <2>10, <2>11 DEF DownPlaced
  <2>13. DownSound(c)'
    BY <1>0, <2>5, <2>12 DEF DownSound, dn2, pc, pos
  <2> QED BY <1>0, <2>6, <2>7, <2>13, SoundBefore, FilesStay DEF Sound
<1>4. CASE u.kind # "long"
  <2> DEFINE y == [Prompt EXCEPT !.pc = "garbled"]
  <2>1. client' = [client EXCEPT ![c] = y] /\ local' = local
    BY <1>4 DEF ReadLength
  <2>2. y \in ClientStates /\ y.pc = "garbled"
    BY AtIs DEF ClientPcs
  <2> HIDE DEF y
  <2>3. client'[c] = y
    BY <2>1, <2>2, ClientWent
  <2> QED BY <1>0, <2>1, <2>2, <2>3, SoundBefore, FilesStay, ClientOn
<1> QED BY <1>3, <1>4

\* The client writes data at its place.
LEMMA LocalInPlace ==
    ASSUME IInv, NEW c \in Clients, client[c].pc = "get.data", NEW u \in Streams, LocalSave(c, u),
           InPlace(local[c].text), Placed(u, 0, Len(u), client[c].pos)
    PROVE  InPlace(local[c].text)'
<1> DEFINE s == local[c].text
           pos == client[c].pos
           x == Stored(s, pos, u)
<1>1. CASE client[c].op = "get"
  <2>1. s \in Streams /\ pos \in 0 .. Len(s)
    <3>1. pos <= Len(s) /\ pos \in Nat /\ s \in Streams
      BY <1>1, Upright, Constants DEF IInv, Types, Places, ClientPlace
    <3> QED BY <3>1 DEF Streams
  <2>2. InPlace(x)
    BY <2>1, PlacedStored
  <2>3. local' = [local EXCEPT ![c].text = x]
    BY <1>1 DEF LocalSave
  <2> HIDE DEF x
  <2>4. local'[c].text = x
    BY <2>3 DEF IInv, Types
  <2> QED BY <2>2, <2>4
<1>2. CASE client[c].op # "get"
  BY <1>2 DEF LocalSave
<1> QED BY <1>1, <1>2

\* The client takes a whole line of data and writes it where it belongs.
LEMMA ReadChunkSound ==
    ASSUME IInv, DataInv, NEW c \in Clients, Keeps(c), Clean', ReadChunk(c)
    PROVE  Sound(c)'
<1> DEFINE dn == toClient[c]
           dn2 == toClient'[c]
           m == client[c].length
           received == client[c].pos
           pc == server[c].pc
           pos == server[c].pos
<1>0. /\ UNCHANGED <<server, toServer, inode, name>> /\ client[c].pc = "get.data"
      /\ LINEMAX \in Nat /\ LINEMAX > 1 /\ m > LINEMAX /\ m \in Nat /\ MaxSize \in Nat
      /\ received \in Nat /\ pos \in Nat
      /\ client \in [Clients -> ClientStates]
  BY Upright, Constants DEF ReadChunk, IInv, Types
<1>1. PICK n \in 1 .. LINEMAX :
        /\ ClientRead(c, LINEMAX, n)
        /\ LocalSave(c, Filled(SubSeq(dn, 1, n)))
        /\ client' = [client EXCEPT ![c].length = @ - n,
                                    ![c].pos = Advanced(@, Filled(SubSeq(dn, 1, n)))]
        /\ lapses' = [lapses EXCEPT ![c] = @ \cup Cut(dn, LINEMAX, n)]
  BY Zenon DEF ReadChunk
<1>2. dn2 = Without(dn, n) /\ n \in 0 .. Len(dn) /\ n # 0 /\ n \in Amounts(c, dn, LINEMAX)
  BY <1>0, <1>1, ClientHasRead
<1>3. dn \in Streams /\ Len(dn) \in Nat
  BY Upright
<1>4. Cut(dn, LINEMAX, n) = {} /\ lapses[c] = {}
  BY <1>1, CutLapsed, SoundBefore
<1>5. /\ Placed(dn, 0, m, received) /\ received + m <= MaxSize
      /\ pc = "get.data" => pos = received + Len(dn)
  BY <1>0, SoundBefore DEF Sound, DownSound, DownPlaced, Gone
<1>6. Getting(pc, server[c].length, Len(dn), m)
  <2>1. BothSides("get.data", client[c].skip, m, pc, server[c].length, toServer[c], dn)
    BY <1>0, <1>4, Upright DEF Gone
  <2> QED BY <2>1 DEF BothSides
<1> HIDE DEF dn, dn2, m, received, pc, pos
<1>7. n = LINEMAX
  <2>1. n = Least(LINEMAX, Len(dn)) /\ Len(dn) # 0
    BY <1>0, <1>2, <1>3, <1>4, ReadAll
  <2>2. Len(dn) >= LINEMAX
    <3>1. Multiple(Len(dn)) \/ Len(dn) = m + LINEMAX
      BY <1>6 DEF Getting
    <3>2. CASE Multiple(Len(dn))
      BY <1>3, <2>1, <3>2, MultipleDown
    <3>3. CASE Len(dn) = m + LINEMAX
      BY <1>0, <3>3
    <3> QED BY <3>1, <3>2, <3>3
  <2> QED BY <1>0, <1>3, <2>1, <2>2 DEF Least
<1> DEFINE u == SubSeq(dn, 1, n)
<1>8. u \in Streams /\ Len(u) = n /\ Filled(u) = u
  BY <1>2, <1>3, <1>7, FrontIs, FilledWhole
<1>9. /\ Placed(dn2, 0, m - n, received + n) /\ Placed(u, 0, n, received)
      /\ Len(dn2) = Len(dn) - n
  BY <1>0, <1>2, <1>3, <1>5, <1>7, PlacedTaken, Taken
<1> HIDE DEF u
<1>10. Advanced(received, u) = received + n
  BY <1>0, <1>5, <1>7, <1>8 DEF Advanced, Fits
<1>11. /\ LocalSave(c, u)
       /\ client' = [client EXCEPT ![c].length = @ - n, ![c].pos = Advanced(@, u)]
  BY <1>1, <1>8 DEF u
<1>12. /\ client'[c].pc = "get.data" /\ client'[c].length = m - n
       /\ client'[c].pos = received + n
  BY <1>0, <1>10, <1>11 DEF ClientStates, m, received
<1>13. InPlace(local[c].text)'
  <2>1. Placed(u, 0, Len(u), client[c].pos)
    BY <1>8, <1>9 DEF received
  <2> QED BY <1>0, <1>8, <1>11, <2>1, SoundBefore, LocalInPlace DEF Sound
<1>14. UpSound(c)'
  BY <1>0, <1>12, SoundBefore, UpStays DEF Sound
<1>15. /\ (received + n) + (m - n) <= MaxSize
       /\ pc = "get.data" => pos = (received + n) + Len(dn2)
  BY <1>0, <1>3, <1>5, <1>7, <1>9
<1>16. DownPlaced("get.data", m - n, received + n, pc, pos, dn2)
  BY <1>9, <1>15 DEF DownPlaced
<1>17. DownSound(c)'
  BY <1>0, <1>12, <1>16 DEF DownSound, dn2, pc, pos
<1> QED BY <1>0, <1>13, <1>14, <1>17, SoundBefore, FilesStay DEF Sound

\* The client writes what is left of the file, and not the terminator behind it.
LEMMA ReadLastSound ==
    ASSUME IInv, DataInv, NEW c \in Clients, Keeps(c), Clean', ReadLast(c)
    PROVE  Sound(c)'
<1> DEFINE dn == toClient[c]
           m == client[c].length
           received == client[c].pos
<1>0. /\ UNCHANGED <<server, toServer, inode, name>> /\ client[c].pc = "get.data"
      /\ m \in Nat /\ received \in Nat
      /\ client' = [client EXCEPT ![c] = Skipping(1)]
  BY Upright, Constants DEF ReadLast
<1>1. PICK n \in 0 .. m : ClientRead(c, m, n) /\ LocalSave(c, SubSeq(dn, 1, n))
  BY Zenon DEF ReadLast
<1>2. n \in 0 .. Len(dn) /\ n <= m
  BY <1>0, <1>1, ClientHasRead
<1>3. dn \in Streams /\ Len(dn) \in Nat /\ Placed(dn, 0, m, received)
  BY <1>0, SoundBefore, Upright DEF Sound, DownSound, DownPlaced, Gone
<1> HIDE DEF dn, m
<1> DEFINE u == SubSeq(dn, 1, n)
<1>4. u \in Streams /\ Placed(u, 0, Len(u), received)
  <2>1. u \in Streams /\ Len(u) = n
    BY <1>2, <1>3, FrontIs
  <2>2. Placed(u, 0, n, received)
    BY <1>0, <1>2, <1>3, PlacedTaken
  <2> QED BY <2>1, <2>2
<1>5. LocalSave(c, u)
  BY <1>1
<1> HIDE DEF u
<1>6. InPlace(local[c].text)'
  BY <1>0, <1>4, <1>5, SoundBefore, LocalInPlace DEF Sound
<1> DEFINE x == Skipping(1)
<1>7. x \in ClientStates /\ x.pc = "skip"
  BY SkippingIs
<1>8. client' = [client EXCEPT ![c] = x]
  BY <1>0
<1> HIDE DEF x
<1>9. client'[c] = x
  BY <1>7, <1>8, ClientWent
<1> QED BY <1>0, <1>6, <1>7, <1>9, ClientOn

\* "ready" and the length go ahead of the first unit of the file.
LEMMA ReadPutReplySound ==
    ASSUME IInv, DataInv, NEW c \in Clients, Keeps(c), Clean', ReadPutReply(c)
    PROVE  Sound(c)'
<1> DEFINE dn == toClient[c]
           u == Head(dn)
           size == Len(local[c].text)
           y == [Prompt EXCEPT !.pc = "put.data", !.length = size]
           x == CASE u = Text("error") -> Skipping(1)
                  [] u # Text("error") /\ u.kind \in {"text", "nul"} -> y
                  [] OTHER -> [Prompt EXCEPT !.pc = "garbled"]
           s == Line("ready") \o <<Long(size)>>
<1>0. /\ UNCHANGED <<server, local, inode, name>> /\ client[c].pc = "put.reply"
      /\ LINEMAX \in Nat /\ LINEMAX > 1
  BY Constants DEF ReadPutReply
<1>1. PICK n \in 1 .. LINEMAX :
        /\ ClientRead(c, LINEMAX, n)
        /\ client' = [client EXCEPT ![c] = x]
        /\ IF u.kind \in {"text", "nul"} /\ u # Text("error") THEN Send(c, s) ELSE UNCHANGED toServer
        /\ lapses' = [lapses EXCEPT ![c] = @ \cup Cut(dn, LINEMAX, n)]
  BY Zenon DEF ReadPutReply
<1>2. n \in 0 .. Len(dn) /\ n # 0
  BY <1>0, <1>1, ClientHasRead
<1>3. dn \in Streams /\ Len(dn) \in Nat
  BY Upright
<1>4. u = dn[1]
  BY <1>2, <1>3 DEF Streams
<1>5. size \in 0 .. MaxSize
  BY Constants DEF IInv, Types, Room, Streams
<1>6. s \in Streams /\ Len(s) = LINEMAX + 1
  <2> DEFINE one == <<Long(size)>>
  <2>1. one \in Streams /\ Len(one) = 1
    BY <1>5, UnitTypes DEF Streams
  <2>2. "ready" \in Requests \cup Careless \cup Replies
    BY DEF Replies
  <2> HIDE DEF one
  <2>3. Line("ready") \o one \in Streams /\ Len(Line("ready") \o one) = LINEMAX + Len(one)
    BY <2>1, <2>2, LineAnd
  <2> QED BY <2>1, <2>3 DEF one
<1> HIDE DEF s, size
<1>7. \/ u = Text("error") /\ x = Skipping(1) /\ toServer' = toServer
      \/ u # Text("error") /\ x = y /\ Send(c, s)
      \/ x = [Prompt EXCEPT !.pc = "garbled"] /\ toServer' = toServer
  <2>1. \/ u = Text("error") /\ x = Skipping(1)
        \/ u # Text("error") /\ u.kind \in {"text", "nul"} /\ x = y
        \/ u # Text("error") /\ u.kind \notin {"text", "nul"} /\ x = [Prompt EXCEPT !.pc = "garbled"]
    OBVIOUS
  <2> HIDE DEF x, y, u
  <2> QED BY <1>1, <2>1
<1> HIDE DEF x, y, u, dn
<1>8. CASE (x = Skipping(1) \/ x = [Prompt EXCEPT !.pc = "garbled"]) /\ toServer' = toServer
  <2>1. x \in ClientStates /\ x.pc \in {"skip", "garbled"}
    <3>1. CASE x = Skipping(1)
      BY <3>1, SkippingIs
    <3>2. CASE x = [Prompt EXCEPT !.pc = "garbled"]
      BY <3>2, AtIs DEF ClientPcs
    <3> QED BY <1>8, <3>1, <3>2
  <2>2. client'[c] = x
    BY <1>1, <2>1, ClientWent
  <2> QED BY <1>0, <1>8, <2>1, <2>2, SoundBefore, FilesStay, ClientOn
<1>9. CASE u # Text("error") /\ x = y /\ Send(c, s)
  <2>1. y \in ClientStates /\ y.pc = "put.data" /\ y.pos = 0
    BY <1>5, PromptIs DEF ClientStates, ClientPcs, y
  <2>2. client'[c] = y
    BY <1>1, <1>9, <2>1, ClientWent
  <2>3. toServer'[c] = toServer[c] \o s
    BY <1>6, <1>9, Sent
  <2> DEFINE up == toServer[c]
  <2>4. server[c].pc = "put.ready" /\ Len(up) = 0 /\ up \in Streams
    <3> DEFINE pc == server[c].pc
               left == server[c].length
               n0 == client[c].length
    <3>1. BothSides("put.reply", client[c].skip, n0, pc, left, up, dn)
      BY <1>0, SoundBefore, Upright DEF Gone, dn
    <3>2. up \in Streams
      BY Upright
    <3> HIDE DEF pc, left, n0, up
    <3>3. \/ dn[1] = Text("error")
          \/ Len(dn) = 0
          \/ pc = "put.ready" /\ Len(up) = 0
      BY <3>1 DEF BothSides, InPutReply
    <3>4. pc = "put.ready" /\ Len(up) = 0
      BY <1>2, <1>3, <1>4, <1>9, <3>3
    <3> QED BY <3>2, <3>4 DEF pc
  <2>5. up \o s = s
    <3>1. up = <<>>
      BY <2>4 DEF Streams
    <3> QED BY <1>6, <3>1, ConcatEmptySeq DEF Streams
  <2>6. toServer'[c] = s
    BY <2>3, <2>5
  <2>7. Placed(s, LINEMAX + 1, Len(s), 0) /\ Len(s) = (LINEMAX + 1) + 0
    <3> DEFINE k == LINEMAX + 1
    <3>1. k \in Nat /\ Len(s) \in Nat /\ Len(s) <= k
      BY <1>0, <1>6
    <3> HIDE DEF k
    <3>2. Placed(s, k, Len(s), 0)
      BY <1>6, <3>1, PlacedNone
    <3> QED BY <1>0, <1>6, <3>2 DEF k
  <2>8. UpPlaced("put.data", 0, "put.ready", server[c].length, server[c].pos, s)
    BY <2>7 DEF UpPlaced
  <2>9. UpSound(c)'
    BY <1>0, <2>1, <2>2, <2>4, <2>6, <2>8 DEF UpSound
  <2>10. DownSound(c)'
    BY <2>1, <2>2 DEF DownSound, DownPlaced
  <2> QED BY <1>0, <2>9, <2>10, SoundBefore, FilesStay DEF Sound
<1> QED BY <1>7, <1>8, <1>9

\* The client sends the units of its file that follow those it has sent.
LEMMA SendChunkSound ==
    ASSUME IInv, DataInv, NEW c \in Clients, Keeps(c), Clean', SendChunk(c)
    PROVE  Sound(c)'
<1> DEFINE m == client[c].length
           sent == client[c].pos
           n == Least(LINEMAX, m)
           text == local[c].text
           s == SubSeq(text, sent + 1, sent + n)
           x == IF m <= LINEMAX THEN Skipping(1)
                ELSE [client[c] EXCEPT !.length = m - n, !.pos = sent + n]
<1>0. /\ UNCHANGED <<server, toClient, local, inode, name, lapses>> /\ client[c].pc = "put.data"
      /\ Send(c, s) /\ client' = [client EXCEPT ![c] = x]
  BY Zenon DEF SendChunk
<1>1. /\ m \in 0 .. MaxSize /\ sent \in 0 .. MaxSize /\ sent + m <= Len(text)
      /\ LINEMAX \in Nat /\ MaxSize \in Nat /\ text \in Streams /\ Len(text) \in Nat
      /\ Len(text) <= MaxSize
  <2>1. sent + m <= Len(text)
    BY <1>0 DEF IInv, Places, ClientPlace
  <2>2. text \in Streams /\ Len(text) <= MaxSize
    BY DEF IInv, Types, Room
  <2> QED BY <2>1, <2>2, Upright, Constants DEF Streams
<1>2. client[c] \in ClientStates
  BY DEF IInv, Types
<1>3. InPlace(text)
  BY SoundBefore DEF Sound
<1> HIDE DEF text
<1>4. x = Skipping(1) \/ x = [client[c] EXCEPT !.length = m - n, !.pos = sent + n]
  OBVIOUS
<1> HIDE DEF m, sent, x
<1>5. n \in Nat /\ n <= m
  BY <1>1 DEF Least
<1> HIDE DEF n
<1>6. s \in Streams /\ Len(s) = n /\ Placed(s, 0, Len(s), sent)
  <2> DEFINE a == sent + 1
             b == sent + n
  <2>1. a \in Nat /\ b \in Nat /\ b <= Len(text) /\ sent \in Nat
    BY <1>1, <1>5
  <2>2. \A i \in a .. b : text[i] \in Units
    BY <1>1, <2>1 DEF Streams
  <2>3. Placed(s, 0, Len(s), sent)
    <3> HIDE DEF b
    <3> QED BY <1>1, <1>3, <2>1, PlacedPart DEF b
  <2> HIDE DEF a, b
  <2>4. SubSeq(text, a, b) \in Seq(Units) /\ Len(SubSeq(text, a, b)) = IF a <= b THEN b - a + 1 ELSE 0
    BY <1>1, <2>1, <2>2, SubSeqProperties DEF Streams
  <2>5. Len(s) = n
    BY <1>1, <1>5, <2>4 DEF s, a, b
  <2>6. s \in Seq(Units)
    BY <2>4 DEF s, a, b
  <2> QED BY <2>3, <2>5, <2>6 DEF Streams
<1> HIDE DEF s
<1>7. toServer'[c] = toServer[c] \o s
  BY <1>0, <1>6, Sent
<1>8. /\ x \in ClientStates
      /\ x.pc = "skip" \/ (x.pc = "put.data" /\ x.pos = sent + n)
  <2>1. CASE x = Skipping(1)
    BY <2>1, SkippingIs
  <2>2. CASE x = [client[c] EXCEPT !.length = m - n, !.pos = sent + n]
    <3>1. m - n \in 0 .. MaxSize /\ sent + n \in 0 .. MaxSize
      BY <1>1, <1>5
    <3> QED BY <1>0, <1>2, <2>2, <3>1 DEF ClientStates
  <2> QED BY <1>4, <2>1, <2>2
<1>9. client'[c] = x
  BY <1>0, <1>8, ClientWent
<1>10. UpSound(c)'
  <2> DEFINE up == toServer[c]
             pc == server[c].pc
             left == server[c].length
             pos == server[c].pos
             sent2 == sent + Len(s)
             up2 == up \o s
             where == x.pc
  <2>1. UpPlaced("put.data", sent, pc, left, pos, up)
    BY <1>0, SoundBefore DEF Sound, UpSound, sent
  <2>2. pos \in Nat /\ sent \in Nat /\ up \in Streams
    BY <1>1, Upright, Constants
  <2> HIDE DEF up, pc, left, pos, sent2, up2, where
  <2>3. UpPlaced(where, sent2, pc, left, pos, up2)
    BY <1>6, <2>1, <2>2, UpMore DEF sent2, up2
  <2>4. UpPlaced(x.pc, sent2, server[c].pc, server[c].length, server[c].pos, toServer'[c])
    BY <1>7, <2>3 DEF where, pc, left, pos, up2, up
  <2>5. x.pc = "put.data" => x.pos = sent2
    BY <1>6, <1>8 DEF sent2
  <2>6. UpPlaced(x.pc, x.pos, server[c].pc, server[c].length, server[c].pos, toServer'[c])
    BY <1>8, <2>4, <2>5 DEF UpPlaced
  <2> QED BY <1>0, <1>9, <2>6 DEF UpSound
<1>11. DownSound(c)'
  BY <1>8, <1>9 DEF DownSound, DownPlaced
<1> QED BY <1>0, <1>10, <1>11, SoundBefore, FilesStay DEF Sound

\* Every step of the client keeps data in its place.
LEMMA ClientStepSound ==
    ASSUME IInv, DataInv, NEW c \in Clients, Keeps(c), Clean', ClientStep(c)
    PROVE  Sound(c)'
BY ReadLinesSound, SkipLineSound, ReadGetReplySound, ReadLengthSound, ReadChunkSound,
   ReadLastSound, ReadPutReplySound, SendChunkSound DEF ClientStep

-------------------------------------------------------------------------------
\* The theorem.

\* In the initial states each client has its own file, and the server has none.
LEMMA DataInitHolds ==
    Init => DataInv
<1>1. ASSUME Init PROVE Files
  BY <1>1 DEF Init, Files, InPlace
<1> SUFFICES ASSUME Init, NEW c \in Clients PROVE Sound(c)
  BY <1>1 DEF DataInv
<1>2. InPlace(local[c].text)
  <2> DEFINE text == [i \in 1 .. Size[c] |-> Data(c, i)]
  <2>1. local[c].text = text
    BY DEF Init
  <2>2. DOMAIN text = 1 .. Size[c] /\ \A i \in 1 .. Size[c] : text[i] = Data(c, i)
    OBVIOUS
  <2> HIDE DEF text
  <2> QED BY <2>1, <2>2 DEF InPlace
<1>3. client[c].pc = "prompt" /\ server[c].pc = "request"
  BY DEF Init, Prompt, Idle
<1>4. UpSound(c) /\ DownSound(c)
  BY <1>3, Elsewhere
<1> QED BY <1>1, <1>2, <1>4 DEF Sound

\* Every step keeps data in its place.
LEMMA DataStepKeeps ==
    IInv /\ DataInv /\ [Next]_vars => DataInv'
<1> SUFFICES ASSUME IInv, DataInv, [Next]_vars PROVE DataInv'
  OBVIOUS
<1>1. CASE Next
  <2>1. PICK c \in Clients :
            \/ \E op \in Requests \cup Careless : Request(c, op)
            \/ LocalRemove(c)
            \/ Die(c)
            \/ ClientStep(c)
            \/ ServerStep(c)
    BY <1>1 DEF Next
  <2>2. Keeps(c)
    BY <2>1, RequestKeeps, CarelessKeeps, LocalRemoveKeeps, DieKeeps, ClientStepKeeps, ServerStepKeeps
  <2>3. ASSUME Clean' PROVE Sound(c)'
    BY <2>1, <2>2, <2>3, RequestSound, CarelessSound, LocalRemoveSound, DieSound, ClientStepSound, ServerStepSound
  <2> QED BY <2>2, <2>3, SoundAfter
<1>2. CASE UNCHANGED vars
  <2>1. ASSUME Clean' PROVE Files /\ \A c \in Clients : Sound(c)
    BY <1>2, <2>1 DEF vars, Clean, DataInv
  <2>2. ASSUME NEW c \in Clients, Sound(c) PROVE Sound(c)'
    <3>1. UpSound(c)' /\ DownSound(c)'
      BY <1>2, <2>2 DEF vars, Sound, UpSound, DownSound, Gone
    <3>2. Files' /\ InPlace(local[c].text)'
      BY <1>2, <2>2 DEF vars, Sound, Files
    <3> QED BY <3>1, <3>2 DEF Sound
  <2>3. ASSUME Files PROVE Files'
    BY <1>2, <2>3 DEF vars, Files
  <2> QED BY <2>1, <2>2, <2>3 DEF DataInv
<1> QED BY <1>1, <1>2

\* Every unit in the file of a client or of the server is data, at the place it had in
\* the file it comes from, whatever the clients and the other children do, as long as
\* no client's exchange is upset (client.c:365-375, server.c:420-431).
THEOREM DataInPlaceAlways == Spec => []DataInPlace
<1>1. Init => IInv /\ DataInv
  BY InitHolds, DataInitHolds
<1>2. IInv /\ DataInv /\ [Next]_vars => (IInv /\ DataInv)'
  BY StepKeeps, DataStepKeeps
<1>3. IInv /\ DataInv => DataInPlace
  <2> SUFFICES ASSUME IInv, DataInv, Clean
               PROVE  /\ \A c \in Clients : InPlace(local[c].text)
                      /\ \A i \in InUse \ {NoInode} : InPlace(inode[i])
    BY DEF DataInPlace, Clean
  <2>1. Files /\ \A c \in Clients : Sound(c)
    BY DEF DataInv
  <2>2. InUse \ {NoInode} \subseteq Inodes
    BY DEF InUse, IInv, Types, ServerStates
  <2> QED BY <2>1, <2>2 DEF Sound, Files
<1> QED BY <1>1, <1>2, <1>3, PTL DEF Spec
===============================================================================
