------------------------------- MODULE FileServer -------------------------------
(***************************************************************************)
(* The file server of Lab04 and its clients: one TCP connection and one    *)
(* forked child of the server per client, and the directory that the       *)
(* children share.  One file name is enough: the children only ever meet   *)
(* at a name they both use.                                                *)
(*                                                                         *)
(* A stream is a sequence of units, a few bytes each.  A write of LINEMAX  *)
(* bytes (a line) is LINEMAX units, of which only the first says anything, *)
(* as both programs only ever look at how a line begins; a long is one     *)
(* unit.  A read takes what is there, up to what it asks for, and may be   *)
(* cut short once per client.                                              *)
(*                                                                         *)
(* Each read and each access to the shared file is a step of its own; the  *)
(* writes that follow one another belong to the step before them.          *)
(***************************************************************************)
EXTENDS Integers, FiniteSets, SequencesExt

CONSTANTS
    Clients,        \* the clients, and the children that serve them
    LINEMAX,        \* units in a line
    HEADER,         \* units in the header of "ls pathname" (46 bytes)
    Size,           \* the length of the file each client starts with
    MaxSize,        \* room for a file, on either side
    MaxLines,       \* bound on the lines of a reply
    Capacity,       \* units a connection holds in one direction
    Commands,       \* the commands each client gives
    Fragile,        \* the clients that may die, lose their file, or have a read cut short
    NoInode         \* the name does not exist

Inodes == 1 .. Cardinality(Clients) + 1

ASSUME ServerAssumption ==
    /\ IsFiniteSet(Clients)
    /\ LINEMAX \in Nat /\ HEADER \in 1 .. LINEMAX - 1
    /\ Size \in [Clients -> Nat]
    /\ {MaxSize, MaxLines, Capacity} \subseteq Nat
    /\ \A c \in Clients : Size[c] <= MaxSize
    /\ Fragile \subseteq Clients
    /\ NoInode \notin Inodes

VARIABLES
    client,     \* where a client is in its command
    server,     \* where its child of the server is
    toServer,   \* the connection, one direction
    toClient,   \* and the other
    local,      \* the file in the client's directory, when it has one
    inode,      \* the contents of the files of the server
    name,       \* the inode the name stands for
    lapses      \* what has upset the exchange of messages, for each client

vars == <<client, server, toServer, toClient, local, inode, name, lapses>>

-------------------------------------------------------------------------------
\* Units.
Text(t) == [kind |-> "text", val |-> t]
Nul == [kind |-> "nul", val |-> 0]          \* a line that begins with '\0'
Rest == [kind |-> "rest", val |-> 0]        \* whatever follows the start of a line
Long(n) == [kind |-> "long", val |-> n]
Data(c, i) == [kind |-> "data", val |-> <<c, i>>]

Rests(n) == [i \in 1 .. n |-> Rest]
Line(t) == <<Text(t)>> \o Rests(LINEMAX - 1)
Terminator == <<Nul>> \o Rests(LINEMAX - 1)

\* A buffer of LINEMAX units of which a read has filled the front.
Filled(s) == s \o Rests(LINEMAX - Len(s))

Requests == {"text", "ls", "rm", "get", "cat", "put", "bad", "quit"}
\* Requests that do not name a file.
Careless == {"get nothing", "get directory", "put nothing"}
Replies == {"header", "line", "Error", "error", "found", "opened", "ready"}
Lapses == {"cut", "header", "put", "no name", "directory", "size", "eof"}

Least(m, n) == IF m <= n THEN m ELSE n
Most(m, n) == IF m <= n THEN n ELSE m

\* Seeded bug: a write at an offset begins one unit early.
OverlayEarly(s, pos, u) == SubSeq(s, 1, pos - 1) \o u

\* A file after a write of u at an offset.  There is no O_TRUNC on either side.
Overlay(s, pos, u) ==
    [i \in 1 .. Most(Len(s), pos + Len(u)) |->
        IF i \in pos + 1 .. pos + Len(u) THEN u[i - pos] ELSE s[i]]

\* A write into a file of a full device fails, which neither side notices.
Fits(pos, u) == pos + Len(u) <= MaxSize
Stored(s, pos, u) == IF Fits(pos, u) THEN Overlay(s, pos, u) ELSE s
\* Seeded bug: the offset moves on when the write has failed.
AdvancedAlways(pos, u) == pos + Len(u)

Advanced(pos, u) == IF Fits(pos, u) THEN pos + Len(u) ELSE pos

MayCut(c) == c \in Fragile /\ "cut" \notin lapses[c]

\* How many units a read that asks for want may return, of the stream s.
Amounts(c, s, want) ==
    LET all == Least(want, Len(s))
    IN  (IF MayCut(c) THEN 1 .. all ELSE {all}) \ {0}

\* The lapse a read of n units, asking for want, is.
Cut(s, want, n) == IF n < Least(want, Len(s)) THEN {"cut"} ELSE {}

RanTogether(s, n) == IF Head(s) = Text("header") /\ n > HEADER THEN {"header"} ELSE {}

Without(s, n) == SubSeq(s, n + 1, Len(s))

Gone(c) == client[c].pc = "gone"

-------------------------------------------------------------------------------
\* The child of the server.

Idle == [pc |-> "request", length |-> 0, inode |-> NoInode, pos |-> 0]

Goto(c, where) == server' = [server EXCEPT ![c].pc = where]
Done(c) == server' = [server EXCEPT ![c] = Idle]

\* write(client_socket, ...) waits for room; nobody reads it when the client is gone.
Reply(c, s) ==
    IF Gone(c) THEN UNCHANGED toClient
    ELSE /\ Len(toClient[c]) + Len(s) <= Capacity
         /\ toClient' = [toClient EXCEPT ![c] = @ \o s]

\* The contents of the inodes once the child of c has closed its file and the name
\* stands for nm: a file without a name that nobody has open is gone.
Kept(c, contents, nm) ==
    [i \in Inodes |-> IF i = nm \/ \E d \in Clients \ {c} : server[d].inode = i
                       THEN contents[i] ELSE <<>>]

\* Once the client is gone a read returns 0 at the end of the stream.
AtEnd(c) == Gone(c) /\ toServer[c] = <<>>

\* read(client_socket, ..., want) for n units.
ServerRead(c, want, n) ==
    /\ n \in IF want = 0 \/ AtEnd(c) THEN {0} ELSE Amounts(c, toServer[c], want)
    /\ toServer' = [toServer EXCEPT ![c] = Without(@, n)]

\* What the child does with the start of a request.
Handler(t) ==
    CASE t \in {"get", "cat"} -> "get.open"
      [] t = "put" -> "put.check"
      [] t = "quit" -> "gone"
      [] t \in {"text", "ls", "rm", "bad", "get nothing", "put nothing"} -> t
      [] t = "get directory" -> "garbled"
      [] OTHER -> "bad"

\* Seeded bug: the end of the connection is taken for a request.
GetRequestForever(c) ==
    /\ server[c].pc = "request"
    /\ \E n \in 0 .. LINEMAX :
        /\ ServerRead(c, LINEMAX, n)
        /\ IF n = 0 THEN Goto(c, "bad") /\ UNCHANGED lapses
           ELSE LET u == Head(toServer[c]) IN
                /\ Goto(c, CASE u.kind = "text" -> Handler(u.val)
                             [] u.kind = "nul" -> "bad"
                             [] OTHER -> "garbled")
                /\ lapses' = [lapses EXCEPT ![c] = @ \cup Cut(toServer[c], LINEMAX, n)]
    /\ UNCHANGED <<client, toClient, local, inode, name>>

\* The next request.  One that begins in the middle of a line is "garbled", and so is
\* a get of a directory, which sends what no read has read, for ever or not: what the
\* programs do with them is not modelled.
GetRequest(c) ==
    /\ server[c].pc = "request"
    /\ \E n \in 0 .. LINEMAX :
        /\ ServerRead(c, LINEMAX, n)
        /\ IF n = 0 THEN Goto(c, "gone") /\ UNCHANGED lapses
           ELSE LET u == Head(toServer[c]) IN
                /\ Goto(c, CASE u.kind = "text" -> Handler(u.val)
                             [] u.kind = "nul" -> "bad"
                             [] OTHER -> "garbled")
                /\ lapses' = [lapses EXCEPT ![c] = @ \cup Cut(toServer[c], LINEMAX, n)]
    /\ UNCHANGED <<client, toClient, local, inode, name>>

\* read returns -1 when the client died with replies unread, and what is left in line
\* from before is taken for a request.  It has lost its argument to strtok, or is a
\* reply; a part of a file that reads like a command is not followed.
ReadReset(c) ==
    /\ server[c].pc = "request" /\ AtEnd(c)
    /\ Goto(c, "stale")
    /\ UNCHANGED <<client, toServer, toClient, local, inode, name, lapses>>

Lines(k) == [i \in 1 .. k * LINEMAX |-> IF i % LINEMAX = 1 THEN Text("line") ELSE Rest]

\* pwd, ls, cd, mkdir, rmdir: some lines, none for a cd that succeeds.
ReplyLines(c) ==
    /\ server[c].pc \in {"text", "listing"}
    /\ \E k \in (IF server[c].pc = "text" THEN 0 ELSE 1) .. MaxLines :
        Reply(c, Lines(k) \o Terminator)
    /\ Done(c)
    /\ UNCHANGED <<client, toServer, local, inode, name, lapses>>

\* ls pathname: a header that is shorter than a line.
ReplyHeader(c) ==
    /\ server[c].pc = "ls"
    /\ Reply(c, <<Text("header")>> \o Rests(HEADER - 1))
    /\ Goto(c, "listing")
    /\ UNCHANGED <<client, toServer, local, inode, name, lapses>>

\* An unknown command.
ReplyNotFound(c) ==
    /\ server[c].pc = "bad"
    /\ Reply(c, Line("line") \o Terminator)
    /\ Done(c)
    /\ UNCHANGED <<client, toServer, local, inode, name, lapses>>

\* get, cat and put without a name: of the lines of the error of get, the one that
\* is the name is not sent, as there is none.
ReplyNoName(c) ==
    /\ server[c].pc \in {"get nothing", "put nothing"}
    /\ Reply(c, (IF server[c].pc = "get nothing" THEN Line("Error") \o Lines(1) ELSE Line("error"))
                \o Terminator)
    /\ Done(c)
    /\ UNCHANGED <<client, toServer, local, inode, name, lapses>>

\* rm: an open file loses its name only.
RemoveFile(c) ==
    /\ server[c].pc = "rm"
    /\ name' = NoInode
    /\ inode' = Kept(c, inode, NoInode)
    /\ Reply(c, Lines(3) \o Terminator)
    /\ Done(c)
    /\ UNCHANGED <<client, toServer, local, lapses>>

\* Seeded bug: the error message of get is sent in four lines.
GetOpenLong(c) ==
    /\ server[c].pc = "get.open"
    /\ \/ Reply(c, Line("Error") \o Lines(3) \o Terminator) /\ Done(c)
       \/ /\ name # NoInode
          /\ server' = [server EXCEPT ![c] = [Idle EXCEPT !.pc = "get.stat", !.inode = name]]
          /\ UNCHANGED toClient
    /\ UNCHANGED <<client, toServer, local, inode, name, lapses>>

\* get and cat: access and open, which may fail for a file that is there.
GetOpen(c) ==
    /\ server[c].pc = "get.open"
    /\ \/ Reply(c, Line("Error") \o Lines(2) \o Terminator) /\ Done(c)
       \/ /\ name # NoInode
          /\ server' = [server EXCEPT ![c] = [Idle EXCEPT !.pc = "get.stat", !.inode = name]]
          /\ UNCHANGED toClient
    /\ UNCHANGED <<client, toServer, local, inode, name, lapses>>

\* stat asks for the name again.  Without one the length is what was on the stack.
GetStat(c) ==
    /\ server[c].pc = "get.stat"
    /\ IF name = NoInode
       THEN /\ Goto(c, "garbled")
            /\ lapses' = [lapses EXCEPT ![c] = @ \cup {"size"}]
            /\ UNCHANGED toClient
       ELSE /\ server' = [server EXCEPT ![c].pc = "get.data", ![c].length = Len(inode[name])]
            /\ Reply(c, Line("found") \o <<Long(Len(inode[name]))>>)
            /\ UNCHANGED lapses
    /\ UNCHANGED <<client, toServer, local, inode, name>>

\* The units read(fdesc, line, LINEMAX) returns.
FromFile(c) ==
    LET s == inode[server[c].inode]
    IN  SubSeq(s, server[c].pos + 1, Least(Len(s), server[c].pos + LINEMAX))

SizeLapse(c, differs) == lapses' = [lapses EXCEPT ![c] = @ \cup IF differs THEN {"size"} ELSE {}]

\* A whole line is sent, whatever was read.
GetChunk(c) ==
    /\ server[c].pc = "get.data" /\ server[c].length > LINEMAX
    /\ LET s == FromFile(c) IN
        /\ Reply(c, Filled(s))
        /\ server' = [server EXCEPT ![c].length = @ - Len(s), ![c].pos = @ + Len(s)]
        /\ SizeLapse(c, Len(s) < LINEMAX)
    /\ UNCHANGED <<client, toServer, local, inode, name>>

\* The last units: those that were read, not those that are left of the length.
GetLast(c) ==
    /\ server[c].pc = "get.data" /\ server[c].length <= LINEMAX
    /\ Reply(c, FromFile(c) \o Terminator)
    /\ Done(c)
    /\ SizeLapse(c, Len(FromFile(c)) # server[c].length)
    /\ inode' = Kept(c, inode, name)
    /\ UNCHANGED <<client, toServer, local, name>>

\* Seeded bug: put of a file that exists is not followed by the terminator.
PutCheckUnfinished(c) ==
    /\ server[c].pc = "put.check"
    /\ IF name = NoInode
       THEN Goto(c, "put.open") /\ UNCHANGED toClient
       ELSE Reply(c, Line("error")) /\ Done(c)
    /\ UNCHANGED <<client, toServer, local, inode, name, lapses>>

\* put: access.
PutCheck(c) ==
    /\ server[c].pc = "put.check"
    /\ IF name = NoInode
       THEN Goto(c, "put.open") /\ UNCHANGED toClient
       ELSE Reply(c, Line("error") \o Terminator) /\ Done(c)
    /\ UNCHANGED <<client, toServer, local, inode, name, lapses>>

InUse == {name} \cup {server[c].inode : c \in Clients}

\* put: open fails, ...
PutRefuse(c) ==
    /\ server[c].pc = "put.open"
    /\ Reply(c, Line("error") \o Terminator)
    /\ Done(c)
    /\ UNCHANGED <<client, toServer, local, inode, name, lapses>>

\* ... or, with O_CREAT, makes the file, or takes the one that another child has made.
PutOpen(c) ==
    /\ server[c].pc = "put.open"
    /\ LET new == CHOOSE i \in Inodes \ InUse : TRUE
           i == IF name = NoInode THEN new ELSE name
       IN  /\ server' = [server EXCEPT ![c] = [Idle EXCEPT !.pc = "put.ready", !.inode = i]]
           /\ name' = i
           /\ inode' = IF name = NoInode THEN [inode EXCEPT ![new] = <<>>] ELSE inode
    /\ Reply(c, Line("opened"))
    /\ UNCHANGED <<client, toServer, local, lapses>>

\* The line "ready to send file" is not looked at.
PutReady(c) ==
    /\ server[c].pc = "put.ready"
    /\ \E n \in 0 .. LINEMAX :
        /\ ServerRead(c, LINEMAX, n)
        /\ lapses' = [lapses EXCEPT ![c] = @ \cup Cut(toServer[c], LINEMAX, n)]
    /\ Goto(c, "put.length")
    /\ UNCHANGED <<client, toClient, local, inode, name>>

PutLength(c) ==
    /\ server[c].pc = "put.length"
    /\ \E n \in 0 .. 1 :
        /\ ServerRead(c, 1, n)
        /\ IF n = 0 THEN Goto(c, "put.data")
           ELSE LET u == Head(toServer[c]) IN
                IF u.kind = "long"
                THEN server' = [server EXCEPT ![c].pc = "put.data", ![c].length = u.val]
                ELSE Goto(c, "garbled")
    /\ UNCHANGED <<client, toClient, local, inode, name, lapses>>

Saved(c, u) == [inode EXCEPT ![server[c].inode] = Stored(@, server[c].pos, u)]

\* A whole line is written, whatever was read; at the end of the stream for ever.
PutChunk(c) ==
    /\ server[c].pc = "put.data" /\ server[c].length > LINEMAX
    /\ \E n \in 0 .. LINEMAX :
        /\ ServerRead(c, LINEMAX, n)
        /\ LET u == Filled(SubSeq(toServer[c], 1, n)) IN
            /\ inode' = Saved(c, u)
            /\ server' = [server EXCEPT ![c].length = @ - n, ![c].pos = Advanced(@, u)]
        /\ lapses' = [lapses EXCEPT ![c] = @ \cup
                        IF n = 0 THEN {"eof"} ELSE Cut(toServer[c], LINEMAX, n)]
    /\ UNCHANGED <<client, toClient, local, name>>

PutLast(c) ==
    /\ server[c].pc = "put.data" /\ server[c].length <= LINEMAX
    /\ \E n \in 0 .. server[c].length :
        /\ ServerRead(c, server[c].length, n)
        /\ inode' = Kept(c, Saved(c, SubSeq(toServer[c], 1, n)), name)
        /\ lapses' = [lapses EXCEPT ![c] = @ \cup Cut(toServer[c], server[c].length, n)]
    /\ Reply(c, Terminator)
    /\ Done(c)
    /\ UNCHANGED <<client, local, name>>

\* SIGPIPE: a write to a client that is gone ends the child.
Killed(c) ==
    /\ Gone(c)
    /\ server[c].pc \in {"stale", "text", "listing", "ls", "bad", "get nothing", "put nothing",
                         "get.data"}
    /\ server' = [server EXCEPT ![c] = [Idle EXCEPT !.pc = "gone"]]
    /\ UNCHANGED <<client, toServer, toClient, local, inode, name, lapses>>

ServerStep(c) ==
    \/ GetRequest(c)
    \/ ReadReset(c)
    \/ ReplyLines(c)
    \/ ReplyHeader(c)
    \/ ReplyNotFound(c)
    \/ ReplyNoName(c)
    \/ RemoveFile(c)
    \/ GetOpen(c)
    \/ GetStat(c)
    \/ GetChunk(c)
    \/ GetLast(c)
    \/ PutCheck(c)
    \/ PutRefuse(c)
    \/ PutOpen(c)
    \/ PutReady(c)
    \/ PutLength(c)
    \/ PutChunk(c)
    \/ PutLast(c)
    \/ Killed(c)

-------------------------------------------------------------------------------
\* The client.

Prompt == [pc |-> "prompt", op |-> "quit", skip |-> 0, length |-> 0, pos |-> 0]

\* write(server_socket, ...) waits for room.
Send(c, s) ==
    /\ Len(toServer[c]) + Len(s) <= Capacity
    /\ toServer' = [toServer EXCEPT ![c] = @ \o s]

\* read(server_socket, ..., want) for n units.
ClientRead(c, want, n) ==
    /\ n \in IF want = 0 THEN {0} ELSE Amounts(c, toClient[c], want)
    /\ toClient' = [toClient EXCEPT ![c] = Without(@, n)]

\* The client reads and drops k more lines.
Skipping(k) == IF k = 0 THEN Prompt ELSE [Prompt EXCEPT !.pc = "skip", !.skip = k]

\* What the client does once it has sent a request.  A put of a file that it does
\* not have has been sent when the client finds that out.
After(c, op) ==
    CASE op = "quit" -> [Prompt EXCEPT !.pc = "gone"]
      [] op \in {"text", "ls", "rm"} -> [Prompt EXCEPT !.pc = "reply"]
      [] op \in {"get", "cat"} -> [Prompt EXCEPT !.pc = "get.reply", !.op = op]
      [] op \in {"get nothing", "get directory"} -> [Prompt EXCEPT !.pc = "get.reply", !.op = "cat"]
      [] op = "put" -> IF local[c].has THEN [Prompt EXCEPT !.pc = "put.reply"] ELSE Skipping(1)
      [] op = "put nothing" -> Skipping(1)
      [] op = "bad" -> Skipping(2)

\* The lapse that a request is.
Upsets(c, op) ==
    CASE op \in {"get nothing", "put nothing"} -> {"no name"}
      [] op = "get directory" -> {"directory"}
      [] op = "put" /\ ~local[c].has -> {"put"}
      [] OTHER -> {}

NoFile == [has |-> FALSE, text |-> <<>>]

\* Nothing that a client leaves behind on its side is looked at again.
Leave(c) ==
    /\ toClient' = [toClient EXCEPT ![c] = <<>>]
    /\ local' = [local EXCEPT ![c] = NoFile]

\* What happens once an exchange is upset is modelled up to the end of the command,
\* and for one more command when the child still waits for the put to go on.
Settled(c) == lapses[c] = {} \/ (lapses[c] = {"put"} /\ server[c].pc = "put.ready")

Request(c, op) ==
    /\ client[c].pc = "prompt"
    /\ Settled(c)
    /\ Send(c, Line(op))
    /\ op \in Commands[c]
    /\ client' = [client EXCEPT ![c] = After(c, op)]
    /\ lapses' = [lapses EXCEPT ![c] = @ \cup Upsets(c, op)]
    /\ IF op = "quit" THEN Leave(c) ELSE UNCHANGED <<toClient, local>>
    /\ UNCHANGED <<server, inode, name>>

\* lrm
LocalRemove(c) ==
    /\ client[c].pc = "prompt" /\ local[c].has
    /\ c \in Fragile
    /\ local' = [local EXCEPT ![c] = NoFile]
    /\ UNCHANGED <<client, server, toServer, toClient, inode, name, lapses>>

\* The client dies at any time.
Die(c) ==
    /\ ~Gone(c)
    /\ c \in Fragile
    /\ client' = [client EXCEPT ![c] = [Prompt EXCEPT !.pc = "gone"]]
    /\ Leave(c)
    /\ UNCHANGED <<server, toServer, inode, name, lapses>>

\* A reply of lines ends with an empty one.
ReadLines(c) ==
    /\ client[c].pc = "reply"
    /\ \E n \in 1 .. LINEMAX :
        /\ ClientRead(c, LINEMAX, n)
        /\ client' = [client EXCEPT ![c] =
                CASE Head(toClient[c]).kind = "text" -> @
                  [] Head(toClient[c]).kind = "nul" -> Prompt
                  [] OTHER -> [Prompt EXCEPT !.pc = "garbled"]]
        /\ lapses' = [lapses EXCEPT ![c] = @ \cup Cut(toClient[c], LINEMAX, n)
                                             \cup RanTogether(toClient[c], n)]
    /\ UNCHANGED <<server, toServer, local, inode, name>>

\* Lines that are printed or dropped without a look.
SkipLine(c) ==
    /\ client[c].pc = "skip"
    /\ \E n \in 1 .. LINEMAX :
        /\ ClientRead(c, LINEMAX, n)
        /\ lapses' = [lapses EXCEPT ![c] = @ \cup Cut(toClient[c], LINEMAX, n)]
    /\ client' = [client EXCEPT ![c] = Skipping(@.skip - 1)]
    /\ UNCHANGED <<server, toServer, local, inode, name>>

\* get and cat: an error is three lines and the terminator.
ReadGetReply(c) ==
    /\ client[c].pc = "get.reply"
    /\ \E n \in 1 .. LINEMAX :
        /\ ClientRead(c, LINEMAX, n)
        /\ LET u == Head(toClient[c]) IN
            client' = [client EXCEPT ![c] =
                CASE u = Text("Error") -> Skipping(3)
                  [] u # Text("Error") /\ u.kind \in {"text", "nul"} -> [@ EXCEPT !.pc = "get.length"]
                  [] OTHER -> [Prompt EXCEPT !.pc = "garbled"]]
        /\ lapses' = [lapses EXCEPT ![c] = @ \cup Cut(toClient[c], LINEMAX, n)]
    /\ UNCHANGED <<server, toServer, local, inode, name>>

\* get opens its file with O_CREAT and without O_TRUNC.
ReadLength(c) ==
    /\ client[c].pc = "get.length"
    /\ ClientRead(c, 1, 1)
    /\ LET u == Head(toClient[c]) IN
        IF u.kind = "long"
        THEN /\ client' = [client EXCEPT ![c].pc = "get.data", ![c].length = u.val]
             /\ local' = IF client[c].op = "get" THEN [local EXCEPT ![c].has = TRUE] ELSE local
        ELSE /\ client' = [client EXCEPT ![c] = [Prompt EXCEPT !.pc = "garbled"]]
             /\ UNCHANGED local
    /\ UNCHANGED <<server, toServer, inode, name, lapses>>

LocalSave(c, u) ==
    local' = IF client[c].op = "get"
             THEN [local EXCEPT ![c].text = Stored(@, client[c].pos, u)] ELSE local

\* A whole line is written, whatever was read.
ReadChunk(c) ==
    /\ client[c].pc = "get.data" /\ client[c].length > LINEMAX
    /\ \E n \in 1 .. LINEMAX :
        /\ ClientRead(c, LINEMAX, n)
        /\ LET u == Filled(SubSeq(toClient[c], 1, n)) IN
            /\ LocalSave(c, u)
            /\ client' = [client EXCEPT ![c].length = @ - n, ![c].pos = Advanced(@, u)]
        /\ lapses' = [lapses EXCEPT ![c] = @ \cup Cut(toClient[c], LINEMAX, n)]
    /\ UNCHANGED <<server, toServer, inode, name>>

ReadLast(c) ==
    /\ client[c].pc = "get.data" /\ client[c].length <= LINEMAX
    /\ \E n \in 0 .. client[c].length :
        /\ ClientRead(c, client[c].length, n)
        /\ LocalSave(c, SubSeq(toClient[c], 1, n))
        /\ lapses' = [lapses EXCEPT ![c] = @ \cup Cut(toClient[c], client[c].length, n)]
    /\ client' = [client EXCEPT ![c] = Skipping(1)]
    /\ UNCHANGED <<server, toServer, inode, name>>

\* put: the reply, and then "ready" and the length.
ReadPutReply(c) ==
    /\ client[c].pc = "put.reply"
    /\ \E n \in 1 .. LINEMAX :
        /\ ClientRead(c, LINEMAX, n)
        /\ LET u == Head(toClient[c]) IN
            /\ client' = [client EXCEPT ![c] =
                    CASE u = Text("error") -> Skipping(1)
                      [] u # Text("error") /\ u.kind \in {"text", "nul"} ->
                            [Prompt EXCEPT !.pc = "put.data", !.length = Len(local[c].text)]
                      [] OTHER -> [Prompt EXCEPT !.pc = "garbled"]]
            /\ IF u.kind \in {"text", "nul"} /\ u # Text("error")
               THEN Send(c, Line("ready") \o <<Long(Len(local[c].text))>>)
               ELSE UNCHANGED toServer
        /\ lapses' = [lapses EXCEPT ![c] = @ \cup Cut(toClient[c], LINEMAX, n)]
    /\ UNCHANGED <<server, local, inode, name>>

\* The file, a line at a time; the last part is what is left of it.
SendChunk(c) ==
    /\ client[c].pc = "put.data"
    /\ LET n == Least(LINEMAX, client[c].length)
           pos == client[c].pos
       IN  /\ Send(c, SubSeq(local[c].text, pos + 1, pos + n))
           /\ client' = [client EXCEPT ![c] =
                IF client[c].length <= LINEMAX THEN Skipping(1)
                ELSE [client[c] EXCEPT !.length = @ - n, !.pos = @ + n]]
    /\ UNCHANGED <<server, toClient, local, inode, name, lapses>>

ClientStep(c) ==
    \/ ReadLines(c)
    \/ SkipLine(c)
    \/ ReadGetReply(c)
    \/ ReadLength(c)
    \/ ReadChunk(c)
    \/ ReadLast(c)
    \/ ReadPutReply(c)
    \/ SendChunk(c)

-------------------------------------------------------------------------------
Init ==
    /\ client = [c \in Clients |-> Prompt]
    /\ server = [c \in Clients |-> Idle]
    /\ toServer = [c \in Clients |-> <<>>]
    /\ toClient = [c \in Clients |-> <<>>]
    /\ local = [c \in Clients |-> [has |-> TRUE, text |-> [i \in 1 .. Size[c] |-> Data(c, i)]]]
    /\ inode = [i \in Inodes |-> <<>>]
    /\ name = NoInode
    /\ lapses = [c \in Clients |-> {}]

Next ==
    \E c \in Clients :
        \/ \E op \in Requests \cup Careless : Request(c, op)
        \/ LocalRemove(c)
        \/ Die(c)
        \/ ClientStep(c)
        \/ ServerStep(c)

\* Both programs read as soon as there is something to read and write as soon as
\* there is room; nothing makes a user type another command.
Fairness == \A c \in Clients : WF_vars(ClientStep(c)) /\ WF_vars(ServerStep(c))

Spec == Init /\ [][Next]_vars /\ Fairness

-------------------------------------------------------------------------------
Datas == {Data(c, i) : c \in Clients, i \in 1 .. MaxSize}
Units == {Text(t) : t \in Requests \cup Careless \cup Replies} \cup {Nul, Rest} \cup Datas
         \cup {Long(n) : n \in 0 .. MaxSize}

TypeOK ==
    /\ \A c \in Clients :
        /\ client[c].length \in 0 .. MaxSize /\ client[c].pos \in 0 .. MaxSize
        /\ server[c].length \in 0 .. MaxSize /\ server[c].pos \in 0 .. MaxSize
        /\ server[c].inode \in Inodes \cup {NoInode}
        /\ Len(toServer[c]) <= Capacity /\ ToSet(toServer[c]) \subseteq Units
        /\ Len(toClient[c]) <= Capacity /\ ToSet(toClient[c]) \subseteq Units
        /\ Len(local[c].text) <= MaxSize /\ ToSet(local[c].text) \subseteq Units
        /\ lapses[c] \subseteq Lapses
    /\ \A i \in Inodes : Len(inode[i]) <= MaxSize /\ ToSet(inode[i]) \subseteq Units
    /\ name \in Inodes \cup {NoInode}

\* The two sides agree where one command ends and the next begins (client.c:299-387,
\* server.c:321-450): with a client at its prompt nothing is left in the connection
\* and its child waits for a request, and neither ever reads the middle of a line,
\* whatever the other children do to the file.  Six things, no others, upset this: a
\* read cut short, a header that runs together with the next line, a put of a file the
\* client does not have, a get, cat or put that names no file, a get or cat of a
\* directory, and a file whose length is not what stat said.
InStep ==
    \A c \in Clients :
        lapses[c] = {} =>
            /\ client[c].pc # "garbled" /\ server[c].pc # "garbled"
            /\ client[c].pc = "prompt" =>
                toServer[c] = <<>> /\ toClient[c] = <<>> /\ server[c].pc = "request"

\* Every unit of a file is data, at the place it had in the file it comes from: no
\* command shifts data, or mixes in what lies in a buffer or belongs to the exchange
\* of messages, as long as no client's exchange is upset (client.c:365-375,
\* server.c:420-431).
InPlace(s) == \A i \in DOMAIN s : s[i] \in {Data(c, i) : c \in Clients}
DataInPlace ==
    (\A c \in Clients : lapses[c] = {}) =>
        /\ \A c \in Clients : InPlace(local[c].text)
        /\ \A i \in InUse \ {NoInode} : InPlace(inode[i])

AtPrompt(c) == client[c].pc \in {"prompt", "gone"}

\* Unless the exchange is upset, every command comes to its end: neither side ever
\* waits for something the other will not send.
CommandsEnd == \A c \in Clients : ~AtPrompt(c) ~> (AtPrompt(c) \/ lapses[c] # {})

\* A child ends once its client is gone, in the middle of a command or not, unless
\* it is left with a put of which more than a line is missing (server.c:420).
ChildrenEnd == \A c \in Clients : Gone(c) ~> (server[c].pc = "gone" \/ lapses[c] # {})
===============================================================================
