-------------------------------- MODULE RPC --------------------------------
(***************************************************************************)
(* One RPCClient (pkg/rpc/client.go) shared by concurrent calls, the       *)
(* connections it dials (connection.go), and the RPCServer goroutine that  *)
(* serves each connection (server.go).                                     *)
(*                                                                         *)
(* A request or a response travels as two pieces, its length and its data, *)
(* and carries the call it is for.  A Read takes what has arrived: it can  *)
(* leave a part of the data behind (`ReadsPart').  Left out: the registry  *)
(* and the load balancer of a client that has them, interceptors, codecs,  *)
(* and the connection limit of acceptLoop.                                 *)
(***************************************************************************)
EXTENDS Integers, Sequences, FiniteSets

CONSTANTS
  Calls, Closers,  \* goroutines that call CallWithMetadata, Close
  Conns,           \* what Connect may dial, each once
  retryCount,
  NoConn, NoCall

ASSUME RPCAssumption ==
  /\ retryCount \in Nat
  /\ NoConn \notin Conns /\ NoCall \notin Calls

VARIABLES
  conn, closed, localClosed,   \* c.conn, c.closed; conn.closed of each
  up, down,      \* the two directions of each connection
  listening,     \* the server accepts
  sPc, serving,  \* handleConnection of each connection, its request
  peerClosed,    \* connections the server has closed
  cPc, i, mine,   \* each call: where, its attempt, the connection in use
  result, reply, \* of each call: "ok" or "error", and whose reply it took
  (* what happened so far *)
  executions,    \* how often the server ran the method for each call
  orderly        \* calls never overlapped, and every Read took all

clientVars == <<conn, closed, localClosed>>
wireVars == <<up, down>>
serverVars == <<listening, sPc, serving, peerClosed, executions>>
callVars == <<cPc, i, mine, result, reply>>
rpcVars == <<clientVars, wireVars, serverVars, callVars, orderly>>

RPCInit ==
  /\ conn = NoConn /\ closed = FALSE /\ localClosed = {}
  /\ up = [k \in Conns |-> <<>>] /\ down = [k \in Conns |-> <<>>]
  /\ listening = TRUE
  /\ sPc = [k \in Conns |-> "none"] /\ serving = [k \in Conns |-> NoCall]
  /\ peerClosed = {}
  /\ cPc = [c \in Calls \cup Closers |-> "idle"] /\ i = [c \in Calls |-> 0]
  /\ mine = [c \in Calls |-> NoConn]
  /\ result = [c \in Calls |-> "none"] /\ reply = [c \in Calls |-> NoCall]
  /\ executions = [c \in Calls |-> 0] /\ orderly = TRUE

Length(c) == [part |-> "length", of |-> c, error |-> FALSE]
Data(c, e) == [part |-> "data", of |-> c, error |-> e]

Step(c, where) == cPc' = [cPc EXCEPT ![c] = where]

-----------------------------------------------------------------------------
(* The calls *)

CallWithMetadata(c) ==
  /\ cPc[c] = "idle"
  /\ Step(c, "connect")
  /\ orderly' = (orderly /\ \A d \in Calls : cPc[d] \in {"idle", "done"})
  /\ UNCHANGED <<clientVars, wireVars, serverVars, i, mine, result, reply>>

\* An attempt failed: the last one, or ctx.Done() while waiting, ends the call.
Failed(c) ==
  IF i[c] = retryCount
  THEN Step(c, "done") /\ result' = [result EXCEPT ![c] = "error"]
  ELSE Step(c, "wait") /\ UNCHANGED result

WaitRetries(c) ==
  /\ cPc[c] = "wait"
  /\ \/ /\ Step(c, "connect")
        /\ i' = [i EXCEPT ![c] = @ + 1]
        /\ UNCHANGED result
     \/ /\ Step(c, "done")
        /\ result' = [result EXCEPT ![c] = "error"]
        /\ UNCHANGED i
  /\ UNCHANGED <<clientVars, wireVars, serverVars, mine, reply, orderly>>

\* Only what this side closed counts as a connection to replace; c.closed is
\* not looked at.
Connect(c) ==
  /\ cPc[c] = "connect"
  /\ \/ /\ conn # NoConn /\ conn \notin localClosed
        /\ Step(c, "write")
        /\ UNCHANGED <<conn, sPc, result>>
     \/ /\ conn \in localClosed \cup {NoConn}
        /\ \/ /\ listening
              /\ \E k \in Conns : /\ sPc[k] = "none"
                                  /\ conn' = k
                                  /\ sPc' = [sPc EXCEPT ![k] = "read"]
              /\ Step(c, "write") /\ UNCHANGED result
           \/ Failed(c) /\ UNCHANGED <<conn, sPc>>
  /\ UNCHANGED <<closed, localClosed, wireVars, listening, serving, peerClosed,
                 executions, i, mine, reply, orderly>>

\* A Write of one piece; c.conn is read when WriteRequest begins.
WritePiece(c, k, piece, next) ==
  /\ \/ /\ k \notin localClosed
        /\ Step(c, next) /\ UNCHANGED result
        /\ up' = IF k \in peerClosed THEN up
                 ELSE [up EXCEPT ![k] = Append(@, piece)]
     \/ /\ k \in localClosed \cup peerClosed
        /\ Failed(c) /\ UNCHANGED up
  /\ UNCHANGED <<clientVars, down, serverVars, i, reply, orderly>>

WriteRequest(c) ==
  \/ /\ cPc[c] = "write"
     /\ mine' = [mine EXCEPT ![c] = conn]
     /\ WritePiece(c, conn, Length(c), "data")
  \/ /\ cPc[c] = "data"
     /\ UNCHANGED mine
     /\ WritePiece(c, mine[c], Data(c, FALSE), "read")

\* A deadline that leaves the connection in use.
ReadFailsAtDeadline(c, k) == Failed(c) /\ UNCHANGED <<down, reply, orderly>>
\* A Read on k fails: closed on this side, or by the server and all is read.
ReadFails(c, k) ==
  /\ k \in localClosed \/ (k \in peerClosed /\ down[k] = <<>>)
  /\ Failed(c)
  /\ UNCHANGED <<down, reply, orderly>>

\* Remains of k's data where a length is expected: four bytes of text are no
\* length.  What is left may end there, or swallow the length that follows.
ReadsRemains(c, k) ==
  /\ Head(down[k]).part = "data"
  /\ Failed(c)
  /\ \E left \in {down[k], Tail(down[k])} \cup
                 {<<Head(down[k])>> \o SubSeq(down[k], 3, Len(down[k]))} :
       down' = [down EXCEPT ![k] = left]
  /\ UNCHANGED <<reply, orderly>>

\* A piece that has not all arrived, a length of more than 1 MB, or data of
\* another length: no response.
ReadsPart(c, k) ==
  /\ Failed(c)
  /\ orderly' = FALSE
  /\ down' \in {down, [down EXCEPT ![k] = Tail(@)]}
  /\ UNCHANGED reply

ReadLength(c) ==
  LET k == conn IN
    /\ cPc[c] = "read"
    /\ mine' = [mine EXCEPT ![c] = k]
    /\ \/ ReadFails(c, k)
       \/ /\ k \notin localClosed /\ down[k] # <<>>
          /\ \/ /\ Head(down[k]).part = "length"
                /\ down' = [down EXCEPT ![k] = Tail(@)]
                /\ Step(c, "body")
                /\ UNCHANGED <<result, reply, orderly>>
             \/ ReadsRemains(c, k)
             \/ Head(down[k]).part = "length" /\ ReadsPart(c, k)
    /\ UNCHANGED <<clientVars, up, serverVars, i>>

\* Data that is whole ends the attempt, with the error the server put in it or
\* with a reply; the response's ID is not looked at.
ReadBody(c) ==
  LET k == mine[c] IN
    /\ cPc[c] = "body"
    /\ \/ ReadFails(c, k)
       \/ /\ k \notin localClosed /\ down[k] # <<>>
          /\ \/ /\ Head(down[k]).part = "data"
                /\ down' = [down EXCEPT ![k] = Tail(@)]
                /\ IF Head(down[k]).error
                   THEN Failed(c) /\ UNCHANGED reply
                   ELSE /\ Step(c, "done")
                        /\ result' = [result EXCEPT ![c] = "ok"]
                        /\ reply' = [reply EXCEPT ![c] = Head(down[k]).of]
                /\ UNCHANGED orderly
             \/ ReadsPart(c, k)
    /\ UNCHANGED <<clientVars, up, serverVars, i, mine>>

Close(x) ==
  /\ cPc[x] = "idle"
  /\ Step(x, "done")
  /\ closed' = TRUE
  /\ localClosed' = IF closed THEN localClosed
                    ELSE localClosed \cup ({conn} \ {NoConn})
  /\ UNCHANGED <<conn, wireVars, serverVars, i, mine, result, reply, orderly>>

-----------------------------------------------------------------------------
(* The server *)

ServerStops ==
  /\ listening
  /\ listening' = FALSE
  /\ UNCHANGED <<clientVars, wireVars, sPc, serving, peerClosed, executions,
                 callVars, orderly>>

\* ReadRequest, which takes two pieces that belong together.
ReadRequest(k) ==
  /\ sPc[k] = "read" /\ Len(up[k]) > 1
  /\ up[k][1] = Length(up[k][1].of) /\ up[k][2] = Data(up[k][1].of, FALSE)
  /\ serving' = [serving EXCEPT ![k] = up[k][1].of]
  /\ up' = [up EXCEPT ![k] = SubSeq(@, 3, Len(@))]
  /\ sPc' = [sPc EXCEPT ![k] = "handle"]
  /\ UNCHANGED <<clientVars, down, listening, peerClosed, executions, callVars,
                 orderly>>

\* handleRequest runs the method, which may fail, or refuses the request.
handleRequest(k) ==
  /\ sPc[k] = "handle"
  /\ \E run \in BOOLEAN, error \in BOOLEAN :
       /\ run \/ error
       /\ executions' = IF run THEN [executions EXCEPT ![serving[k]] = @ + 1]
                        ELSE executions
       /\ sPc' = [sPc EXCEPT ![k] = IF error THEN "refuse" ELSE "answer"]
  /\ UNCHANGED <<clientVars, wireVars, listening, serving, peerClosed, callVars,
                 orderly>>

WriteResponse(k) ==
  /\ sPc[k] \in {"answer", "refuse"}
  /\ down' = [down EXCEPT ![k] = @ \o <<Length(serving[k]),
                             Data(serving[k], sPc[k] = "refuse")>>]
  /\ sPc' = [sPc EXCEPT ![k] = "read"]
  /\ serving' = [serving EXCEPT ![k] = NoCall]
  /\ UNCHANGED <<clientVars, up, listening, peerClosed, executions, callVars,
                 orderly>>

\* The read timeout, a request that is no request, a client that left, a
\* method that panics, a response that cannot be written.  A reset loses what
\* the client has not yet received.
ServerDrops(k) ==
  /\ sPc[k] \notin {"none", "closed"}
  /\ sPc' = [sPc EXCEPT ![k] = "closed"]
  /\ serving' = [serving EXCEPT ![k] = NoCall]
  /\ peerClosed' = peerClosed \cup {k}
  /\ up' = [up EXCEPT ![k] = <<>>]
  /\ \E n \in 0 .. Len(down[k]) : down' = [down EXCEPT ![k] = SubSeq(@, 1, n)]
  /\ UNCHANGED <<clientVars, listening, executions, callVars, orderly>>

-----------------------------------------------------------------------------
RPCNext ==
  \/ \E c \in Calls :
       \/ CallWithMetadata(c) \/ WaitRetries(c) \/ Connect(c)
       \/ WriteRequest(c) \/ ReadLength(c) \/ ReadBody(c)
  \/ \E x \in Closers : Close(x)
  \/ \E k \in Conns : \/ ReadRequest(k) \/ handleRequest(k)
                       \/ WriteResponse(k) \/ ServerDrops(k)
  \/ ServerStops

RPCSpec == RPCInit /\ [][RPCNext]_rpcVars

-----------------------------------------------------------------------------
(* Properties *)

\* Every variable has its type (RPCClient, client.go:19-33, RPCConnection,
\* connection.go:18-29, and what travels between them).
RPCTypeOK ==
  /\ conn \in Conns \cup {NoConn} /\ closed \in BOOLEAN
  /\ localClosed \subseteq Conns /\ peerClosed \subseteq Conns
  /\ LET Piece == [part : {"length", "data"}, of : Calls, error : BOOLEAN] IN
       up \in [Conns -> Seq(Piece)] /\ down \in [Conns -> Seq(Piece)]
  /\ listening \in BOOLEAN /\ orderly \in BOOLEAN
  /\ sPc \in [Conns -> {"none", "read", "handle", "answer", "refuse", "closed"}]
  /\ serving \in [Conns -> Calls \cup {NoCall}]
  /\ cPc \in [Calls \cup Closers ->
            {"idle", "connect", "write", "data", "read", "body", "wait", "done"}]
  /\ i \in [Calls -> 0 .. retryCount] /\ mine \in [Calls -> Conns \cup {NoConn}]
  /\ result \in [Calls -> {"none", "ok", "error"}]
  /\ reply \in [Calls -> Calls \cup {NoCall}]
  /\ executions \in [Calls -> Nat]

\* Responses are not matched with requests, so a connection must never hold
\* what an earlier attempt left there: as long as calls follow one another and
\* every Read takes all, a call that succeeds took its own reply, of a method
\* that ran at least once and at most once per attempt, whatever retries,
\* refusals, dropped connections and a Close happened before.  Of calls that
\* overlap, those of AsyncCall (client.go:273) among them, it says nothing:
\* they may take each other's replies.
OwnReply ==
  orderly =>
    \A c \in Calls : result[c] = "ok" =>
      reply[c] = c /\ executions[c] \in 1 .. (i[c] + 1)
=============================================================================
