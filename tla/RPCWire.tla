------------------------------- MODULE RPCWire ------------------------------
(***************************************************************************)
(* What the SDK client (pkg/sdk) and the RPC handler (pkg/rpc/handler.go)  *)
(* of `matchlock rpc` share: the calls and the two pipes between the       *)
(* processes.  The lines on the pipes are JSON-RPC requests, responses and *)
(* notifications; only what the two sides decide on is kept of them.       *)
(***************************************************************************)
EXTENDS Naturals, Sequences

CONSTANTS Calls,      \* request ids; each is used by one call of the SDK
          Closer,     \* the request id of the call Client.Close makes
          None,       \* no call
          Scenarios,  \* the methods a program uses for its calls
          Sequenced,  \* calls it makes only when create has returned
          Impatient,  \* calls it makes with a context that may end
          Chunks,     \* how many chunks a command's stdin has
          PipeCap     \* how many lines fit into the handler's stdin pipe

\* exec: exec and exec_stream; pipe, tty: commands with stdin; call: the file,
\* allow list and network methods; follow: log_stream; forward: port_forward;
\* none: a call the program does not make.
InputKinds == {"pipe", "tty"}
Kinds == {"create", "exec", "call", "follow", "forward", "none"}
             \cup InputKinds

ASSUME WireAssumption ==
    /\ Closer \notin Calls
    /\ None \notin Calls \cup {Closer}
    /\ Scenarios \subseteq [Calls -> Kinds]
    /\ Sequenced \subseteq Calls
    /\ Impatient \subseteq Calls
    /\ Chunks \in Nat
    /\ PipeCap \in Nat \ {0}

Ids == Calls \cup {Closer}

\* A command's stdin: its chunks in order, then end of file.
EOF == Chunks + 1

VARIABLES
    kind,         \* kind[c]: the method of call c
    toServer,     \* the handler's stdin: lines written and not yet read
    toClient,     \* the handler's stdout
    stdinClosed,  \* the client has closed its end of toServer
    exited        \* the process of the handler has exited

wireVars == <<kind, toServer, toClient, stdinClosed, exited>>

\* A request or a cancel has n = 0, a stdin notification the chunk's number.
ServerLine == [m : {"request", "cancel", "stdin"}, id : Ids, n : 0..EOF]

\* ok: a response that is no error; told apart for close only.
ClientLine == [m : {"response", "ready"}, id : Ids, ok : BOOLEAN]

WireInit ==
    /\ \E s \in Scenarios :
          kind = [c \in Ids |-> IF c = Closer THEN "close" ELSE s[c]]
    /\ toServer = <<>>
    /\ toClient = <<>>
    /\ stdinClosed = FALSE
    /\ exited = FALSE

WireTypeOK ==
    /\ kind \in [Ids -> Kinds \cup {"close"}]
    /\ toServer \in Seq(ServerLine) /\ Len(toServer) <= PipeCap
    /\ toClient \in Seq(ClientLine)
    /\ stdinClosed \in BOOLEAN
    /\ exited \in BOOLEAN
=============================================================================
