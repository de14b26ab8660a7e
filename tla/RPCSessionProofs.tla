--------------------------- MODULE RPCSessionProofs --------------------------
(* The safety properties of RPCSession for any number of calls, of any       *)
(* methods, with any stdin length and any sizes of the pipe and the stdin    *)
(* channels: SessionInv is inductive.                                        *)
EXTENDS RPCSession, TLAPS

USE WireAssumption, HandlerAssumption

-----------------------------------------------------------------------------
(* Sequences.                                                                *)

(* What Append does to a sequence.                                           *)
LEMMA AppendFacts ==
  ASSUME NEW S, NEW s \in Seq(S), NEW e \in S
  PROVE  /\ Append(s, e) \in Seq(S)
         /\ Len(Append(s, e)) = Len(s) + 1
         /\ Append(s, e)[Len(s) + 1] = e
         /\ \A i \in 1..Len(s) : Append(s, e)[i] = s[i]
         /\ Append(s, e) # <<>>
OBVIOUS

(* What Head and Tail do to a sequence that is not empty.                    *)
LEMMA TailFacts ==
  ASSUME NEW S, NEW s \in Seq(S), s # <<>>
  PROVE  /\ Head(s) \in S /\ Head(s) = s[1]
         /\ Tail(s) \in Seq(S)
         /\ Len(s) \in Nat \ {0}
         /\ Len(Tail(s)) = Len(s) - 1
         /\ \A i \in 1..Len(s) - 1 : Tail(s)[i] = s[i + 1]
OBVIOUS

(* Reading the first line of the handler's stdin moves the others up.        *)
LEMMA LinesAfterRead ==
  ASSUME toServer \in Seq(ServerLine), toServer # <<>>,
         toServer' = Tail(toServer), NEW m, NEW c
  PROVE  /\ \A i \in Lines(m, c)' :
               /\ i + 1 \in Lines(m, c)
               /\ toServer'[i] = toServer[i + 1]
         /\ \A i \in Lines(m, c) : i # 1 => i - 1 \in Lines(m, c)'
         /\ 1 \in Lines(m, c) <=> Head(toServer).m = m /\ Head(toServer).id = c
BY TailFacts DEF Lines

(* A line that is written comes after the others.                            *)
LEMMA LinesAfterWrite ==
  ASSUME toServer \in Seq(ServerLine), NEW l \in ServerLine,
         toServer' = Append(toServer, l), NEW m, NEW c
  PROVE  /\ l.m = m /\ l.id = c
               => Lines(m, c)' = Lines(m, c) \cup {Len(toServer) + 1}
         /\ ~(l.m = m /\ l.id = c) => Lines(m, c)' = Lines(m, c)
         /\ toServer'[Len(toServer) + 1] = l
         /\ \A i \in Lines(m, c) : toServer'[i] = toServer[i]
         /\ \A i \in Lines(m, c) : i \in Nat /\ i < Len(toServer) + 1
<1>1. /\ Len(toServer') = Len(toServer) + 1 /\ Len(toServer) \in Nat
      /\ toServer'[Len(toServer) + 1] = l
      /\ \A i \in 1..Len(toServer) : toServer'[i] = toServer[i]
  BY AppendFacts
<1>2. 1..Len(toServer') = 1..Len(toServer) \cup {Len(toServer) + 1}
  BY <1>1
<1> QED
  BY <1>1, <1>2 DEF Lines

-----------------------------------------------------------------------------
(* Functions.                                                                *)

(* What EXCEPT does to a function.                                           *)
LEMMA UpdateFacts ==
  ASSUME NEW S, NEW T, NEW f \in [S -> T], NEW s \in S, NEW t \in T
  PROVE  /\ [f EXCEPT ![s] = t] \in [S -> T]
         /\ [f EXCEPT ![s] = t][s] = t
         /\ \A q \in S \ {s} : [f EXCEPT ![s] = t][q] = f[q]
OBVIOUS

(* Nothing has been read of any stdin.                                       *)
LEMMA EmptyFacts ==
  /\ [r \in Calls |-> <<>>] \in [Calls -> Seq(1..EOF)]
  /\ \A r \in Calls : Len([q \in Calls |-> <<>>][r]) <= ChanCap
  /\ <<>> \in Seq(1..EOF) /\ Len(<<>>) = 0
<1>1. <<>> \in Seq(1..EOF) /\ Len(<<>>) = 0
  OBVIOUS
<1> QED
  BY <1>1

(* Sums of lengths, for the numbers of chunks.                               *)
LEMMA SumFacts ==
  ASSUME NEW a \in Nat, NEW b \in Nat
  PROVE  /\ a + b + 1 \in Nat /\ a + b + 2 = a + b + 1 + 1
         /\ a + (b + 1) + 1 = a + b + 2 /\ a + (b + 1) = a + b + 1
OBVIOUS

LEMMA SumMoves ==
  ASSUME NEW a \in Nat, NEW b \in Nat
  PROVE  a + 1 + (b - 1) = a + b
OBVIOUS

-----------------------------------------------------------------------------
(* Types.                                                                    *)

(* A line the handler writes has the type of one.                            *)
LEMMA EmitType ==
  ASSUME WireTypeOK, NEW m \in {"response", "ready"}, NEW r \in Ids,
         NEW b \in BOOLEAN, Emit(m, r, b)
  PROVE  toClient' \in Seq(ClientLine)
<1>1. [m |-> m, id |-> r, ok |-> b] \in ClientLine
  BY DEF ClientLine
<1> QED
  BY <1>1, AppendFacts DEF Emit, WireTypeOK

(* A line the loop reads has the type of one.                                *)
LEMMA NextLineType ==
  ASSUME WireTypeOK, NEW m, NextLine(m)
  PROVE  /\ Head(toServer) \in ServerLine /\ Head(toServer).id \in Ids
         /\ Head(toServer).n \in 0..EOF
         /\ toServer # <<>> /\ toServer' = Tail(toServer)
         /\ Head(toServer) = toServer[1] /\ 1 \in 1..Len(toServer)
         /\ toServer' \in Seq(ServerLine) /\ Len(toServer') <= PipeCap
<1>1. toServer \in Seq(ServerLine) /\ toServer # <<>> /\ toServer' = Tail(toServer)
      /\ Len(toServer) <= PipeCap
  BY DEF WireTypeOK, NextLine
<1>2. Head(toServer) \in ServerLine /\ Head(toServer) = toServer[1]
      /\ Tail(toServer) \in Seq(ServerLine)
      /\ Len(toServer) \in Nat \ {0} /\ Len(Tail(toServer)) = Len(toServer) - 1
  BY <1>1, TailFacts
<1> QED
  BY <1>1, <1>2 DEF ServerLine

(* A request that is not synchronous is a call of the user.                  *)
LEMMA OtherRequests ==
  ASSUME KindsKnown, NEW c \in Ids, ~Synchronous(c)
  PROVE  c \in Calls
BY DEF KindsKnown, Synchronous, Ids

(* What a command's read does to its stdin.                                  *)
LEMMA ReadStdinEffect ==
  ASSUME HandlerTypeOK, NEW r \in Calls, ReadStdin(r)
  PROVE  /\ got' \in [Calls -> Seq(1..EOF)] /\ chan' \in [Calls -> Seq(1..EOF)]
         /\ \A q \in Calls : Len(chan'[q]) <= ChanCap
         /\ \A q \in Calls \ {r} : got'[q] = got[q] /\ chan'[q] = chan[q]
         /\ \/ /\ chan[r] # <<>>
               /\ got'[r] = Append(got[r], Head(chan[r]))
               /\ chan'[r] = Tail(chan[r])
            \/ /\ Cancelled(r)
               /\ got'[r] = Append(got[r], EOF)
               /\ chan'[r] = chan[r]
<1>0. /\ chan \in [Calls -> Seq(1..EOF)] /\ got \in [Calls -> Seq(1..EOF)]
      /\ \A q \in Calls : Len(chan[q]) <= ChanCap
  BY DEF HandlerTypeOK
<1>1. CASE /\ chan[r] # <<>>
           /\ got' = [got EXCEPT ![r] = Append(@, Head(chan[r]))]
           /\ chan' = [chan EXCEPT ![r] = Tail(@)]
  <2>1. /\ Head(chan[r]) \in 1..EOF /\ Tail(chan[r]) \in Seq(1..EOF)
        /\ Len(Tail(chan[r])) = Len(chan[r]) - 1 /\ Len(chan[r]) \in Nat
    BY <1>0, <1>1, TailFacts
  <2>2. Append(got[r], Head(chan[r])) \in Seq(1..EOF)
    BY <1>0, <2>1, AppendFacts
  <2>3. /\ got' \in [Calls -> Seq(1..EOF)]
        /\ got'[r] = Append(got[r], Head(chan[r]))
        /\ \A q \in Calls \ {r} : got'[q] = got[q]
    BY <1>0, <1>1, <2>2, UpdateFacts
  <2>4. /\ chan' \in [Calls -> Seq(1..EOF)]
        /\ chan'[r] = Tail(chan[r])
        /\ \A q \in Calls \ {r} : chan'[q] = chan[q]
    BY <1>0, <1>1, <2>1, UpdateFacts
  <2>5. Len(chan[r]) <= ChanCap
    BY <1>0
  <2>6. \A q \in Calls : Len(chan'[q]) <= ChanCap
    BY <1>0, <2>1, <2>4, <2>5
  <2> QED
    BY <1>1, <2>3, <2>4, <2>6
<1>2. CASE /\ Cancelled(r)
           /\ got' = [got EXCEPT ![r] = Append(@, EOF)]
           /\ UNCHANGED chan
  <2>1. Append(got[r], EOF) \in Seq(1..EOF)
    BY <1>0, AppendFacts DEF EOF
  <2>2. /\ got' \in [Calls -> Seq(1..EOF)]
        /\ got'[r] = Append(got[r], EOF)
        /\ \A q \in Calls \ {r} : got'[q] = got[q]
    BY <1>0, <1>2, <2>1, UpdateFacts
  <2> QED
    BY <1>0, <1>2, <2>2
<1> QED
  BY <1>1, <1>2 DEF ReadStdin

(* A process that ends leaves its initial state, apart from the pipes.       *)
LEMMA ProcessEndsType ==
  ASSUME HandlerTypeOK, ProcessEnds, UNCHANGED <<kind, toClient, stdinClosed>>
  PROVE  HandlerTypeOK'
<1>1. WireTypeOK'
  <2>1. toServer' \in Seq(ServerLine) /\ Len(toServer') <= PipeCap
    BY DEF ProcessEnds
  <2> QED
    BY <2>1 DEF ProcessEnds, HandlerTypeOK, WireTypeOK
<1>2. chan' \in [Calls -> Seq(1..EOF)] /\ got' \in [Calls -> Seq(1..EOF)]
      /\ \A r \in Calls : Len(chan'[r]) <= ChanCap
  BY EmptyFacts DEF ProcessEnds
<1>3. line' \in ServerLine
  BY DEF ProcessEnds, NoLine, ServerLine, Ids, EOF
<1> QED
  BY <1>1, <1>2, <1>3
  DEF HandlerTypeOK, LoopPCs, RequestPCs, Registered, ProcessEnds

(* The steps of the handler keep its types.                                  *)
LEMMA HandlerTypeStep ==
  ASSUME HandlerTypeOK, KindsKnown, LoopInv, HandlerNext,
         \A c \in Calls : RequestOnce(c)
  PROVE  HandlerTypeOK'
<1> USE DEF HandlerTypeOK, WireTypeOK, LoopPCs, RequestPCs, Registered
<1>0. NoLine \in ServerLine /\ Calls \subseteq Ids
  BY DEF NoLine, ServerLine, Ids, EOF
<1>1. CASE ReadCancel
  <2>1. NextLine("cancel")
    BY <1>1 DEF ReadCancel
  <2>2. /\ Head(toServer) \in ServerLine /\ Head(toServer).id \in Ids
        /\ toServer' \in Seq(ServerLine) /\ Len(toServer') <= PipeCap
    BY <2>1, NextLineType
  <2> QED
    BY <1>1, <2>2 DEF ReadCancel, loopVars, vmVars, pfVars, inVars
<1>2. CASE ReadSynchronous
  <2>1. NextLine("request")
    BY <1>2 DEF ReadSynchronous
  <2>2. /\ Head(toServer) \in ServerLine /\ Head(toServer).id \in Ids
        /\ toServer' \in Seq(ServerLine) /\ Len(toServer') <= PipeCap
    BY <2>1, NextLineType
  <2> QED
    BY <1>2, <2>2 DEF ReadSynchronous, goVars, vmVars, pfVars, inVars
<1>3. CASE ReadRequest
  <2>1. NextLine("request")
    BY <1>3 DEF ReadRequest
  <2>2. /\ Head(toServer) \in ServerLine /\ Head(toServer).id \in Ids
        /\ toServer' \in Seq(ServerLine) /\ Len(toServer') <= PipeCap
    BY <2>1, NextLineType
  <2>3. Head(toServer).id \in Calls
    BY <1>3, <2>2, OtherRequests DEF ReadRequest
  <2>4. hpc[Head(toServer).id] = "none"
    BY <1>3, <2>1, <2>3, NextLineType DEF ReadRequest, RequestOnce, Unread, Lines, NextLine
  <2>5. hpc' \in [Calls -> RequestPCs] /\ ctxDone \subseteq Registered'
    BY <1>3, <2>3, <2>4 DEF ReadRequest, HGoto
  <2> QED
    BY <1>3, <2>2, <2>5 DEF ReadRequest, loopVars, vmVars, pfVars, inVars
<1>4. CASE ReadInput
  <2>1. NextLine("stdin")
    BY <1>4 DEF ReadInput
  <2>2. /\ Head(toServer) \in ServerLine /\ Head(toServer).id \in Ids
        /\ toServer' \in Seq(ServerLine) /\ Len(toServer') <= PipeCap
    BY <2>1, NextLineType
  <2>3. loop' \in LoopPCs /\ line' \in ServerLine
    BY <1>4, <2>2 DEF ReadInput
  <2> QED
    BY <1>4, <2>2, <2>3 DEF ReadInput, goVars, vmVars, pfVars, inVars
<1>5. CASE SendInput
  <2>1. chan' \in [Calls -> Seq(1..EOF)] /\ \A r \in Calls : Len(chan'[r]) <= ChanCap
    <3>1. CASE line.id \in Sessions /\ Len(chan[line.id]) < ChanCap
              /\ chan' = [chan EXCEPT ![line.id] = Append(@, line.n)]
      <4>1. line.id \in Calls /\ line.n \in 1..EOF
        BY <1>5, <3>1 DEF SendInput, LoopInv, ServerLine, EOF
      <4>2. /\ Append(chan[line.id], line.n) \in Seq(1..EOF)
            /\ Len(Append(chan[line.id], line.n)) <= ChanCap
        BY <3>1, <4>1, AppendFacts
      <4>3. chan' = [chan EXCEPT ![line.id] = Append(chan[line.id], line.n)]
        BY <3>1
      <4> QED
        BY <4>1, <4>2, <4>3, UpdateFacts
    <3>2. CASE UNCHANGED chan
      BY <3>2
    <3> QED
      BY <1>5, <3>1, <3>2 DEF SendInput
  <2> QED
    BY <1>5, <1>0, <2>1 DEF SendInput, LoopBack, wireVars, goVars, vmVars, pfVars
<1>6. CASE ReadEnds
  <2>1. toServer' \in Seq(ServerLine) /\ Len(toServer') <= PipeCap
    <3>1. CASE toServer # <<>> /\ toServer' = Tail(toServer)
      BY <3>1, TailFacts
    <3> QED
      BY <1>6, <3>1 DEF ReadEnds
  <2> QED
    BY <1>6, <2>1 DEF ReadEnds, goVars, pfVars, inVars
<1>7. CASE RunReturns
  BY <1>7, ProcessEndsType DEF RunReturns
<1>8. CASE WaitInFlight
  BY <1>8 DEF WaitInFlight, wireVars, goVars, vmVars, pfVars, inVars
<1>9. CASE CreateRefused
  <2>1. line.id \in Ids
    BY DEF ServerLine
  <2>2. toClient' \in Seq(ClientLine)
    BY <1>9, <2>1, EmitType DEF CreateRefused
  <2> QED
    BY <1>9, <1>0, <2>1, <2>2 DEF CreateRefused, LoopBack, goVars, vmVars, pfVars, inVars
<1>10. CASE Factory
  <2>1. line.id \in Calls
    BY <1>10 DEF Factory, LoopInv, KindsKnown, ServerLine, Ids
  <2> QED
    BY <1>10, <2>1 DEF Factory, wireVars, goVars, pfVars, inVars
<1>11. CASE StartFails
  <2>1. line.id \in Ids
    BY DEF ServerLine
  <2>2. toClient' \in Seq(ClientLine)
    BY <1>11, <2>1, EmitType DEF StartFails
  <2> QED
    BY <1>11, <1>0, <2>1, <2>2 DEF StartFails, LoopBack, goVars, vmVars, pfVars, inVars
<1>12. CASE StartSucceeds
  <2>1. line.id \in Calls /\ line.id \in Ids
    BY <1>12 DEF StartSucceeds, LoopInv, KindsKnown, ServerLine, Ids
  <2>2. toClient' \in Seq(ClientLine)
    BY <1>12, <2>1, EmitType DEF StartSucceeds
  <2> QED
    BY <1>12, <1>0, <2>1, <2>2 DEF StartSucceeds, LoopBack, goVars, vmVars, pfVars, inVars
<1>13. CASE CloseTakes
  BY <1>13 DEF CloseTakes, wireVars, goVars, vmVars, pfVars, inVars
<1>14. CASE ClosePortForwards
  <2>1. line.id \in Ids
    BY DEF ServerLine
  <2>2. toClient' \in Seq(ClientLine)
    BY <1>14, <2>1, EmitType DEF ClosePortForwards
  <2> QED
    BY <1>14, <1>0, <2>1, <2>2 DEF ClosePortForwards, LoopBack, goVars, vmVars, pfVars, inVars
<1>15. CASE CloseVM
  <2>1. line.id \in Ids
    BY DEF ServerLine
  <2>2. toClient' \in Seq(ClientLine)
    BY <1>15, <2>1, EmitType DEF CloseVM
  <2> QED
    BY <1>15, <1>0, <2>1, <2>2 DEF CloseVM, LoopBack, goVars, vmVars, pfVars, inVars
<1>16. CASE \E r \in Calls : RequestStep(r) \/ ReadStdin(r) \/ CommandEnds(r)
  <2> PICK r \in Calls : RequestStep(r) \/ ReadStdin(r) \/ CommandEnds(r)
    BY <1>16
  <2> USE DEF HGoto, wireVars, loopVars, goVars, vmVars, pfVars, inVars
  <2>1. CASE RegisterCancel(r)
    BY <2>1 DEF RegisterCancel
  <2>2. CASE Refused(r)
    BY <2>2 DEF Refused
  <2>3. CASE BeginExec(r)
    BY <2>3 DEF BeginExec, Enters
  <2>4. CASE BeginCall(r)
    BY <2>4 DEF BeginCall, Enters
  <2>5. CASE BeginFollow(r)
    BY <2>5 DEF BeginFollow, Enters
  <2>6. CASE BeginExecPipe(r)
    BY <2>6 DEF BeginExecPipe, OpensStdin
  <2>7. CASE BeginExecTTY(r)
    BY <2>7 DEF BeginExecTTY, OpensStdin
  <2>8. CASE SendReady(r)
    <3>1. toClient' \in Seq(ClientLine)
      BY <2>8, <1>0, EmitType DEF SendReady
    <3>2. hpc' \in [Calls -> RequestPCs] /\ ctxDone' \subseteq Registered'
      BY <2>8 DEF SendReady
    <3>3. UNCHANGED <<kind, toServer, stdinClosed, exited, loopVars, runDone, vmVars, pfVars, inVars>>
      BY <2>8 DEF SendReady
    <3>4. WireTypeOK'
      BY <3>1, <3>3
    <3> HIDE DEF WireTypeOK, Registered, RequestPCs, LoopPCs
    <3> QED
      BY <3>2, <3>3, <3>4
  <2>9. CASE CommandCancelled(r)
    <3>1. /\ chan' \in [Calls -> Seq(1..EOF)] /\ got' \in [Calls -> Seq(1..EOF)]
          /\ \A q \in Calls : Len(chan'[q]) <= ChanCap
      BY <2>9 DEF CommandCancelled, EndRunning
    <3> QED
      BY <2>9, <3>1 DEF CommandCancelled, EndRunning
  <2>10. CASE Respond(r)
    <3>1. toClient' \in Seq(ClientLine)
      BY <2>10, <1>0, EmitType DEF Respond
    <3>2. hpc' \in [Calls -> RequestPCs] /\ ctxDone' \subseteq Registered'
      BY <2>10 DEF Respond
    <3>3. UNCHANGED <<kind, toServer, stdinClosed, exited, loopVars, runDone, vmVars, pfVars, inVars>>
      BY <2>10 DEF Respond
    <3>4. WireTypeOK'
      BY <3>1, <3>3
    <3> HIDE DEF WireTypeOK, Registered, RequestPCs, LoopPCs
    <3> QED
      BY <3>2, <3>3, <3>4
  <2>11. CASE BeginForward(r)
    BY <2>11 DEF BeginForward
  <2>12. CASE ReplaceForward(r)
    BY <2>12 DEF ReplaceForward
  <2>13. CASE Listen(r)
    BY <2>13 DEF Listen
  <2>14. CASE ListenFails(r)
    BY <2>14 DEF ListenFails
  <2>15. CASE Install(r)
    BY <2>15 DEF Install
  <2>16. CASE ReadStdin(r)
    <3>1. /\ got' \in [Calls -> Seq(1..EOF)] /\ chan' \in [Calls -> Seq(1..EOF)]
          /\ \A q \in Calls : Len(chan'[q]) <= ChanCap
      BY <2>16, ReadStdinEffect
    <3>2. UNCHANGED <<wireVars, loopVars, goVars, runDone, vmVars, pfVars>>
      BY <2>16 DEF ReadStdin
    <3>3. hpc' \in [Calls -> RequestPCs] /\ ctxDone' \subseteq Registered'
      BY <3>2
    <3>4. WireTypeOK'
      BY <3>2
    <3> HIDE DEF WireTypeOK, Registered, RequestPCs, LoopPCs
    <3> QED
      BY <3>1, <3>2, <3>3, <3>4
  <2>17. CASE CommandEnds(r)
    <3>1. /\ chan' \in [Calls -> Seq(1..EOF)] /\ got' \in [Calls -> Seq(1..EOF)]
          /\ \A q \in Calls : Len(chan'[q]) <= ChanCap
      BY <2>17 DEF CommandEnds, EndRunning
    <3> QED
      BY <2>17, <3>1 DEF CommandEnds, EndRunning
  <2> QED
    BY <2>1, <2>2, <2>3, <2>4, <2>5, <2>6, <2>7, <2>8, <2>9, <2>10, <2>11, <2>12, <2>13, <2>14, <2>15, <2>16, <2>17 DEF RequestStep
<1>17. CASE EntryEnds \/ Signalled
  BY <1>17 DEF EntryEnds, Signalled, wireVars, loopVars, goVars, vmVars, pfVars, inVars
<1> QED
  BY <1>1, <1>2, <1>3, <1>4, <1>5, <1>6, <1>7, <1>8, <1>9, <1>10, <1>11, <1>12, <1>13, <1>14, <1>15, <1>16, <1>17 DEF HandlerNext, LoopStep

(* A line the client writes has the type of one.                             *)
LEMMA WriteLineType ==
  ASSUME WireTypeOK, Room, NEW m \in {"request", "cancel", "stdin"}, NEW c \in Ids,
         NEW k \in 0..EOF, WriteLine(m, c, k)
  PROVE  /\ toServer' \in Seq(ServerLine) /\ Len(toServer') <= PipeCap
         /\ toServer' = Append(toServer, [m |-> m, id |-> c, n |-> k])
         /\ [m |-> m, id |-> c, n |-> k] \in ServerLine
<1>1. [m |-> m, id |-> c, n |-> k] \in ServerLine
  BY DEF ServerLine
<1>2. toServer' = Append(toServer, [m |-> m, id |-> c, n |-> k])
  BY DEF WriteLine
<1>3. toServer \in Seq(ServerLine) /\ Len(toServer) < PipeCap
  BY DEF WireTypeOK, Room
<1> QED
  BY <1>1, <1>2, <1>3, AppendFacts

(* What the reader takes from the handler's stdout.                          *)
LEMMA NextReplyType ==
  ASSUME WireTypeOK, NEW m, NextReply(m)
  PROVE  /\ Head(toClient) \in ClientLine /\ Head(toClient).id \in Ids
         /\ Head(toClient).ok \in BOOLEAN
         /\ toClient # <<>> /\ toClient' = Tail(toClient)
         /\ Head(toClient) = toClient[1] /\ 1 \in 1..Len(toClient)
         /\ toClient' \in Seq(ClientLine)
<1>1. toClient \in Seq(ClientLine) /\ toClient # <<>> /\ toClient' = Tail(toClient)
  BY DEF WireTypeOK, NextReply
<1>2. Head(toClient) \in ClientLine /\ Head(toClient) = toClient[1]
      /\ Tail(toClient) \in Seq(ClientLine) /\ Len(toClient) \in Nat \ {0}
  BY <1>1, TailFacts
<1> QED
  BY <1>1, <1>2 DEF ClientLine

\* What a step of the client may do to the handler's stdin: nothing, or write
\* one request, cancel or chunk.
WritesRequest(c) ==
    /\ Room /\ WriteLine("request", c, 0)
    /\ cpc[c] \in {"idle", "write"} /\ cpc' = [cpc EXCEPT ![c] = "wait"]

WritesCancel(c) ==
    /\ Room /\ WriteLine("cancel", c, 0)
    /\ cpc[c] = "cancel" /\ cpc' = [cpc EXCEPT ![c] = "leave"]

\* And what the steps that write nothing may do to the calls.
CallsMoveOn ==
    \A c \in Ids : cpc'[c] \in {"idle", "write"} => cpc[c] \in {"idle", "write"}

(* The write of a request, and its error.                                    *)
LEMMA WriteOrFailEffect ==
  ASSUME WireTypeOK, ClientTypeOK, NEW c \in Ids, WriteOrFail(c),
         cpc[c] \in {"idle", "write"}
  PROVE  /\ toServer' \in Seq(ServerLine) /\ Len(toServer') <= PipeCap
         /\ cpc' \in [Ids -> CallPCs]
         /\ WritesRequest(c) \/ (toServer' = toServer /\ CallsMoveOn)
<1>0. cpc \in [Ids -> CallPCs] /\ 0 \in 0..EOF
  BY DEF ClientTypeOK, EOF
<1>1. CASE Room /\ WriteLine("request", c, 0) /\ CGoto(c, "wait")
  <2>1. toServer' \in Seq(ServerLine) /\ Len(toServer') <= PipeCap
    BY <1>0, <1>1, WriteLineType
  <2>2. cpc' \in [Ids -> CallPCs] /\ cpc' = [cpc EXCEPT ![c] = "wait"]
    BY <1>0, <1>1 DEF CGoto, CallPCs
  <2> QED
    BY <1>1, <2>1, <2>2 DEF WritesRequest
<1>2. CASE Broken /\ CGoto(c, "leave") /\ UNCHANGED toServer
  BY <1>0, <1>2 DEF CGoto, CallPCs, CallsMoveOn, WireTypeOK
<1> QED
  BY <1>1, <1>2 DEF WriteOrFail

(* A call that begins.                                                       *)
LEMMA BeginEffect ==
  ASSUME WireTypeOK, ClientTypeOK, ClientInv, NEW c \in Ids, Begin(c)
  PROVE  /\ WireTypeOK'
         /\ cpc' \in [Ids -> CallPCs] /\ pending' \subseteq Ids
         /\ failing' \subseteq pending' /\ cpc[c] = "idle"
         /\ cpc'[c] # "idle"
         /\ \A d \in Ids \ {c} : cpc'[d] = cpc[d]
         /\ WritesRequest(c) \/ (toServer' = toServer /\ CallsMoveOn)
<1>0. /\ cpc \in [Ids -> CallPCs] /\ pending \subseteq Ids /\ failing \subseteq pending
      /\ cpc[c] = "idle"
      /\ UNCHANGED <<kind, toClient, stdinClosed, exited, failing>>
  BY DEF ClientTypeOK, Begin
<1>1. CASE pendingNil /\ CGoto(c, "returned") /\ UNCHANGED <<pending, toServer>>
  <2>1. WireTypeOK'
    BY <1>0, <1>1 DEF WireTypeOK
  <2> QED
    BY <1>0, <1>1, <2>1 DEF CGoto, CallPCs, CallsMoveOn
<1>2. CASE pending' = pending \cup {c} /\ WriteOrFail(c)
  <2>1. /\ toServer' \in Seq(ServerLine) /\ Len(toServer') <= PipeCap
        /\ cpc' \in [Ids -> CallPCs]
        /\ WritesRequest(c) \/ (toServer' = toServer /\ CallsMoveOn)
    BY <1>0, <1>2, WriteOrFailEffect
  <2>2. WireTypeOK'
    BY <1>0, <2>1 DEF WireTypeOK
  <2>3. cpc'[c] # "idle" /\ \A d \in Ids \ {c} : cpc'[d] = cpc[d]
    BY <1>0, <1>2 DEF WriteOrFail, CGoto
  <2> QED
    BY <1>0, <1>2, <2>1, <2>2, <2>3
<1>3. CASE pending' = pending \cup {c} /\ CGoto(c, "write") /\ UNCHANGED toServer
  <2>1. WireTypeOK'
    BY <1>0, <1>3 DEF WireTypeOK
  <2> QED
    BY <1>0, <1>3, <2>1 DEF CGoto, CallPCs, CallsMoveOn
<1> QED
  BY <1>1, <1>2, <1>3 DEF Begin

\* What a step of the client may do to the pump of c, unless it sends a chunk.
PumpMoves(c) ==
    \/ pump'[c] = pump[c] /\ sent'[c] = sent[c]
    \/ pump'[c] = "off" /\ sent'[c] = 0
    \/ /\ pump[c] = "wait" /\ pump'[c] = "send" /\ sent'[c] = sent[c]
       /\ NextReply("ready") /\ Head(toClient).id = c
    \/ /\ cpc[c] = "idle" /\ cpc'[c] # "idle"
       /\ pump'[c] # "send" /\ sent'[c] = sent[c]

ClientEffect ==
    /\ UNCHANGED <<kind, exited>>
    /\ \/ \E c \in Calls : PumpSends(c)
       \/ /\ \/ toServer' = toServer /\ CallsMoveOn
             \/ \E c \in Ids : WritesRequest(c) \/ WritesCancel(c)
          /\ \A c \in Calls : PumpMoves(c)
    /\ \/ toClient' \in {toClient, <<>>}
       \/ toClient # <<>> /\ toClient' = Tail(toClient)
    /\ \A c \in Ids : cpc'[c] = "idle" => cpc[c] = "idle"

(* The steps of the client keep its types, and they are of the kinds above.  *)
LEMMA ClientStep ==
  ASSUME WireTypeOK, ClientTypeOK, ClientInv, ClientNext
  PROVE  WireTypeOK' /\ ClientTypeOK' /\ ClientInv' /\ ClientEffect
<1> USE DEF callVars, readVars, pumpVars, closeVars
<1>0. /\ cpc \in [Ids -> CallPCs] /\ pump \in [Calls -> {"off", "wait", "send"}]
      /\ sent \in [Calls -> 0..EOF] /\ EOF \in Nat \ {0} /\ Calls \subseteq Ids
      /\ Closer \in Ids
  BY DEF ClientTypeOK, EOF, Ids
<1>1. ASSUME NEW c \in Calls, Call(c)
      PROVE  WireTypeOK' /\ ClientTypeOK' /\ ClientInv' /\ ClientEffect
  <2>1. /\ WireTypeOK'
        /\ cpc' \in [Ids -> CallPCs] /\ pending' \subseteq Ids
        /\ failing' \subseteq pending' /\ cpc[c] = "idle" /\ cpc'[c] # "idle"
        /\ \A d \in Ids \ {c} : cpc'[d] = cpc[d]
        /\ WritesRequest(c) \/ (toServer' = toServer /\ CallsMoveOn)
    BY <1>0, <1>1, BeginEffect DEF Call
  <2>2. /\ UNCHANGED <<kind, toClient, exited, pendingNil, resCh, gaveUp, reader,
                       failing, sent, closeOK, closing>>
        /\ pump' \in [Calls -> {"off", "wait", "send"}]
        /\ pump'[c] # "send"
        /\ \A d \in Calls \ {c} : pump'[d] = pump[d]
    BY <1>0, <1>1 DEF Call, Begin
  <2>3. sent[c] < EOF \/ pump'[c] = "off"
    BY <1>0, <1>1, <2>1, <2>2 DEF ClientInv, Call
  <2> QED
    BY <1>0, <2>1, <2>2, <2>3 DEF ClientTypeOK, ClientInv, ClientEffect, PumpMoves
<1>2. ASSUME NEW c \in Calls, PumpSends(c)
      PROVE  WireTypeOK' /\ ClientTypeOK' /\ ClientInv' /\ ClientEffect
  <2>1. sent[c] + 1 \in 0..EOF
    BY <1>0, <1>2 DEF PumpSends, ClientInv
  <2>2. toServer' \in Seq(ServerLine) /\ Len(toServer') <= PipeCap
    BY <1>0, <1>2, <2>1, WriteLineType DEF PumpSends
  <2>3. UNCHANGED <<kind, toClient, stdinClosed, exited, callVars, readVars, resCh,
                    closeVars>>
    BY <1>2 DEF PumpSends
  <2>4. WireTypeOK'
    BY <2>2, <2>3 DEF WireTypeOK
  <2>5. /\ sent' \in [Calls -> 0..EOF]
        /\ pump' \in [Calls -> {"off", "wait", "send"}]
        /\ \A d \in Calls : pump'[d] # "off" => sent'[d] < EOF
        /\ \A d \in Calls : cpc[d] = "idle" => pump'[d] = "off" /\ sent'[d] = 0
    BY <1>0, <1>2, <2>1 DEF PumpSends, ClientInv
  <2>6. ClientEffect
    BY <1>2, <2>3 DEF ClientEffect
  <2> QED
    BY <2>3, <2>4, <2>5, <2>6 DEF ClientTypeOK, ClientInv
<1>3. ASSUME NEW c \in Calls, PumpEnds(c)
      PROVE  WireTypeOK' /\ ClientTypeOK' /\ ClientInv' /\ ClientEffect
  <2>1. UNCHANGED <<wireVars, callVars, readVars, resCh, closeVars>>
    BY <1>3 DEF PumpEnds
  <2>2. /\ sent' \in [Calls -> 0..EOF]
        /\ pump' \in [Calls -> {"off", "wait", "send"}]
        /\ \A d \in Calls : pump'[d] # "off" => sent'[d] < EOF
        /\ \A d \in Calls : cpc[d] = "idle" => pump'[d] = "off" /\ sent'[d] = 0
        /\ \A d \in Calls : PumpMoves(d)
    BY <1>0, <1>3 DEF PumpEnds, ClientInv, PumpMoves
  <2> QED
    BY <2>1, <2>2
    DEF wireVars, WireTypeOK, ClientTypeOK, ClientInv, ClientEffect, CallsMoveOn
<1>4. ASSUME NEW c \in Ids, CallStep(c) \/ GiveUp(c)
      PROVE  WireTypeOK' /\ ClientTypeOK' /\ ClientInv' /\ ClientEffect
  <2>0. UNCHANGED <<kind, exited, toClient, stdinClosed, pendingNil, reader, failing,
                    pump, sent, closing>>
    BY <1>4 DEF CallStep, WriteRequest, Receive, WriteCancel, Leave, GiveUp, wireVars
  <2>1. \A d \in Calls : PumpMoves(d)
    BY <2>0 DEF PumpMoves
  <2>2. CASE WriteRequest(c)
    <3>1. /\ toServer' \in Seq(ServerLine) /\ Len(toServer') <= PipeCap
          /\ cpc' \in [Ids -> CallPCs]
          /\ WritesRequest(c) \/ (toServer' = toServer /\ CallsMoveOn)
      BY <2>2, WriteOrFailEffect DEF WriteRequest
    <3>2. \A d \in Ids : cpc'[d] = "idle" => cpc[d] = "idle"
      BY <1>0, <2>2 DEF WriteRequest, WriteOrFail, CGoto
    <3>3. UNCHANGED <<gaveUp, readVars, resCh, closeVars>>
      BY <2>2 DEF WriteRequest
    <3> QED
      BY <1>0, <2>0, <2>1, <3>1, <3>2, <3>3 DEF WireTypeOK, ClientTypeOK, ClientInv, ClientEffect
  <2>3. CASE Receive(c)
    <3>1. /\ cpc' \in [Ids -> CallPCs] /\ CallsMoveOn
          /\ \A d \in Ids : cpc'[d] = "idle" => cpc[d] = "idle"
      BY <1>0, <2>3 DEF Receive, CGoto, CallPCs, CallsMoveOn
    <3>2. UNCHANGED <<wireVars, gaveUp, readVars>>
      BY <2>3 DEF Receive
    <3>3. /\ resCh' \in [Ids -> {<<>>} \cup {<<r>> : r \in {"ok", "reply", "eof"}}]
          /\ closeOK' \in BOOLEAN
      BY <2>3 DEF Receive, ClientTypeOK
    <3> QED
      BY <1>0, <2>0, <2>1, <3>1, <3>2, <3>3
      DEF wireVars, WireTypeOK, ClientTypeOK, ClientInv, ClientEffect
  <2>4. CASE WriteCancel(c)
    <3>1. /\ cpc' \in [Ids -> CallPCs] /\ CallsMoveOn
          /\ \A d \in Ids : cpc'[d] = "idle" => cpc[d] = "idle"
      BY <1>0, <2>4 DEF WriteCancel, CGoto, CallPCs, CallsMoveOn
    <3>2. UNCHANGED <<gaveUp, readVars, resCh, closeVars>>
      BY <2>4 DEF WriteCancel
    <3>3. toServer' = toServer \/ WritesCancel(c)
      BY <2>4 DEF WriteCancel, WritesCancel, CGoto
    <3>4. toServer' \in Seq(ServerLine) /\ Len(toServer') <= PipeCap
      <4>1. CASE WritesCancel(c)
        <5>1. 0 \in 0..EOF /\ Room /\ WriteLine("cancel", c, 0)
          BY <1>0, <4>1 DEF WritesCancel
        <5> QED
          BY <5>1, WriteLineType
      <4> QED
        BY <3>3, <4>1 DEF WireTypeOK
    <3> QED
      BY <1>0, <2>0, <2>1, <3>1, <3>2, <3>3, <3>4
      DEF WireTypeOK, ClientTypeOK, ClientInv, ClientEffect
  <2>5. CASE Leave(c)
    <3>1. /\ cpc' \in [Ids -> CallPCs] /\ CallsMoveOn
          /\ \A d \in Ids : cpc'[d] = "idle" => cpc[d] = "idle"
      BY <1>0, <2>5 DEF Leave, CGoto, CallPCs, CallsMoveOn
    <3>2. UNCHANGED <<wireVars, gaveUp, closeVars>>
      BY <2>5 DEF Leave
    <3>3. resCh' \in [Ids -> {<<>>} \cup {<<r>> : r \in {"ok", "reply", "eof"}}]
      BY <2>5 DEF Leave, ClientTypeOK
    <3>4. pending' \subseteq Ids /\ failing' \subseteq pending'
      BY <2>0, <2>5 DEF Leave, MutexFree, ClientTypeOK, ClientInv
    <3> QED
      BY <1>0, <2>0, <2>1, <3>1, <3>2, <3>3, <3>4
      DEF wireVars, WireTypeOK, ClientTypeOK, ClientInv, ClientEffect
  <2>6. CASE GiveUp(c)
    <3>1. /\ cpc' \in [Ids -> CallPCs] /\ CallsMoveOn
          /\ \A d \in Ids : cpc'[d] = "idle" => cpc[d] = "idle"
      BY <1>0, <2>6 DEF GiveUp, CGoto, CallPCs, CallsMoveOn
    <3>2. UNCHANGED <<wireVars, readVars, resCh, closeVars>> /\ gaveUp' \subseteq Ids
      BY <2>6 DEF GiveUp, ClientTypeOK
    <3> QED
      BY <1>0, <2>0, <2>1, <3>1, <3>2
      DEF wireVars, WireTypeOK, ClientTypeOK, ClientInv, ClientEffect
  <2> QED
    BY <1>4, <2>2, <2>3, <2>4, <2>5, <2>6 DEF CallStep
<1>5. CASE ReaderStep
  <2>0. /\ UNCHANGED <<kind, toServer, stdinClosed, exited, cpc, gaveUp, sent, closeVars>>
        /\ CallsMoveOn
    BY <1>5 DEF ReaderStep, ReadReady, ReadResponse, ReadEOF, ReaderEnds, FailPending,
                wireVars, CallsMoveOn
  <2>1. CASE ReadReady
    <3>1. toClient' \in Seq(ClientLine) /\ toClient # <<>> /\ toClient' = Tail(toClient)
      BY <2>1, NextReplyType DEF ReadReady
    <3>2. UNCHANGED <<readVars, resCh>>
      BY <2>1 DEF ReadReady
    <3>3. pump' \in [Calls -> {"off", "wait", "send"}]
      BY <1>0, <2>1 DEF ReadReady
    <3>4. \A d \in Calls : PumpMoves(d)
      BY <1>0, <2>0, <2>1 DEF ReadReady, PumpMoves
    <3>5. \A d \in Calls : pump'[d] # "off" => pump[d] # "off"
      BY <1>0, <2>1 DEF ReadReady
    <3> QED
      BY <2>0, <3>1, <3>2, <3>3, <3>4, <3>5
      DEF WireTypeOK, ClientTypeOK, ClientInv, ClientEffect
  <2>2. CASE ~ReadReady
    <3>0. UNCHANGED pump /\ \A d \in Calls : PumpMoves(d)
      BY <1>5, <2>0, <2>2 DEF ReaderStep, ReadResponse, ReadEOF, ReaderEnds,
                              FailPending, PumpMoves
    <3>1. CASE ReadResponse
      <4>1. /\ toClient' \in Seq(ClientLine) /\ toClient # <<>>
            /\ toClient' = Tail(toClient) /\ Head(toClient).id \in Ids
        BY <3>1, NextReplyType DEF ReadResponse
      <4>2. UNCHANGED readVars
        BY <3>1 DEF ReadResponse
      <4>3. resCh' \in [Ids -> {<<>>} \cup {<<r>> : r \in {"ok", "reply", "eof"}}]
        BY <3>1, <4>1 DEF ReadResponse, ClientTypeOK
      <4> QED
        BY <2>0, <3>0, <4>1, <4>2, <4>3
        DEF WireTypeOK, ClientTypeOK, ClientInv, ClientEffect
    <3>2. CASE ReadEOF
      <4>1. toClient' = <<>> /\ toClient' \in Seq(ClientLine)
        BY <3>2 DEF ReadEOF
      <4>2. UNCHANGED <<pending, pendingNil, resCh>> /\ reader' = "fail" /\ failing' = pending
        BY <3>2 DEF ReadEOF
      <4> QED
        BY <2>0, <3>0, <4>1, <4>2 DEF WireTypeOK, ClientTypeOK, ClientInv, ClientEffect
    <3>3. CASE ReaderEnds
      <4>1. UNCHANGED <<toClient, resCh>> /\ reader' = "done" /\ pending' = {}
            /\ failing' = {} /\ pendingNil' = TRUE
        BY <3>3 DEF ReaderEnds, wireVars
      <4> QED
        BY <2>0, <3>0, <4>1 DEF WireTypeOK, ClientTypeOK, ClientInv, ClientEffect
    <3>4. CASE \E c \in Ids : FailPending(c)
      <4>1. PICK c \in Ids : FailPending(c)
        BY <3>4
      <4>2. UNCHANGED <<toClient, pending, pendingNil, reader>> /\ failing' \subseteq failing
        BY <4>1 DEF FailPending, wireVars
      <4>3. resCh' \in [Ids -> {<<>>} \cup {<<r>> : r \in {"ok", "reply", "eof"}}]
        BY <4>1 DEF FailPending, ClientTypeOK
      <4> QED
        BY <2>0, <3>0, <4>2, <4>3 DEF WireTypeOK, ClientTypeOK, ClientInv, ClientEffect
    <3> QED
      BY <1>5, <2>2, <3>1, <3>2, <3>3, <3>4 DEF ReaderStep
  <2> QED
    BY <2>1, <2>2
<1>6. CASE CloseBegins
  <2>1. /\ WireTypeOK'
        /\ cpc' \in [Ids -> CallPCs] /\ pending' \subseteq Ids
        /\ failing' \subseteq pending' /\ cpc[Closer] = "idle" /\ cpc'[Closer] # "idle"
        /\ \A d \in Ids \ {Closer} : cpc'[d] = cpc[d]
        /\ WritesRequest(Closer) \/ (toServer' = toServer /\ CallsMoveOn)
    BY <1>0, <1>6, BeginEffect DEF CloseBegins
  <2>2. UNCHANGED <<kind, toClient, exited, pendingNil, resCh, gaveUp, reader,
                    failing, pump, sent, closeOK>> /\ closing' = "request"
    BY <1>6 DEF CloseBegins, Begin
  <2> QED
    BY <1>0, <2>1, <2>2 DEF ClientTypeOK, ClientInv, ClientEffect, PumpMoves
<1>7. CASE CloseStep
  <2>1. /\ UNCHANGED <<kind, toServer, toClient, exited, callVars, readVars, resCh,
                       pumpVars, closeOK>>
        /\ stdinClosed' \in BOOLEAN /\ closing' \in {"wait", "closed"}
    BY <1>7 DEF CloseStep, CloseStdin, CloseReturns, wireVars, WireTypeOK
  <2> QED
    BY <2>1 DEF WireTypeOK, ClientTypeOK, ClientInv, ClientEffect, PumpMoves, CallsMoveOn
<1> QED
  BY <1>1, <1>2, <1>3, <1>4, <1>5, <1>6, <1>7 DEF ClientNext, PumpStep

-----------------------------------------------------------------------------
(* The loop, the VM and the port forwards.                                   *)

(* The request the loop reads was not read before.                           *)
LEMMA NextRequestUnread ==
  ASSUME WireTypeOK, NextLine("request"), \A c \in Calls : RequestOnce(c),
         Head(toServer).id \in Calls
  PROVE  Unread(Head(toServer).id)
<1>1. 1 \in 1..Len(toServer) /\ Head(toServer) = toServer[1]
  BY NextLineType
<1>2. Head(toServer).m = "request"
  BY DEF NextLine
<1> QED
  BY <1>1, <1>2 DEF RequestOnce, Lines

(* Types and the part of the invariant about the handler alone.              *)
HandlerInv == LoopInv /\ VMInv /\ ForwardInv

HandlerCore ==
    /\ HandlerTypeOK /\ KindsKnown /\ HandlerInv
    /\ \A c \in Calls : RequestOnce(c)

(* The steps of the loop keep the handler's invariant.                       *)
LEMMA LoopStepInv ==
  ASSUME HandlerCore, LoopStep, ~exited
  PROVE  HandlerInv'
<1>0. /\ WireTypeOK /\ ~exited /\ loop \in LoopPCs /\ line \in ServerLine /\ line.id \in Ids
      /\ loopVM \in Calls \cup {None} /\ loopPF \in Calls \cup {None}
      /\ hpc \in [Calls -> RequestPCs] /\ vm \in Calls \cup {None}
      /\ pf \in Calls \cup {None} /\ pfMu \in Calls \cup {None}
      /\ openPF \subseteq Calls /\ openVMs \subseteq Calls
      /\ KindsKnown /\ LoopInv /\ VMInv /\ ForwardInv
      /\ \A c \in Calls : RequestOnce(c)
  BY DEF HandlerCore, HandlerInv, HandlerTypeOK, ServerLine
<1> USE DEF LoopPCs, Serving, Exclusive, InFlight, loopVars, goVars, vmVars, pfVars,
            inVars, wireVars, LoopBack, HGoto
<1>1. CASE ReadCancel
  <2>5. LoopInv'
    BY <1>0, <1>1
    DEF ReadCancel, NextLine, LoopInv
  <2>6. VMInv'
    BY <1>0, <1>1
    DEF ReadCancel, NextLine, LoopInv, VMInv, RequestsRunOnOpenVM
  <2>7. ForwardInv'
    BY <1>0, <1>1
    DEF ReadCancel, NextLine, LoopInv, ForwardInv, ForwardPCs
  <2> QED
    BY <2>5, <2>6, <2>7 DEF HandlerInv
<1>2. CASE ReadSynchronous
  <2>1. NextLine("request")
    BY <1>2 DEF ReadSynchronous
  <2>2. /\ Head(toServer).id \in Ids /\ Head(toServer) = toServer[1]
        /\ 1 \in 1..Len(toServer) /\ Head(toServer).n \in 0..EOF
        /\ loop = "scan" /\ ~closed /\ Head(toServer).m = "request"
    BY <1>0, <2>1, NextLineType DEF NextLine
  <2>3. Head(toServer).id \in Calls => Unread(Head(toServer).id)
    BY <1>0, <2>1, NextRequestUnread
  <2>5. LoopInv'
    BY <1>0, <1>2, <2>2, <2>3
    DEF ReadSynchronous, Synchronous, KindsKnown, Ids, Unread, LoopInv
  <2>6. VMInv'
    BY <1>0, <1>2, <2>2, <2>3
    DEF ReadSynchronous, Synchronous, KindsKnown, Ids, Unread, LoopInv, VMInv, RequestsRunOnOpenVM
  <2>7. ForwardInv'
    BY <1>0, <1>2, <2>2, <2>3
    DEF ReadSynchronous, Synchronous, KindsKnown, Ids, Unread, LoopInv, ForwardInv, ForwardPCs
  <2> QED
    BY <2>5, <2>6, <2>7 DEF HandlerInv
<1>3. CASE ReadRequest
  <2>1. NextLine("request")
    BY <1>3 DEF ReadRequest
  <2>2. /\ Head(toServer).id \in Ids /\ Head(toServer) = toServer[1]
        /\ 1 \in 1..Len(toServer) /\ Head(toServer).n \in 0..EOF
        /\ loop = "scan" /\ ~closed /\ Head(toServer).m = "request"
    BY <1>0, <2>1, NextLineType DEF NextLine
  <2>3. Head(toServer).id \in Calls => Unread(Head(toServer).id)
    BY <1>0, <2>1, NextRequestUnread
  <2>4. Head(toServer).id \in Calls
    BY <1>0, <1>3, <2>2, OtherRequests DEF ReadRequest
  <2>5. LoopInv'
    BY <1>0, <1>3, <2>2, <2>3, <2>4
    DEF ReadRequest, Unread, LoopInv
  <2>6. VMInv'
    BY <1>0, <1>3, <2>2, <2>3, <2>4
    DEF ReadRequest, Unread, LoopInv, VMInv, RequestsRunOnOpenVM
  <2>7. ForwardInv'
    BY <1>0, <1>3, <2>2, <2>3, <2>4
    DEF ReadRequest, Unread, LoopInv, ForwardInv, ForwardPCs
  <2> QED
    BY <2>5, <2>6, <2>7 DEF HandlerInv
<1>4. CASE ReadInput
  <2>1. NextLine("stdin")
    BY <1>4 DEF ReadInput
  <2>2. /\ Head(toServer).id \in Ids /\ Head(toServer) = toServer[1]
        /\ 1 \in 1..Len(toServer) /\ Head(toServer).n \in 0..EOF
        /\ loop = "scan" /\ ~closed /\ Head(toServer).m = "stdin"
    BY <1>0, <2>1, NextLineType DEF NextLine
  <2>3. toServer[1].id \in Calls /\ toServer[1].n >= 1
    BY <1>0, <2>2 DEF KindsKnown
  <2>5. LoopInv'
    BY <1>0, <1>4, <2>2, <2>3
    DEF ReadInput, LoopInv
  <2>6. VMInv'
    BY <1>0, <1>4, <2>2, <2>3
    DEF ReadInput, LoopInv, VMInv, RequestsRunOnOpenVM
  <2>7. ForwardInv'
    BY <1>0, <1>4, <2>2, <2>3
    DEF ReadInput, LoopInv, ForwardInv, ForwardPCs
  <2> QED
    BY <2>5, <2>6, <2>7 DEF HandlerInv
<1>5. CASE SendInput
  <2>5. LoopInv'
    BY <1>0, <1>5
    DEF SendInput, LoopInv
  <2>6. VMInv'
    BY <1>0, <1>5
    DEF SendInput, LoopInv, VMInv, RequestsRunOnOpenVM
  <2>7. ForwardInv'
    BY <1>0, <1>5
    DEF SendInput, LoopInv, ForwardInv, ForwardPCs
  <2> QED
    BY <2>5, <2>6, <2>7 DEF HandlerInv
<1>6. CASE ReadEnds
  <2>5. LoopInv'
    BY <1>0, <1>6
    DEF ReadEnds, LoopInv
  <2>6. VMInv'
    BY <1>0, <1>6
    DEF ReadEnds, LoopInv, VMInv, RequestsRunOnOpenVM
  <2>7. ForwardInv'
    BY <1>0, <1>6
    DEF ReadEnds, LoopInv, ForwardInv, ForwardPCs
  <2> QED
    BY <2>5, <2>6, <2>7 DEF HandlerInv
<1>7. CASE RunReturns
  <2>5. LoopInv'
    BY <1>0, <1>7
    DEF RunReturns, ProcessEnds, LoopInv
  <2>6. VMInv'
    BY <1>0, <1>7
    DEF RunReturns, ProcessEnds, LoopInv, VMInv, RequestsRunOnOpenVM
  <2>7. ForwardInv'
    BY <1>0, <1>7
    DEF RunReturns, ProcessEnds, LoopInv, ForwardInv, ForwardPCs
  <2> QED
    BY <2>5, <2>6, <2>7 DEF HandlerInv
<1>8. CASE WaitInFlight
  <2>5. LoopInv'
    BY <1>0, <1>8
    DEF WaitInFlight, LoopInv
  <2>6. VMInv'
    BY <1>0, <1>8
    DEF WaitInFlight, LoopInv, VMInv, RequestsRunOnOpenVM
  <2>7. ForwardInv'
    BY <1>0, <1>8
    DEF WaitInFlight, LoopInv, ForwardInv, ForwardPCs
  <2> QED
    BY <2>5, <2>6, <2>7 DEF HandlerInv
<1>9. CASE CreateRefused
  <2>5. LoopInv'
    BY <1>0, <1>9
    DEF CreateRefused, LoopInv
  <2>6. VMInv'
    BY <1>0, <1>9
    DEF CreateRefused, LoopInv, VMInv, RequestsRunOnOpenVM
  <2>7. ForwardInv'
    BY <1>0, <1>9
    DEF CreateRefused, LoopInv, ForwardInv, ForwardPCs
  <2> QED
    BY <2>5, <2>6, <2>7 DEF HandlerInv
<1>10. CASE Factory
  <2>5. LoopInv'
    BY <1>0, <1>10
    DEF Factory, KindsKnown, Ids, LoopInv
  <2>6. VMInv'
    BY <1>0, <1>10
    DEF Factory, KindsKnown, Ids, LoopInv, VMInv, RequestsRunOnOpenVM
  <2>7. ForwardInv'
    BY <1>0, <1>10
    DEF Factory, KindsKnown, Ids, LoopInv, ForwardInv, ForwardPCs
  <2> QED
    BY <2>5, <2>6, <2>7 DEF HandlerInv
<1>11. CASE StartFails
  <2>5. LoopInv'
    BY <1>0, <1>11
    DEF StartFails, KindsKnown, Ids, LoopInv
  <2>6. VMInv'
    BY <1>0, <1>11
    DEF StartFails, KindsKnown, Ids, LoopInv, VMInv, RequestsRunOnOpenVM
  <2>7. ForwardInv'
    BY <1>0, <1>11
    DEF StartFails, KindsKnown, Ids, LoopInv, ForwardInv, ForwardPCs
  <2> QED
    BY <2>5, <2>6, <2>7 DEF HandlerInv
<1>12. CASE StartSucceeds
  <2>5. LoopInv'
    BY <1>0, <1>12
    DEF StartSucceeds, KindsKnown, Ids, LoopInv
  <2>6. VMInv'
    BY <1>0, <1>12
    DEF StartSucceeds, KindsKnown, Ids, LoopInv, VMInv, RequestsRunOnOpenVM
  <2>7. ForwardInv'
    BY <1>0, <1>12
    DEF StartSucceeds, KindsKnown, Ids, LoopInv, ForwardInv, ForwardPCs
  <2> QED
    BY <2>5, <2>6, <2>7 DEF HandlerInv
<1>13. CASE CloseTakes
  <2>5. LoopInv'
    BY <1>0, <1>13
    DEF CloseTakes, LoopInv
  <2>6. VMInv'
    BY <1>0, <1>13
    DEF CloseTakes, LoopInv, VMInv, RequestsRunOnOpenVM
  <2>7. ForwardInv'
    BY <1>0, <1>13
    DEF CloseTakes, LoopInv, ForwardInv, ForwardPCs
  <2> QED
    BY <2>5, <2>6, <2>7 DEF HandlerInv
<1>14. CASE ClosePortForwards
  <2>5. LoopInv'
    BY <1>0, <1>14
    DEF ClosePortForwards, LoopInv
  <2>6. VMInv'
    BY <1>0, <1>14
    DEF ClosePortForwards, LoopInv, VMInv, RequestsRunOnOpenVM
  <2>7. ForwardInv'
    BY <1>0, <1>14
    DEF ClosePortForwards, LoopInv, ForwardInv, ForwardPCs
  <2> QED
    BY <2>5, <2>6, <2>7 DEF HandlerInv
<1>15. CASE CloseVM
  <2>5. LoopInv'
    BY <1>0, <1>15
    DEF CloseVM, LoopInv
  <2>6. VMInv'
    BY <1>0, <1>15
    DEF CloseVM, LoopInv, VMInv, RequestsRunOnOpenVM
  <2>7. ForwardInv'
    BY <1>0, <1>15
    DEF CloseVM, LoopInv, ForwardInv, ForwardPCs
  <2> QED
    BY <2>5, <2>6, <2>7 DEF HandlerInv
<1> QED
  BY <1>1, <1>2, <1>3, <1>4, <1>5, <1>6, <1>7, <1>8, <1>9, <1>10, <1>11, <1>12, <1>13, <1>14, <1>15 DEF LoopStep

\* What a step of the goroutine of r, or of its command, may do.
VMPCs == {"ready", "running", "replace", "listen", "install"}

GoEffect(r) ==
    /\ UNCHANGED <<kind, toServer, stdinClosed, exited, loopVars, runDone, vmVars>>
    /\ \A q \in Calls \ {r} : hpc'[q] = hpc[q]
    /\ hpc[r] \notin {"none", "done"} /\ hpc'[r] \notin {"none", "spawned"}
    /\ hpc'[r] \in VMPCs => hpc[r] \in VMPCs \/ vm # None
    /\ \/ UNCHANGED pfVars /\ hpc[r] \notin ForwardPCs /\ hpc'[r] \notin ForwardPCs
       \/ BeginForward(r) \/ ReplaceForward(r) \/ Listen(r) \/ ListenFails(r)
       \/ Install(r)

(* The steps of a request are of these kinds.                                *)
LEMMA GoStepEffect ==
  ASSUME HandlerTypeOK, NEW r \in Calls,
         RequestStep(r) \/ ReadStdin(r) \/ CommandEnds(r)
  PROVE  GoEffect(r)
<1>0. hpc \in [Calls -> RequestPCs]
  BY DEF HandlerTypeOK
<1> USE DEF GoEffect, VMPCs, ForwardPCs, HGoto, wireVars, loopVars, goVars, vmVars,
            pfVars, inVars
<1>1. CASE RegisterCancel(r)
  BY <1>0, <1>1 DEF RegisterCancel
<1>2. CASE Refused(r)
  BY <1>0, <1>2 DEF Refused
<1>3. CASE BeginExec(r)
  BY <1>0, <1>3 DEF BeginExec, Enters
<1>4. CASE BeginCall(r)
  BY <1>0, <1>4 DEF BeginCall, Enters
<1>5. CASE BeginFollow(r)
  BY <1>0, <1>5 DEF BeginFollow, Enters
<1>6. CASE BeginExecPipe(r)
  BY <1>0, <1>6 DEF BeginExecPipe, OpensStdin
<1>7. CASE BeginExecTTY(r)
  BY <1>0, <1>7 DEF BeginExecTTY, OpensStdin
<1>8. CASE SendReady(r)
  BY <1>0, <1>8 DEF SendReady, Emit
<1>9. CASE CommandCancelled(r)
  BY <1>0, <1>9 DEF CommandCancelled, EndRunning
<1>10. CASE Respond(r)
  BY <1>0, <1>10 DEF Respond, Emit
<1>11. CASE BeginForward(r)
  BY <1>0, <1>11 DEF BeginForward
<1>12. CASE ReplaceForward(r)
  BY <1>0, <1>12 DEF ReplaceForward
<1>13. CASE Listen(r)
  BY <1>0, <1>13 DEF Listen
<1>14. CASE ListenFails(r)
  BY <1>0, <1>14 DEF ListenFails
<1>15. CASE Install(r)
  BY <1>0, <1>15 DEF Install
<1>16. CASE ReadStdin(r)
  BY <1>0, <1>16 DEF ReadStdin
<1>17. CASE CommandEnds(r)
  BY <1>0, <1>17 DEF CommandEnds, EndRunning
<1> QED
  BY <1>1, <1>2, <1>3, <1>4, <1>5, <1>6, <1>7, <1>8, <1>9, <1>10, <1>11, <1>12, <1>13, <1>14, <1>15, <1>16, <1>17 DEF RequestStep

(* They keep the handler's invariant.                                        *)
LEMMA GoStepInv ==
  ASSUME HandlerCore, ~exited, NEW r \in Calls, GoEffect(r)
  PROVE  HandlerInv'
<1>0. /\ hpc \in [Calls -> RequestPCs] /\ vm \in Calls \cup {None}
      /\ pf \in Calls \cup {None} /\ pfMu \in Calls \cup {None}
      /\ openPF \subseteq Calls /\ openVMs \subseteq Calls
      /\ LoopInv /\ VMInv /\ ForwardInv
  BY DEF HandlerCore, HandlerInv, HandlerTypeOK
<1>1. /\ UNCHANGED <<kind, exited, loop, line, loopVM, loopPF, closed, vm, openVMs>>
      /\ \A q \in Calls \ {r} : hpc'[q] = hpc[q]
      /\ hpc[r] \notin {"none", "done"} /\ hpc'[r] \notin {"none", "spawned"}
      /\ hpc'[r] \in VMPCs => hpc[r] \in VMPCs \/ vm # None
  BY DEF GoEffect, loopVars, vmVars
<1>2. loop \notin Exclusive
  BY <1>0, <1>1 DEF LoopInv, InFlight
<1>3. LoopInv'
  BY <1>0, <1>1, <1>2 DEF LoopInv, InFlight
<1>4. VMInv'
  BY <1>0, <1>1, <1>2 DEF VMInv, RequestsRunOnOpenVM, VMPCs
<1>5. ForwardInv'
  <2>0. loop \notin {"closePF", "closeVM"} /\ loopPF = None
    BY <1>0, <1>2 DEF Exclusive, Serving, ForwardInv
  <2>1. CASE UNCHANGED pfVars /\ hpc[r] \notin ForwardPCs /\ hpc'[r] \notin ForwardPCs
    BY <1>0, <1>1, <2>0, <2>1 DEF ForwardInv, pfVars, ForwardPCs
  <2>2. CASE BeginForward(r)
    BY <1>0, <1>1, <2>0, <2>2 DEF ForwardInv, BeginForward, HGoto, ForwardPCs
  <2>3. CASE ReplaceForward(r)
    BY <1>0, <1>1, <2>0, <2>3 DEF ForwardInv, ReplaceForward, HGoto, ForwardPCs
  <2>4. CASE Listen(r)
    BY <1>0, <1>1, <2>0, <2>4 DEF ForwardInv, Listen, HGoto, ForwardPCs
  <2>5. CASE ListenFails(r)
    BY <1>0, <1>1, <2>0, <2>5 DEF ForwardInv, ListenFails, HGoto, ForwardPCs
  <2>6. CASE Install(r)
    BY <1>0, <1>1, <2>0, <2>6 DEF ForwardInv, Install, HGoto, ForwardPCs
  <2> QED
    BY <2>1, <2>2, <2>3, <2>4, <2>5, <2>6 DEF GoEffect
<1> QED
  BY <1>3, <1>4, <1>5 DEF HandlerInv

(* A process that ends has nothing left to keep in order.                    *)
LEMMA ProcessEndsInv ==
  ASSUME ProcessEnds
  PROVE  HandlerInv'
<1>1. LoopInv' /\ ForwardInv'
  BY DEF ProcessEnds, LoopInv, ForwardInv, Serving, Exclusive, InFlight, ForwardPCs
<1>2. VMInv'
  BY DEF ProcessEnds, VMInv, RequestsRunOnOpenVM
<1> QED
  BY <1>1, <1>2 DEF HandlerInv

(* Every step of the handler keeps its invariant.                            *)
LEMMA HandlerStepInv ==
  ASSUME HandlerCore, HandlerNext
  PROVE  HandlerInv'
<1>1. CASE EntryEnds \/ Signalled
  <2>1. UNCHANGED <<kind, exited, loop, line, loopVM, loopPF, closed, vm, openVMs, hpc,
                    pf, openPF, pfMu>>
    BY <1>1 DEF EntryEnds, Signalled, wireVars, loopVars, goVars, vmVars, pfVars
  <2> QED
    BY <2>1 DEF HandlerCore, HandlerInv, LoopInv, VMInv, ForwardInv,
                RequestsRunOnOpenVM, InFlight
<1> QED
  BY <1>1, LoopStepInv, GoStepEffect, GoStepInv DEF HandlerNext, HandlerCore

(* What a step of the handler may do to its stdin.                           *)
LEMMA HandlerReads ==
  ASSUME HandlerTypeOK, HandlerNext
  PROVE  /\ UNCHANGED <<kind, stdinClosed>>
         /\ \/ toServer' \in {toServer, <<>>}
            \/ toServer # <<>> /\ toServer' = Tail(toServer)
<1>1. CASE EntryEnds \/ Signalled
  BY <1>1 DEF EntryEnds, Signalled, wireVars
<1>2. CASE LoopStep
  BY <1>2 DEF LoopStep, ReadCancel, ReadSynchronous, ReadRequest, ReadInput, SendInput,
              ReadEnds, RunReturns, WaitInFlight, CreateRefused, Factory, StartFails,
              StartSucceeds, CloseTakes, ClosePortForwards, CloseVM, NextLine,
              ProcessEnds, wireVars
<1> QED
  BY <1>1, <1>2, GoStepEffect DEF HandlerNext, GoEffect

(* Methods do not change, and chunks are numbered from 1.                    *)
LEMMA KindsStep ==
  ASSUME SessionTypeOK, KindsKnown, UNCHANGED kind,
         \/ toServer' \in {toServer, <<>>}
         \/ toServer # <<>> /\ toServer' = Tail(toServer)
         \/ \E c \in Ids : WriteLine("request", c, 0) \/ WriteLine("cancel", c, 0)
         \/ \E c \in Calls : WriteLine("stdin", c, sent[c] + 1)
  PROVE  KindsKnown'
<1>0. /\ toServer \in Seq(ServerLine) /\ Len(toServer) \in Nat
      /\ \A c \in Calls : sent[c] \in Nat
  <2>1. toServer \in Seq(ServerLine) /\ sent \in [Calls -> 0..EOF]
    BY DEF SessionTypeOK, HandlerTypeOK, WireTypeOK, ClientTypeOK
  <2> QED
    BY <2>1
<1> SUFFICES ASSUME NEW i \in 1..Len(toServer'), toServer'[i].m = "stdin"
             PROVE  toServer'[i].id \in Calls /\ toServer'[i].n >= 1
  BY DEF KindsKnown
<1>1. CASE toServer' \in {toServer, <<>>}
  BY <1>1 DEF KindsKnown
<1>2. CASE toServer # <<>> /\ toServer' = Tail(toServer)
  <2>1. i + 1 \in 1..Len(toServer) /\ toServer'[i] = toServer[i + 1]
    BY <1>0, <1>2, TailFacts
  <2> QED
    BY <2>1 DEF KindsKnown
<1>3. ASSUME NEW l \in ServerLine, toServer' = Append(toServer, l)
      PROVE  (i \in 1..Len(toServer) /\ toServer'[i] = toServer[i]) \/ toServer'[i] = l
  BY <1>0, <1>3, AppendFacts
<1>4. ASSUME NEW c \in Ids, WriteLine("request", c, 0) \/ WriteLine("cancel", c, 0)
      PROVE  toServer'[i].id \in Calls /\ toServer'[i].n >= 1
  <2>1. PICK m \in {"request", "cancel"} : WriteLine(m, c, 0)
    BY <1>4
  <2> DEFINE l == [m |-> m, id |-> c, n |-> 0]
  <2>2. l \in ServerLine /\ l.m # "stdin" /\ toServer' = Append(toServer, l)
    BY <2>1 DEF WriteLine, ServerLine, EOF
  <2> HIDE DEF l
  <2> QED
    BY <1>3, <2>2 DEF KindsKnown
<1>5. ASSUME NEW c \in Calls, WriteLine("stdin", c, sent[c] + 1)
      PROVE  toServer'[i].id \in Calls /\ toServer'[i].n >= 1
  <2> DEFINE l == [m |-> "stdin", id |-> c, n |-> sent[c] + 1]
  <2>1. l.id = c /\ l.n = sent[c] + 1 /\ toServer' = Append(toServer, l)
    BY <1>5 DEF WriteLine
  <2> HIDE DEF l
  <2>2. (i \in 1..Len(toServer) /\ toServer'[i] = toServer[i]) \/ toServer'[i] = l
    BY <1>0, <2>1
  <2> QED
    BY <1>0, <2>1, <2>2 DEF KindsKnown
<1> QED
  BY <1>1, <1>2, <1>4, <1>5


-----------------------------------------------------------------------------
(* A request is written once and read once.                                  *)

(* A request the handler has not read stays so until the loop reads it.      *)
LEMMA UnreadStep ==
  ASSUME HandlerTypeOK, LoopInv, HandlerNext, ~exited', NEW c \in Calls, Unread(c),
         ~(NextLine("request") /\ Head(toServer).id = c)
  PROVE  Unread(c)'
<1>0. /\ hpc \in [Calls -> RequestPCs] /\ loop \in LoopPCs /\ line \in ServerLine
      /\ hpc[c] = "none" /\ c # vm /\ c \notin openVMs /\ c # None
      /\ loop \in Serving => line.id # c
  BY DEF HandlerTypeOK, Unread
<1>1. CASE LoopStep
  <2> USE DEF Unread, Serving, LoopBack, HGoto, loopVars, goVars, vmVars, pfVars,
              inVars, wireVars
  <2>1. CASE ReadCancel
    BY <1>0, <2>1 DEF ReadCancel, NextLine
  <2>2. CASE ReadSynchronous
    BY <1>0, <2>2 DEF ReadSynchronous
  <2>3. CASE ReadRequest
    BY <1>0, <2>3 DEF ReadRequest
  <2>4. CASE ReadInput
    BY <1>0, <2>4 DEF ReadInput, NextLine
  <2>5. CASE SendInput
    BY <1>0, <2>5 DEF SendInput
  <2>6. CASE ReadEnds
    BY <1>0, <2>6 DEF ReadEnds
  <2>7. CASE RunReturns
    BY <1>0, <2>7 DEF RunReturns, ProcessEnds
  <2>8. CASE WaitInFlight
    BY <1>0, <2>8 DEF WaitInFlight
  <2>9. CASE CreateRefused
    BY <1>0, <2>9 DEF CreateRefused
  <2>10. CASE Factory
    BY <1>0, <2>10 DEF Factory
  <2>11. CASE StartFails
    BY <1>0, <2>11 DEF StartFails
  <2>12. CASE StartSucceeds
    BY <1>0, <2>12 DEF StartSucceeds
  <2>13. CASE CloseTakes
    BY <1>0, <2>13 DEF CloseTakes
  <2>14. CASE ClosePortForwards
    BY <1>0, <2>14 DEF ClosePortForwards
  <2>15. CASE CloseVM
    BY <1>0, <2>15 DEF CloseVM
  <2> QED
    BY <1>1, <2>1, <2>2, <2>3, <2>4, <2>5, <2>6, <2>7, <2>8, <2>9, <2>10, <2>11, <2>12, <2>13, <2>14, <2>15 DEF LoopStep
<1>2. ASSUME NEW r \in Calls, GoEffect(r)
      PROVE  Unread(c)'
  <2>1. /\ UNCHANGED <<loop, line, vm, openVMs>>
        /\ \A q \in Calls \ {r} : hpc'[q] = hpc[q]
        /\ hpc[r] # "none"
    BY <1>2 DEF GoEffect, loopVars, vmVars
  <2> QED
    BY <1>0, <2>1 DEF Unread
<1>3. CASE EntryEnds \/ Signalled
  BY <1>0, <1>3 DEF EntryEnds, Signalled, loopVars, goVars, vmVars, Unread
<1> QED
  BY <1>1, <1>2, <1>3, GoStepEffect DEF HandlerNext

(* The handler's steps keep the discipline of requests.                      *)
LEMMA RequestOnceHandler ==
  ASSUME HandlerTypeOK, LoopInv, HandlerNext, ~exited', UNCHANGED clientVars,
         NEW c \in Calls, RequestOnce(c)
  PROVE  RequestOnce(c)'
<1>0. toServer \in Seq(ServerLine) /\ UNCHANGED cpc
  BY DEF HandlerTypeOK, WireTypeOK, clientVars
<1>1. /\ Lines("request", c)' # {} => Lines("request", c) # {}
      /\ \A i, j \in Lines("request", c)' : i = j
  <2>1. CASE toServer' = toServer
    <3>1. Lines("request", c)' = Lines("request", c)
      BY <2>1 DEF Lines
    <3> QED
      BY <3>1 DEF RequestOnce
  <2>2. CASE toServer' = <<>>
    BY <2>2 DEF Lines
  <2>3. CASE toServer # <<>> /\ toServer' = Tail(toServer)
    <3>1. /\ \A i \in Lines("request", c)' : i + 1 \in Lines("request", c)
          /\ \A i \in Lines("request", c)' : i \in Nat
      BY <1>0, <2>3, LinesAfterRead DEF Lines
    <3> QED
      BY <3>1 DEF RequestOnce
  <2> QED
    BY <2>1, <2>2, <2>3, HandlerReads
<1>2. CASE NextLine("request") /\ Head(toServer).id = c
  <2>1. toServer # <<>> /\ toServer' = Tail(toServer) /\ Head(toServer).m = "request"
    BY <1>2 DEF NextLine
  <2>2. 1 \in Lines("request", c)
    BY <1>0, <1>2, <2>1, LinesAfterRead
  <2>3. Lines("request", c)' = {}
    <3>1. \A i \in Lines("request", c)' : i + 1 \in Lines("request", c) /\ i \in 1..Len(toServer')
      BY <1>0, <2>1, LinesAfterRead DEF Lines
    <3> QED
      BY <2>2, <3>1 DEF RequestOnce
  <2>4. cpc[c] \notin {"idle", "write"}
    BY <2>2 DEF RequestOnce
  <2> QED
    BY <1>0, <2>3, <2>4 DEF RequestOnce
<1>3. CASE ~(NextLine("request") /\ Head(toServer).id = c)
  <2>1. Unread(c) => Unread(c)'
    BY <1>3, UnreadStep
  <2> QED
    BY <1>0, <1>1, <2>1 DEF RequestOnce
<1> QED
  BY <1>2, <1>3

(* The client's steps do so too.                                             *)
LEMMA RequestOnceClient ==
  ASSUME WireTypeOK, ClientTypeOK, ClientInv, ClientEffect, UNCHANGED handlerVars,
         NEW c \in Calls, RequestOnce(c)
  PROVE  RequestOnce(c)'
<1>0. /\ toServer \in Seq(ServerLine) /\ cpc \in [Ids -> CallPCs] /\ c \in Ids
      /\ sent \in [Calls -> 0..EOF] /\ 0 \in 0..EOF /\ EOF \in Nat
  BY DEF WireTypeOK, ClientTypeOK, Ids, EOF
<1>1. Unread(c)' <=> Unread(c)
  BY DEF handlerVars, Unread
<1>2. ASSUME cpc'[c] \in {"idle", "write"} => cpc[c] \in {"idle", "write"},
             Lines("request", c)' = Lines("request", c)
      PROVE  RequestOnce(c)'
  BY <1>1, <1>2 DEF RequestOnce
<1>3. ASSUME NEW l \in ServerLine, toServer' = Append(toServer, l), l.m # "request" \/ l.id # c,
             cpc'[c] \in {"idle", "write"} => cpc[c] \in {"idle", "write"}
      PROVE  RequestOnce(c)'
  <2>1. Lines("request", c)' = Lines("request", c)
    BY <1>0, <1>3, LinesAfterWrite
  <2> QED
    BY <1>2, <1>3, <2>1
<1>4. CASE toServer' = toServer /\ CallsMoveOn
  <2>1. Lines("request", c)' = Lines("request", c)
    BY <1>4 DEF Lines
  <2> QED
    BY <1>0, <1>2, <1>4, <2>1 DEF CallsMoveOn
<1>5. ASSUME NEW e \in Ids, WritesRequest(e)
      PROVE  RequestOnce(c)'
  <2> DEFINE l == [m |-> "request", id |-> e, n |-> 0]
  <2>1. l \in ServerLine /\ l.m = "request" /\ l.id = e /\ toServer' = Append(toServer, l)
    BY <1>0, <1>5, WriteLineType DEF WritesRequest
  <2>2. cpc[e] \in {"idle", "write"} /\ cpc' = [cpc EXCEPT ![e] = "wait"]
    BY <1>5 DEF WritesRequest
  <2> HIDE DEF l
  <2>3. CASE e = c
    <3>1. Lines("request", c) = {} /\ Unread(c)
      BY <2>2, <2>3 DEF RequestOnce
    <3>2. Lines("request", c)' = {Len(toServer) + 1}
      BY <1>0, <2>1, <2>3, <3>1, LinesAfterWrite
    <3> QED
      BY <1>0, <1>1, <2>2, <2>3, <3>1, <3>2 DEF RequestOnce
  <2>4. CASE e # c
    BY <1>0, <1>3, <2>1, <2>2, <2>4
  <2> QED
    BY <2>3, <2>4
<1>6. ASSUME NEW e \in Ids, WritesCancel(e)
      PROVE  RequestOnce(c)'
  <2> DEFINE l == [m |-> "cancel", id |-> e, n |-> 0]
  <2>1. l \in ServerLine /\ l.m = "cancel" /\ toServer' = Append(toServer, l)
    BY <1>0, <1>6, WriteLineType DEF WritesCancel
  <2>2. cpc' = [cpc EXCEPT ![e] = "leave"]
    BY <1>6 DEF WritesCancel
  <2> HIDE DEF l
  <2> QED
    BY <1>0, <1>3, <2>1, <2>2
<1>7. ASSUME NEW e \in Calls, PumpSends(e)
      PROVE  RequestOnce(c)'
  <2> DEFINE l == [m |-> "stdin", id |-> e, n |-> sent[e] + 1]
  <2>1. sent[e] + 1 \in 0..EOF /\ e \in Ids
    BY <1>0, <1>7 DEF PumpSends, ClientInv, Ids
  <2>2. l \in ServerLine /\ l.m = "stdin" /\ toServer' = Append(toServer, l)
    BY <1>7, <2>1, WriteLineType DEF PumpSends
  <2>3. cpc' = cpc
    BY <1>7 DEF PumpSends, callVars
  <2> HIDE DEF l
  <2> QED
    BY <1>0, <1>3, <2>2, <2>3
<1> QED
  BY <1>4, <1>5, <1>6, <1>7 DEF ClientEffect


-----------------------------------------------------------------------------
(* Stdin.                                                                    *)

\* A step that leaves the input of r as it is: the handler's part of it,
InputSame(r) ==
    /\ hpc'[r] \in EarlyPCs => hpc[r] \in EarlyPCs
    /\ r \in Sessions' <=> r \in Sessions
    /\ got'[r] = got[r] /\ chan'[r] = chan[r]
    /\ r \in Sessions /\ Cancelled(r) => Cancelled(r)'
    /\ loop' = "send" /\ line'.id = r <=> loop = "send" /\ line.id = r
    /\ loop' = "send" /\ line'.id = r => line'.n = line.n

\* the announcements of r,
Announced(r) ==
    \E i \in 1..Len(toClient) : toClient[i].m = "ready" /\ toClient[i].id = r

ReadySame(r) == hpc'[r] \in EarlyPCs /\ Announced(r)' => Announced(r)

\* its pump,
PumpSame(r) ==
    \/ pump'[r] = pump[r] /\ sent'[r] = sent[r]
    \/ pump'[r] = "off"
    \/ /\ pump[r] = "wait" /\ pump'[r] = "send" /\ sent'[r] = sent[r]
       /\ ~exited => hpc'[r] \notin EarlyPCs

\* and its lines on the pipe, which may move up by one.
LinesMove(r, k) ==
    /\ \A i \in Lines("stdin", r)' : /\ i + k \in Lines("stdin", r)
                                     /\ toServer'[i].n = toServer[i + k].n
    /\ \A j \in Lines("stdin", r) : j - k \in Lines("stdin", r)'

(* Such a step keeps the input of r in order.                                *)
LEMMA InputKept ==
  ASSUME NEW r \in Calls, InputInv(r), InputSame(r), ReadySame(r), PumpSame(r),
         UNCHANGED exited, NEW k \in {0, 1}, LinesMove(r, k),
         \A i \in Lines("stdin", r) : i \in Nat,
         (\A i \in Lines("stdin", r) : i \in Nat)'
  PROVE  InputInv(r)'
<1>1. ~exited' /\ hpc'[r] \in EarlyPCs => NoInput(r)'
  <2> SUFFICES ASSUME ~exited, hpc'[r] \in EarlyPCs
               PROVE  NoInput(r)'
    OBVIOUS
  <2>1. NoInput(r)
    BY DEF InputInv, InputSame
  <2>2. Lines("stdin", r)' = {}
    BY <2>1 DEF LinesMove, NoInput
  <2>3. ~Announced(r)'
    BY <2>1 DEF ReadySame, NoInput, Announced
  <2> QED
    BY <2>1, <2>2, <2>3 DEF NoInput, InputSame, PumpSame, Announced
<1>2. r \notin Sessions' => got'[r] = <<>> /\ chan'[r] = <<>>
  BY DEF InputSame, InputInv
<1>3. r \in Sessions' => ReadInOrder(r)'
  BY DEF InputSame, InputInv, ReadInOrder, AtEOF
<1>4. ASSUME r \in Sessions', ~AtEOF(r)'
      PROVE  PipeInOrder(r)'
  <2>1. PipeInOrder(r)
    BY <1>4 DEF InputInv, InputSame, AtEOF
  <2>2. NextChunk(r)' = NextChunk(r)
    BY DEF NextChunk, InputSame
  <2>3. loop' = "send" /\ line'.id = r => line'.n = NextChunk(r) - 1
    BY <2>1 DEF PipeInOrder, InputSame
  <2>4. \A i, j \in Lines("stdin", r)' : i < j => toServer'[i].n < toServer'[j].n
    BY <2>1 DEF PipeInOrder, LinesMove
  <2>5. \A i \in Lines("stdin", r) : toServer'[i - k].n = toServer[i].n
    BY DEF LinesMove
  <2>6. ASSUME NEW i \in Lines("stdin", r)'
        PROVE  /\ toServer'[i].n >= NextChunk(r)
               /\ \A n \in NextChunk(r)..toServer'[i].n :
                     \E j \in Lines("stdin", r)' : toServer'[j].n = n
    <3>1. i + k \in Lines("stdin", r) /\ toServer'[i].n = toServer[i + k].n
      BY DEF LinesMove
    <3>2. /\ toServer[i + k].n >= NextChunk(r)
          /\ \A n \in NextChunk(r)..toServer[i + k].n :
                \E j \in Lines("stdin", r) : toServer[j].n = n
      BY <2>1, <3>1 DEF PipeInOrder
    <3> QED
      BY <2>5, <3>1, <3>2 DEF LinesMove
  <2>7. ASSUME pump'[r] # "off"
        PROVE  /\ sent'[r] + 1 >= NextChunk(r)
               /\ \A i \in Lines("stdin", r)' : toServer'[i].n <= sent'[r]
               /\ \A n \in NextChunk(r)..sent'[r] :
                     \E j \in Lines("stdin", r)' : toServer'[j].n = n
    <3>1. pump[r] # "off" /\ sent'[r] = sent[r]
      BY <2>7 DEF PumpSame
    <3>2. /\ sent[r] + 1 >= NextChunk(r)
          /\ \A i \in Lines("stdin", r) : toServer[i].n <= sent[r]
          /\ \A n \in NextChunk(r)..sent[r] :
                \E j \in Lines("stdin", r) : toServer[j].n = n
      BY <2>1, <3>1 DEF PipeInOrder
    <3> QED
      BY <2>5, <3>1, <3>2 DEF LinesMove
  <2> QED
    BY <2>2, <2>3, <2>4, <2>6, <2>7 DEF PipeInOrder
<1> QED
  BY <1>1, <1>2, <1>3, <1>4 DEF InputInv

(* The lines of r when the pipe is not touched, when a line that is no chunk *)
(* of r is read, and when one is written.                                    *)
LEMMA LinesAreNumbers ==
  ASSUME NEW m, NEW c
  PROVE  /\ \A i \in Lines(m, c) : i \in Nat
         /\ (\A i \in Lines(m, c) : i \in Nat)'
BY DEF Lines

LEMMA LinesSame ==
  ASSUME NEW r \in Calls, Lines("stdin", r)' = Lines("stdin", r),
         \A i \in Lines("stdin", r) : toServer'[i] = toServer[i]
  PROVE  LinesMove(r, 0)
<1>1. \A i \in Lines("stdin", r) : i \in Nat
  BY LinesAreNumbers
<1> QED
  BY <1>1 DEF LinesMove

LEMMA LinesStay ==
  ASSUME UNCHANGED toServer, NEW r \in Calls
  PROVE  LinesMove(r, 0)
<1>1. Lines("stdin", r)' = Lines("stdin", r)
  BY DEF Lines
<1> QED
  BY <1>1, LinesSame

LEMMA LinesMoveUp ==
  ASSUME toServer \in Seq(ServerLine), toServer # <<>>, toServer' = Tail(toServer),
         NEW r \in Calls, Head(toServer).m = "stdin" => Head(toServer).id # r
  PROVE  LinesMove(r, 1)
<1>1. /\ \A i \in Lines("stdin", r)' : /\ i + 1 \in Lines("stdin", r)
                                       /\ toServer'[i] = toServer[i + 1]
      /\ \A i \in Lines("stdin", r) : i # 1 => i - 1 \in Lines("stdin", r)'
      /\ 1 \in Lines("stdin", r) <=> Head(toServer).m = "stdin" /\ Head(toServer).id = r
  BY LinesAfterRead
<1>2. 1 \notin Lines("stdin", r)
  BY <1>1
<1> QED
  BY <1>1, <1>2 DEF LinesMove

LEMMA LinesStayBehind ==
  ASSUME toServer \in Seq(ServerLine), NEW l \in ServerLine,
         toServer' = Append(toServer, l), NEW r \in Calls, l.m = "stdin" => l.id # r
  PROVE  LinesMove(r, 0)
<1>1. /\ ~(l.m = "stdin" /\ l.id = r) => Lines("stdin", r)' = Lines("stdin", r)
      /\ \A i \in Lines("stdin", r) : toServer'[i] = toServer[i]
  BY LinesAfterWrite, Zenon
<1>2. Lines("stdin", r)' = Lines("stdin", r)
  BY <1>1
<1> QED
  BY <1>1, <1>2, LinesSame

(* A line on stdout announces r only when it says so.                        *)
LEMMA EmitKeepsReady ==
  ASSUME WireTypeOK, NEW m \in {"response", "ready"}, NEW e \in Ids, NEW b \in BOOLEAN,
         Emit(m, e, b), NEW r, m = "response" \/ e # r
  PROVE  ReadySame(r)
<1> DEFINE l == [m |-> m, id |-> e, ok |-> b]
<1>1. l \in ClientLine /\ ~(l.m = "ready" /\ l.id = r) /\ toClient' = Append(toClient, l)
  BY DEF ClientLine, Emit
<1>2. toClient \in Seq(ClientLine)
  BY DEF WireTypeOK
<1> HIDE DEF l
<1>3. \A i \in 1..Len(toClient') :
         (i \in 1..Len(toClient) /\ toClient'[i] = toClient[i]) \/ toClient'[i] = l
  BY <1>1, <1>2, AppendFacts
<1> QED
  BY <1>1, <1>3 DEF ReadySame, Announced


\* The part of the invariant the input of a command depends on.
InputCore ==
    /\ SessionTypeOK /\ KindsKnown /\ LoopInv /\ ClientInv
    /\ exited \/ \A c \in Calls : RequestOnce(c)

(* A step of the loop that has nothing to do with stdin.                     *)
LEMMA LoopElsewhere ==
  ASSUME NEW r \in Calls, UNCHANGED <<kind, hpc, got, chan>>,
         ctxDone \subseteq ctxDone', runDone => runDone',
         loop # "send", loop' # "send"
  PROVE  InputSame(r)
BY DEF InputSame, Sessions, Cancelled

(* Stdout that is not written to.                                            *)
LEMMA ReadyStays ==
  ASSUME UNCHANGED toClient, NEW r
  PROVE  ReadySame(r)
BY DEF ReadySame, Announced

(* The process ends: there is no input left.                                 *)
LEMMA ProcessEndsInput ==
  ASSUME ProcessEnds, NEW r \in Calls
  PROVE  InputInv(r)'
BY DEF ProcessEnds, InputInv, Sessions

(* A chunk reaches the loop: it is the next one.                             *)
LEMMA ReadInputInOrder ==
  ASSUME InputCore, ~exited, ReadInput, UNCHANGED clientVars, NEW r \in Calls,
         Head(toServer).id = r, InputInv(r)
  PROVE  InputInv(r)'
<1>1. /\ toServer \in Seq(ServerLine) /\ toServer # <<>> /\ toServer' = Tail(toServer)
      /\ Head(toServer) = toServer[1] /\ Head(toServer).m = "stdin" /\ loop = "scan"
      /\ toServer' \in Seq(ServerLine) /\ Head(toServer).n \in Nat
  <2>1. NextLine("stdin") /\ WireTypeOK
    BY DEF ReadInput, InputCore, SessionTypeOK, HandlerTypeOK
  <2> QED
    BY <2>1, NextLineType DEF NextLine, WireTypeOK
<1>2. UNCHANGED <<kind, toClient, exited, hpc, ctxDone, runDone, got, chan, pump, sent>>
  BY DEF ReadInput, goVars, inVars, clientVars
<1>3. /\ \A i \in Lines("stdin", r)' : /\ i + 1 \in Lines("stdin", r)
                                       /\ toServer'[i] = toServer[i + 1]
                                       /\ i \in Nat /\ i >= 1
      /\ \A i \in Lines("stdin", r) : i # 1 => i - 1 \in Lines("stdin", r)'
      /\ \A i \in Lines("stdin", r) : i \in Nat /\ i >= 1
      /\ 1 \in Lines("stdin", r)
  <2>1. /\ \A i \in Lines("stdin", r)' : /\ i + 1 \in Lines("stdin", r)
                                         /\ toServer'[i] = toServer[i + 1]
        /\ \A i \in Lines("stdin", r) : i # 1 => i - 1 \in Lines("stdin", r)'
        /\ 1 \in Lines("stdin", r)
    BY <1>1, LinesAfterRead
  <2>2. /\ \A i \in Lines("stdin", r) : i \in Nat /\ i >= 1
        /\ \A i \in Lines("stdin", r)' : i \in Nat /\ i >= 1
    BY DEF Lines
  <2> QED
    BY <2>1, <2>2
<1>4. hpc[r] \notin EarlyPCs
  BY <1>3 DEF InputInv, NoInput
<1>5. r \in Sessions' <=> r \in Sessions
  BY <1>2 DEF Sessions
<1>6. ~AtEOF(r)' <=> ~AtEOF(r)
  BY <1>2 DEF AtEOF
<1>7. r \in Sessions => ReadInOrder(r)'
  BY <1>2, <1>6 DEF InputInv, ReadInOrder, Cancelled
<1>8. ASSUME r \in Sessions, ~AtEOF(r)
      PROVE  PipeInOrder(r)'
  <2>1. PipeInOrder(r)
    BY <1>8 DEF InputInv
  <2>2. loop' = "send" /\ line' = Head(toServer)
    BY <1>8 DEF ReadInput
  <2>3. /\ NextChunk(r) = Len(got[r]) + Len(chan[r]) + 1
        /\ NextChunk(r)' = Len(got[r]) + Len(chan[r]) + 2
    BY <1>1, <1>2, <2>2 DEF NextChunk
  <2>4. Len(got[r]) \in Nat /\ Len(chan[r]) \in Nat /\ sent[r] \in Nat
    <3>1. /\ got \in [Calls -> Seq(1..EOF)] /\ chan \in [Calls -> Seq(1..EOF)]
          /\ sent \in [Calls -> 0..EOF]
      BY DEF InputCore, SessionTypeOK, HandlerTypeOK, ClientTypeOK
    <3>2. got[r] \in Seq(1..EOF) /\ chan[r] \in Seq(1..EOF) /\ sent[r] \in 0..EOF
      BY <3>1
    <3> QED
      BY <3>2
  <2> DEFINE next == NextChunk(r)
             top == toServer[1].n
  <2>5. next \in Nat /\ NextChunk(r)' = next + 1 /\ top \in Nat
    <3>1. top \in Nat
      BY <1>1
    <3>2. /\ Len(got[r]) + Len(chan[r]) + 1 \in Nat
          /\ Len(got[r]) + Len(chan[r]) + 2 = Len(got[r]) + Len(chan[r]) + 1 + 1
      BY <2>4, SumFacts, Zenon
    <3>3. next \in Nat
      BY <2>3, <3>2, Zenon
    <3>4. NextChunk(r)' = NextChunk(r) + 1
      BY <2>3, <3>2, Zenon
    <3> QED
      BY <3>1, <3>3, <3>4, Zenon
  <2>6. \A j \in Lines("stdin", r) : j # 1 => top < toServer[j].n
    BY <1>3, <2>1 DEF PipeInOrder
  <2>7. /\ top >= next
        /\ \A n \in next..top : \E j \in Lines("stdin", r) : toServer[j].n = n
    BY <1>3, <2>1 DEF PipeInOrder
  <2>8. /\ \A i \in Lines("stdin", r) :
              /\ toServer[i].n >= next
              /\ \A n \in next..toServer[i].n :
                    \E j \in Lines("stdin", r) : toServer[j].n = n
        /\ \A i, j \in Lines("stdin", r) : i < j => toServer[i].n < toServer[j].n
        /\ pump[r] # "off" =>
              /\ sent[r] + 1 >= next
              /\ \A i \in Lines("stdin", r) : toServer[i].n <= sent[r]
              /\ \A n \in next..sent[r] :
                    \E j \in Lines("stdin", r) : toServer[j].n = n
        /\ \A i \in Lines("stdin", r) : toServer[i].n \in Nat
    <3>1. \A i \in Lines("stdin", r) : toServer[i] \in ServerLine
      BY <1>1 DEF Lines
    <3>2. \A l \in ServerLine : l.n \in Nat
      BY DEF ServerLine
    <3> QED
      BY <2>1, <3>1, <3>2 DEF PipeInOrder
  <2> HIDE DEF next, top
  <2>9. top = next
    BY <1>3, <2>5, <2>6, <2>7
  <2>10. \A j \in Lines("stdin", r) :
            toServer[j].n > top => /\ j - 1 \in Lines("stdin", r)'
                                   /\ toServer'[j - 1].n = toServer[j].n
    BY <1>3, <2>5 DEF top
  <2>11. /\ \A i, j \in Lines("stdin", r)' : i < j => toServer'[i].n < toServer'[j].n
         /\ \A i \in Lines("stdin", r)' : toServer'[i].n > top
    BY <1>3, <2>6, <2>8
  <2>12. ASSUME NEW i \in Lines("stdin", r)', NEW n \in next + 1..toServer'[i].n
         PROVE  \E j \in Lines("stdin", r)' : toServer'[j].n = n
    <3>1. i + 1 \in Lines("stdin", r) /\ toServer'[i].n = toServer[i + 1].n
          /\ toServer[i + 1].n \in Nat
      BY <1>3, <2>8
    <3>2. PICK j \in Lines("stdin", r) : toServer[j].n = n
      BY <2>5, <2>8, <3>1
    <3> QED
      BY <2>5, <2>9, <2>10, <3>1, <3>2
  <2>13. ASSUME pump[r] # "off"
         PROVE  /\ sent[r] + 1 >= next + 1
                /\ \A i \in Lines("stdin", r)' : toServer'[i].n <= sent[r]
                /\ \A n \in next + 1..sent[r] :
                      \E j \in Lines("stdin", r)' : toServer'[j].n = n
    <3>1. /\ \A i \in Lines("stdin", r) : toServer[i].n <= sent[r]
          /\ \A n \in next..sent[r] : \E j \in Lines("stdin", r) : toServer[j].n = n
      BY <2>8, <2>13
    <3>2. top <= sent[r]
      BY <1>3, <3>1 DEF top
    <3>3. \A i \in Lines("stdin", r)' : toServer'[i].n <= sent[r]
      BY <1>3, <3>1
    <3>4. ASSUME NEW n \in next + 1..sent[r]
          PROVE  \E j \in Lines("stdin", r)' : toServer'[j].n = n
      <4>1. PICK j \in Lines("stdin", r) : toServer[j].n = n
        BY <2>4, <2>5, <3>1
      <4> QED
        BY <2>4, <2>5, <2>9, <2>10, <4>1
    <3> QED
      BY <2>4, <2>5, <2>9, <3>2, <3>3, <3>4
  <2>14. line'.n = NextChunk(r)' - 1 /\ line'.id = r
    BY <1>1, <2>2, <2>5, <2>9 DEF top
  <2>15. \A i \in Lines("stdin", r)' : toServer'[i].n >= next + 1
    BY <1>3, <2>5, <2>8, <2>9, <2>11
  <2> QED
    BY <1>2, <2>2, <2>5, <2>11, <2>12, <2>13, <2>14, <2>15 DEF PipeInOrder
<1> QED
  BY <1>2, <1>4, <1>5, <1>6, <1>7, <1>8 DEF InputInv

(* The chunk goes into the channel of its command.                           *)
LEMMA SendInputInOrder ==
  ASSUME InputCore, ~exited, SendInput, UNCHANGED clientVars, NEW r \in Calls,
         line.id = r, r \in Sessions, InputInv(r)
  PROVE  InputInv(r)'
<1>1. /\ chan \in [Calls -> Seq(1..EOF)] /\ line \in ServerLine
      /\ loop = "send" /\ got[r] \in Seq(1..EOF)
      /\ chan' = [chan EXCEPT ![r] = Append(chan[r], line.n)]
      /\ loop' = "scan" /\ toServer' = toServer
      /\ UNCHANGED <<kind, toClient, exited, hpc, ctxDone, runDone, got, pump, sent>>
  BY DEF SendInput, InputCore, SessionTypeOK, HandlerTypeOK, goVars, clientVars,
         wireVars, LoopBack
<1>2. line.n \in 1..EOF
  BY <1>1 DEF InputCore, LoopInv, ServerLine, EOF
<1>3. /\ Len(chan'[r]) = Len(chan[r]) + 1 /\ Len(chan[r]) \in Nat
      /\ chan'[r][Len(chan[r]) + 1] = line.n
      /\ \A i \in 1..Len(chan[r]) : chan'[r][i] = chan[r][i]
      /\ Len(got[r]) \in Nat
  BY <1>1, <1>2, AppendFacts
<1>4. Lines("stdin", r)' = Lines("stdin", r)
  BY <1>1 DEF Lines
<1>5. NextChunk(r) = Len(got[r]) + Len(chan[r]) + 2 /\ NextChunk(r)' = NextChunk(r)
  <2>1. got'[r] = got[r] /\ loop' # "send" /\ loop = "send"
    BY <1>1
  <2>2. /\ NextChunk(r) = Len(got[r]) + Len(chan[r]) + 2
        /\ NextChunk(r)' = Len(got[r]) + (Len(chan[r]) + 1) + 1
    BY <1>1, <1>3, <2>1, Zenon DEF NextChunk
  <2> QED
    BY <1>3, <2>2, SumFacts, Zenon
<1>6. hpc[r] \notin EarlyPCs
  BY <1>1 DEF InputInv, NoInput
<1>7. (r \in Sessions)' /\ (AtEOF(r)' <=> AtEOF(r))
  BY <1>1 DEF Sessions, AtEOF
<1>8. CASE AtEOF(r)
  <2>1. ReadInOrder(r)'
    BY <1>1, <1>7, <1>8 DEF ReadInOrder, InputInv, Cancelled
  <2> QED
    BY <1>1, <1>6, <1>7, <1>8, <2>1 DEF InputInv
<1>9. CASE ~AtEOF(r)
  <2>1. PipeInOrder(r) /\ ReadInOrder(r)
    BY <1>9 DEF InputInv
  <2>2. line.n = Len(got[r]) + Len(chan[r]) + 1
    BY <1>1, <1>3, <1>5, <2>1 DEF PipeInOrder
  <2>3. \A i \in 1..Len(chan'[r]) : chan'[r][i] = Len(got[r]) + i
    <3>1. \A i \in 1..Len(chan[r]) : chan[r][i] = Len(got[r]) + i
      BY <1>9, <2>1 DEF ReadInOrder
    <3>2. 1..Len(chan'[r]) = 1..Len(chan[r]) \cup {Len(chan[r]) + 1}
      BY <1>3
    <3>3. line.n = Len(got[r]) + (Len(chan[r]) + 1)
      BY <1>3, <2>2, SumFacts, Zenon
    <3> QED
      BY <1>3, <3>1, <3>2, <3>3
  <2>4. ReadInOrder(r)'
    BY <1>1, <2>1, <2>3 DEF ReadInOrder, Cancelled
  <2>5. PipeInOrder(r)'
    BY <1>1, <1>4, <1>5, <2>1 DEF PipeInOrder
  <2> QED
    BY <1>1, <1>6, <1>7, <2>4, <2>5 DEF InputInv
<1> QED
  BY <1>8, <1>9


(* The steps of the loop keep every command's input in order.                *)
LEMMA LoopInput ==
  ASSUME InputCore, ~exited, LoopStep, UNCHANGED clientVars, NEW r \in Calls,
         InputInv(r)
  PROVE  InputInv(r)'
<1>0. /\ HandlerTypeOK /\ WireTypeOK /\ toServer \in Seq(ServerLine)
      /\ hpc \in [Calls -> RequestPCs] /\ line \in ServerLine /\ line.id \in Ids
      /\ PumpSame(r) /\ Closer # r
      /\ \A i \in Lines("stdin", r) : i \in Nat
      /\ (\A i \in Lines("stdin", r) : i \in Nat)'
  BY LinesAreNumbers DEF InputCore, SessionTypeOK, HandlerTypeOK, WireTypeOK, PumpSame,
                         clientVars, ServerLine
<1> USE DEF loopVars, goVars, vmVars, pfVars, inVars, wireVars, LoopBack, HGoto
<1>a. ASSUME UNCHANGED exited, InputSame(r), ReadySame(r), LinesMove(r, 0)
      PROVE  InputInv(r)'
  BY <1>0, <1>a, InputKept
<1>b. ASSUME UNCHANGED exited, InputSame(r), ReadySame(r), LinesMove(r, 1)
      PROVE  InputInv(r)'
  BY <1>0, <1>b, InputKept
<1>1. CASE ReadCancel
  <2>1. UNCHANGED <<exited, toClient>> /\ InputSame(r)
    BY <1>1, LoopElsewhere DEF ReadCancel, NextLine
  <2>2. LinesMove(r, 1)
    BY <1>0, <1>1, LinesMoveUp DEF ReadCancel, NextLine
  <2> QED
    BY <1>b, <2>1, <2>2, ReadyStays
<1>2. CASE ReadSynchronous
  <2>1. UNCHANGED <<exited, toClient>> /\ InputSame(r)
    BY <1>2, LoopElsewhere DEF ReadSynchronous, NextLine
  <2>2. LinesMove(r, 1)
    BY <1>0, <1>2, LinesMoveUp DEF ReadSynchronous, NextLine
  <2> QED
    BY <1>b, <2>1, <2>2, ReadyStays
<1>3. CASE ReadRequest
  <2>1. /\ UNCHANGED <<exited, toClient, kind, got, chan, ctxDone, runDone, line, loop>>
        /\ loop # "send"
    BY <1>3 DEF ReadRequest, NextLine
  <2>2. LinesMove(r, 1)
    BY <1>0, <1>3, LinesMoveUp DEF ReadRequest, NextLine
  <2>3. /\ Head(toServer).id \in Calls /\ hpc[Head(toServer).id] = "none"
        /\ hpc' = [hpc EXCEPT ![Head(toServer).id] = "spawned"]
    BY <1>0, <1>3, NextLineType, OtherRequests, NextRequestUnread
    DEF ReadRequest, InputCore, Unread
  <2>4. InputSame(r)
    BY <1>0, <2>1, <2>3 DEF InputSame, Sessions, Cancelled, EarlyPCs
  <2> QED
    BY <1>b, <2>1, <2>2, <2>4, ReadyStays
<1>4. CASE ReadInput
  <2>1. CASE Head(toServer).id = r
    BY <1>4, <2>1, ReadInputInOrder
  <2>2. CASE Head(toServer).id # r
    <3>1. LinesMove(r, 1)
      BY <1>0, <1>4, <2>2, LinesMoveUp DEF ReadInput, NextLine
    <3>2. UNCHANGED <<exited, toClient>> /\ InputSame(r)
      BY <1>4, <2>2 DEF ReadInput, NextLine, InputSame, Sessions, Cancelled
    <3> QED
      BY <1>b, <3>1, <3>2, ReadyStays
  <2> QED
    BY <2>1, <2>2
<1>5. CASE SendInput
  <2>1. CASE line.id = r /\ r \in Sessions
    BY <1>5, <2>1, SendInputInOrder
  <2>2. CASE line.id = r /\ r \notin Sessions
    <3>1. /\ UNCHANGED <<exited, toClient, toServer, kind, hpc, got, chan, ctxDone, runDone, pump, sent>>
          /\ loop = "send"
      BY <1>5, <2>2 DEF SendInput, clientVars
    <3>2. ~(hpc[r] \in EarlyPCs)
      BY <2>2, <3>1 DEF InputInv, NoInput
    <3> QED
      BY <2>2, <3>1, <3>2 DEF InputInv, Sessions
  <2>3. CASE line.id # r
    <3>1. UNCHANGED <<exited, toClient, toServer, kind, hpc, got, ctxDone, runDone>>
          /\ loop' = "scan" /\ chan'[r] = chan[r]
      BY <1>0, <1>5, <2>3 DEF SendInput, InputCore, SessionTypeOK, HandlerTypeOK
    <3>2. InputSame(r)
      BY <2>3, <3>1 DEF InputSame, Sessions, Cancelled
    <3> QED
      BY <1>a, <3>1, <3>2, LinesStay, ReadyStays
  <2> QED
    BY <2>1, <2>2, <2>3
<1>6. CASE ReadEnds
  <2>1. UNCHANGED <<exited, toClient>> /\ InputSame(r)
    BY <1>6, LoopElsewhere DEF ReadEnds
  <2>2. CASE toServer' = toServer
    BY <1>a, <2>1, <2>2, LinesStay, ReadyStays
  <2>3. CASE closed /\ toServer # <<>> /\ toServer' = Tail(toServer)
    <3>1. hpc[r] \in {"none", "done"}
      BY <1>0, <1>6, <2>3 DEF ReadEnds, InputCore, LoopInv, InFlight
    <3>2. CASE hpc[r] = "none"
      <4>1. Lines("stdin", r) = {}
        BY <3>2 DEF InputInv, EarlyPCs, NoInput
      <4>2. Head(toServer).m = "stdin" => Head(toServer).id # r
        BY <1>0, <2>3, <4>1, LinesAfterRead
      <4> QED
        BY <1>0, <1>b, <2>1, <2>3, <4>2, LinesMoveUp, ReadyStays
    <3>3. CASE hpc[r] = "done"
      <4>1. UNCHANGED <<hpc, kind, got, chan>>
        BY <1>6 DEF ReadEnds
      <4> QED
        BY <3>3, <4>1 DEF InputInv, EarlyPCs, Sessions
    <3> QED
      BY <3>1, <3>2, <3>3
  <2> QED
    BY <1>6, <2>2, <2>3 DEF ReadEnds
<1>7. CASE RunReturns
  BY <1>7, ProcessEndsInput DEF RunReturns
<1>8. CASE WaitInFlight
  <2>1. UNCHANGED <<exited, toServer>> /\ InputSame(r)
    BY <1>8, LoopElsewhere DEF WaitInFlight
  <2>2. ReadySame(r)
    BY <1>8, ReadyStays DEF WaitInFlight
  <2> QED
    BY <1>a, <2>1, <2>2, LinesStay
<1>9. CASE CreateRefused
  <2>1. UNCHANGED <<exited, toServer>> /\ InputSame(r)
    BY <1>9, LoopElsewhere DEF CreateRefused
  <2>2. ReadySame(r)
    BY <1>0, <1>9, EmitKeepsReady DEF CreateRefused
  <2> QED
    BY <1>a, <2>1, <2>2, LinesStay
<1>10. CASE Factory
  <2>1. UNCHANGED <<exited, toServer>> /\ InputSame(r)
    BY <1>10, LoopElsewhere DEF Factory
  <2>2. ReadySame(r)
    BY <1>10, ReadyStays DEF Factory
  <2> QED
    BY <1>a, <2>1, <2>2, LinesStay
<1>11. CASE StartFails
  <2>1. UNCHANGED <<exited, toServer>> /\ InputSame(r)
    BY <1>11, LoopElsewhere DEF StartFails
  <2>2. ReadySame(r)
    BY <1>0, <1>11, EmitKeepsReady DEF StartFails
  <2> QED
    BY <1>a, <2>1, <2>2, LinesStay
<1>12. CASE StartSucceeds
  <2>1. UNCHANGED <<exited, toServer>> /\ InputSame(r)
    BY <1>12, LoopElsewhere DEF StartSucceeds
  <2>2. ReadySame(r)
    BY <1>0, <1>12, EmitKeepsReady DEF StartSucceeds
  <2> QED
    BY <1>a, <2>1, <2>2, LinesStay
<1>13. CASE CloseTakes
  <2>1. UNCHANGED <<exited, toServer>> /\ InputSame(r)
    BY <1>13, LoopElsewhere DEF CloseTakes
  <2>2. ReadySame(r)
    BY <1>13, ReadyStays DEF CloseTakes
  <2> QED
    BY <1>a, <2>1, <2>2, LinesStay
<1>14. CASE ClosePortForwards
  <2>1. UNCHANGED <<exited, toServer>> /\ InputSame(r)
    BY <1>14, LoopElsewhere DEF ClosePortForwards
  <2>2. ReadySame(r)
    <3>1. CASE Emit("response", line.id, FALSE)
      BY <1>0, <3>1, EmitKeepsReady
    <3> QED
      BY <1>14, <3>1, ReadyStays DEF ClosePortForwards
  <2> QED
    BY <1>a, <2>1, <2>2, LinesStay
<1>15. CASE CloseVM
  <2>1. UNCHANGED <<exited, toServer>> /\ InputSame(r)
    BY <1>15, LoopElsewhere DEF CloseVM
  <2>2. ReadySame(r)
    <3>1. PICK b \in BOOLEAN : Emit("response", line.id, b)
      BY <1>15 DEF CloseVM
    <3> QED
      BY <1>0, <3>1, EmitKeepsReady
  <2> QED
    BY <1>a, <2>1, <2>2, LinesStay
<1> QED
  BY <1>1, <1>2, <1>3, <1>4, <1>5, <1>6, <1>7, <1>8, <1>9, <1>10, <1>11, <1>12, <1>13, <1>14, <1>15 DEF LoopStep

(* A command reads the next chunk of its stdin, or its end.                  *)
LEMMA ReadStdinInOrder ==
  ASSUME InputCore, NEW r \in Calls, ReadStdin(r), UNCHANGED clientVars, InputInv(r)
  PROVE  InputInv(r)'
<1>0. /\ HandlerTypeOK /\ got[r] \in Seq(1..EOF) /\ chan[r] \in Seq(1..EOF)
      /\ hpc[r] = "running" /\ kind[r] \in InputKinds /\ ~AtEOF(r)
      /\ UNCHANGED <<kind, toServer, toClient, exited, loop, line, hpc, ctxDone, runDone,
                     pump, sent>>
  BY DEF ReadStdin, InputCore, SessionTypeOK, HandlerTypeOK, wireVars, loopVars, goVars,
         clientVars
<1>1. Len(got[r]) \in Nat /\ Len(chan[r]) \in Nat
  BY <1>0
<1>2. /\ r \in Sessions /\ r \in Sessions' /\ hpc'[r] \notin EarlyPCs
      /\ (Cancelled(r)' <=> Cancelled(r))
  BY <1>0 DEF Sessions, EarlyPCs, Cancelled
<1>3. ReadInOrder(r) /\ PipeInOrder(r)
  BY <1>0, <1>2 DEF InputInv
<1>4. /\ \A i \in 1..Len(chan[r]) : chan[r][i] = Len(got[r]) + i
      /\ \A i \in 1..Len(got[r]) : got[r][i] # EOF \/ i # Len(got[r])
      /\ \A i \in 1..Len(got[r]) : got[r][i] = i
  <2>1. \A i \in 1..Len(got[r]) : got[r][i] # EOF \/ i # Len(got[r])
    <3> SUFFICES ASSUME NEW i \in 1..Len(got[r]), i = Len(got[r]), got[r][i] = EOF
                 PROVE  FALSE
      OBVIOUS
    <3>1. got[r] # <<>>
      BY <1>0, <1>1
    <3> QED
      BY <1>0, <3>1 DEF AtEOF
  <2> QED
    BY <1>0, <1>3, <2>1 DEF ReadInOrder
<1>5. CASE /\ chan[r] # <<>>
           /\ got'[r] = Append(got[r], Head(chan[r]))
           /\ chan'[r] = Tail(chan[r])
  <2>1. /\ Head(chan[r]) = chan[r][1] /\ Head(chan[r]) \in 1..EOF
        /\ Len(chan'[r]) = Len(chan[r]) - 1 /\ Len(chan[r]) >= 1
        /\ \A i \in 1..Len(chan[r]) - 1 : chan'[r][i] = chan[r][i + 1]
    <3>1. /\ Head(chan[r]) = chan[r][1] /\ Head(chan[r]) \in 1..EOF
          /\ Len(Tail(chan[r])) = Len(chan[r]) - 1 /\ Len(chan[r]) \in Nat \ {0}
          /\ \A i \in 1..Len(chan[r]) - 1 : Tail(chan[r])[i] = chan[r][i + 1]
      BY <1>0, <1>5, TailFacts
    <3>2. Len(chan[r]) >= 1
      BY <3>1
    <3> QED
      BY <1>5, <3>1, <3>2, Zenon
  <2>2. /\ Len(got'[r]) = Len(got[r]) + 1
        /\ got'[r][Len(got[r]) + 1] = Head(chan[r])
        /\ \A i \in 1..Len(got[r]) : got'[r][i] = got[r][i]
    BY <1>0, <1>5, <2>1, AppendFacts
  <2>3. Head(chan[r]) = Len(got[r]) + 1
    BY <1>1, <1>4, <2>1
  <2>4. \A i \in 1..Len(got'[r]) : got'[r][i] = i
    BY <1>1, <1>4, <2>2, <2>3
  <2>5. \A i \in 1..Len(chan'[r]) : chan'[r][i] = Len(got'[r]) + i
    BY <1>1, <1>4, <2>1, <2>2
  <2>6. NextChunk(r)' = NextChunk(r)
    <3>1. Len(got'[r]) + Len(chan'[r]) = Len(got[r]) + Len(chan[r])
      <4>1. Len(got[r]) + 1 + (Len(chan[r]) - 1) = Len(got[r]) + Len(chan[r])
        BY <1>1, SumMoves, Zenon
      <4>2. Len(got'[r]) = Len(got[r]) + 1 /\ Len(chan'[r]) = Len(chan[r]) - 1
        BY <2>1, <2>2, Zenon
      <4> QED
        BY <4>1, <4>2, Zenon
    <3> QED
      BY <1>0, <3>1 DEF NextChunk
  <2>7. Lines("stdin", r)' = Lines("stdin", r)
    BY <1>0 DEF Lines
  <2>8. PipeInOrder(r)'
    BY <1>0, <1>3, <2>6, <2>7 DEF PipeInOrder
  <2>9. ReadInOrder(r)'
    BY <2>4, <2>5 DEF ReadInOrder
  <2> QED
    BY <1>2, <2>8, <2>9 DEF InputInv
<1>6. CASE Cancelled(r) /\ got'[r] = Append(got[r], EOF) /\ chan'[r] = chan[r]
  <2>0. EOF \in 1..EOF
    BY DEF EOF
  <2>1. /\ Len(got'[r]) = Len(got[r]) + 1
        /\ got'[r][Len(got[r]) + 1] = EOF
        /\ \A i \in 1..Len(got[r]) : got'[r][i] = got[r][i]
        /\ got'[r] # <<>>
    <3>1. /\ Len(Append(got[r], EOF)) = Len(got[r]) + 1
          /\ Append(got[r], EOF)[Len(got[r]) + 1] = EOF
          /\ \A i \in 1..Len(got[r]) : Append(got[r], EOF)[i] = got[r][i]
          /\ Append(got[r], EOF) # <<>>
      <4>1. got[r] \in Seq(1..EOF)
        BY <1>0
      <4> QED
        BY <2>0, <4>1, AppendFacts
    <3> QED
      BY <1>6, <3>1, Zenon
  <2>2. AtEOF(r)'
    BY <2>1 DEF AtEOF
  <2>3. ASSUME NEW i \in 1..Len(got'[r])
        PROVE  got'[r][i] = i \/ (got'[r][i] = EOF /\ i = Len(got'[r]))
    <3>1. CASE i \in 1..Len(got[r])
      BY <1>4, <2>1, <3>1, Zenon
    <3>2. CASE i \notin 1..Len(got[r])
      <4>1. i = Len(got[r]) + 1
        BY <1>1, <2>1, <3>2
      <4> QED
        BY <2>1, <4>1, Zenon
    <3> QED
      BY <3>1, <3>2
  <2>4. ReadInOrder(r)'
    BY <1>2, <1>6, <2>2, <2>3 DEF ReadInOrder
  <2> QED
    BY <1>2, <2>2, <2>4 DEF InputInv
<1> QED
  BY <1>0, <1>5, <1>6, ReadStdinEffect

(* A command that opens its stdin has read nothing yet.                      *)
LEMMA OpensStdinInOrder ==
  ASSUME InputCore, ~exited, NEW r \in Calls, NEW k \in InputKinds, OpensStdin(r, k),
         UNCHANGED clientVars, InputInv(r)
  PROVE  InputInv(r)'
<1>0. /\ hpc \in [Calls -> RequestPCs] /\ hpc[r] = "handle" /\ hpc'[r] = "ready"
      /\ kind[r] = k
      /\ UNCHANGED <<kind, toServer, toClient, exited, loop, line, got, chan, pump, sent>>
  BY DEF OpensStdin, InputCore, SessionTypeOK, HandlerTypeOK, wireVars, loopVars, inVars,
         HGoto, clientVars
<1>1. NoInput(r)
  BY <1>0 DEF InputInv, EarlyPCs
<1>2. NoInput(r)'
  <2>1. Lines("stdin", r)' = Lines("stdin", r)
    BY <1>0 DEF Lines
  <2> QED
    BY <1>0, <1>1, <2>1 DEF NoInput
<1>3. r \in Sessions'
  BY <1>0 DEF Sessions
<1>4. Len(got'[r]) = 0 /\ Len(chan'[r]) = 0
  BY <1>2, EmptyFacts DEF NoInput
<1>5. ReadInOrder(r)'
  BY <1>4 DEF ReadInOrder
<1>6. NextChunk(r)' = 1
  BY <1>2, <1>4 DEF NextChunk, NoInput
<1>7. PipeInOrder(r)'
  <2>1. sent'[r] \in Nat /\ pump'[r] \in {"off", "wait", "send"}
    BY <1>0 DEF InputCore, SessionTypeOK, ClientTypeOK, EOF
  <2>2. pump'[r] # "off" => sent'[r] = 0
    BY <1>2, <2>1 DEF NoInput
  <2>3. Lines("stdin", r)' = {} /\ ~(loop' = "send" /\ line'.id = r)
    BY <1>2 DEF NoInput
  <2> QED
    BY <1>6, <2>2, <2>3 DEF PipeInOrder
<1> QED
  BY <1>2, <1>3, <1>5, <1>7 DEF InputInv

(* The steps of the goroutines keep every command's input in order.          *)
LEMMA GoInput ==
  ASSUME InputCore, ~exited, NEW e \in Calls,
         RequestStep(e) \/ ReadStdin(e) \/ CommandEnds(e),
         UNCHANGED clientVars, NEW r \in Calls, InputInv(r)
  PROVE  InputInv(r)'
<1>0. /\ HandlerTypeOK /\ WireTypeOK /\ hpc \in [Calls -> RequestPCs]
      /\ chan \in [Calls -> Seq(1..EOF)] /\ got \in [Calls -> Seq(1..EOF)]
      /\ PumpSame(r) /\ e \in Ids
      /\ \A i \in Lines("stdin", r) : i \in Nat
      /\ (\A i \in Lines("stdin", r) : i \in Nat)'
  BY LinesAreNumbers DEF InputCore, SessionTypeOK, HandlerTypeOK, PumpSame, clientVars, Ids
<1>1. UNCHANGED <<kind, toServer, exited, loop, line, runDone>>
  BY <1>0, GoStepEffect DEF GoEffect, loopVars
<1>2. LinesMove(r, 0)
  BY <1>1, LinesStay
<1>a. ASSUME InputSame(r), ReadySame(r)
      PROVE  InputInv(r)'
  BY <1>0, <1>1, <1>2, <1>a, InputKept
<1> USE DEF loopVars, goVars, vmVars, pfVars, inVars, wireVars, HGoto, InputSame, Sessions,
            Cancelled, EarlyPCs, InputKinds
<1>3. CASE RegisterCancel(e)
  BY <1>0, <1>1, <1>a, <1>3, ReadyStays DEF RegisterCancel
<1>4. CASE Refused(e)
  BY <1>0, <1>1, <1>a, <1>4, ReadyStays DEF Refused
<1>5. CASE BeginExec(e)
  BY <1>0, <1>1, <1>a, <1>5, ReadyStays DEF BeginExec, Enters
<1>6. CASE BeginCall(e)
  BY <1>0, <1>1, <1>a, <1>6, ReadyStays DEF BeginCall, Enters
<1>7. CASE BeginFollow(e)
  BY <1>0, <1>1, <1>a, <1>7, ReadyStays DEF BeginFollow, Enters
<1>8. CASE BeginExecPipe(e)
  <2>1. CASE e = r
    BY <1>8, <2>1, OpensStdinInOrder DEF BeginExecPipe
  <2>2. CASE e # r
    BY <1>0, <1>1, <1>a, <1>8, <2>2, ReadyStays DEF BeginExecPipe, OpensStdin
  <2> QED
    BY <2>1, <2>2
<1>9. CASE BeginExecTTY(e)
  <2>1. CASE e = r
    BY <1>9, <2>1, OpensStdinInOrder DEF BeginExecTTY
  <2>2. CASE e # r
    BY <1>0, <1>1, <1>a, <1>9, <2>2, ReadyStays DEF BeginExecTTY, OpensStdin
  <2> QED
    BY <2>1, <2>2
<1>10. CASE SendReady(e)
  <2>1. /\ Emit("ready", e, TRUE) /\ hpc[e] = "ready" /\ UNCHANGED <<ctxDone, got, chan>>
        /\ hpc' = [hpc EXCEPT ![e] = "running"]
    BY <1>10 DEF SendReady
  <2>2. InputSame(r)
    BY <1>0, <1>1, <2>1
  <2>3. ReadySame(r)
    <3>1. CASE e = r
      BY <1>0, <2>1, <3>1 DEF ReadySame
    <3>2. CASE e # r
      BY <1>0, <2>1, <3>2, EmitKeepsReady
    <3> QED
      BY <3>1, <3>2
  <2> QED
    BY <1>a, <2>2, <2>3
<1>11. CASE CommandCancelled(e)
  <2>1. /\ hpc' = [hpc EXCEPT ![e] = "respond"] /\ UNCHANGED <<toClient, ctxDone>>
        /\ chan' = [chan EXCEPT ![e] = <<>>] /\ got' = [got EXCEPT ![e] = <<>>]
    BY <1>11 DEF CommandCancelled, EndRunning
  <2>2. CASE e = r
    BY <1>0, <1>1, <2>1, <2>2 DEF InputInv
  <2>3. CASE e # r
    BY <1>0, <1>1, <1>a, <2>1, <2>3, ReadyStays
  <2> QED
    BY <2>2, <2>3
<1>12. CASE Respond(e)
  <2>1. /\ Emit("response", e, FALSE) /\ hpc[e] = "respond" /\ UNCHANGED <<got, chan>>
        /\ hpc' = [hpc EXCEPT ![e] = "done"] /\ ctxDone' = ctxDone \ {e}
    BY <1>12 DEF Respond
  <2>2. InputSame(r)
    BY <1>0, <1>1, <2>1
  <2>3. ReadySame(r)
    BY <1>0, <2>1, EmitKeepsReady
  <2> QED
    BY <1>a, <2>2, <2>3
<1>13. CASE BeginForward(e)
  BY <1>0, <1>1, <1>a, <1>13, ReadyStays DEF BeginForward
<1>14. CASE ReplaceForward(e)
  BY <1>0, <1>1, <1>a, <1>14, ReadyStays DEF ReplaceForward
<1>15. CASE Listen(e)
  BY <1>0, <1>1, <1>a, <1>15, ReadyStays DEF Listen
<1>16. CASE ListenFails(e)
  BY <1>0, <1>1, <1>a, <1>16, ReadyStays DEF ListenFails
<1>17. CASE Install(e)
  BY <1>0, <1>1, <1>a, <1>17, ReadyStays DEF Install
<1>18. CASE ReadStdin(e)
  <2>1. CASE e = r
    BY <1>18, <2>1, ReadStdinInOrder
  <2>2. CASE e # r
    <3>1. got'[r] = got[r] /\ chan'[r] = chan[r]
      BY <1>0, <1>18, <2>2, ReadStdinEffect
    <3>2. UNCHANGED <<toClient, hpc, ctxDone>>
      BY <1>18 DEF ReadStdin
    <3> QED
      BY <1>1, <1>a, <3>1, <3>2, ReadyStays
  <2> QED
    BY <2>1, <2>2
<1>19. CASE CommandEnds(e)
  <2>1. /\ hpc' = [hpc EXCEPT ![e] = "respond"] /\ UNCHANGED <<toClient, ctxDone>>
        /\ chan' = [chan EXCEPT ![e] = <<>>] /\ got' = [got EXCEPT ![e] = <<>>]
    BY <1>19 DEF CommandEnds, EndRunning
  <2>2. CASE e = r
    BY <1>0, <1>1, <2>1, <2>2 DEF InputInv
  <2>3. CASE e # r
    BY <1>0, <1>1, <1>a, <2>1, <2>3, ReadyStays
  <2> QED
    BY <2>2, <2>3
<1> QED
  BY <1>3, <1>4, <1>5, <1>6, <1>7, <1>8, <1>9, <1>10, <1>11, <1>12, <1>13, <1>14, <1>15, <1>16, <1>17, <1>18, <1>19 DEF RequestStep

(* A chunk of r that is written is its last line.                            *)
LEMMA ChunkLines ==
  ASSUME toServer \in Seq(ServerLine), NEW l \in ServerLine, NEW r \in Calls,
         toServer' = Append(toServer, l), l.m = "stdin", l.id = r
  PROVE  /\ Lines("stdin", r)' = Lines("stdin", r) \cup {Len(toServer) + 1}
         /\ toServer'[Len(toServer) + 1] = l /\ Len(toServer) \in Nat
         /\ \A i \in Lines("stdin", r) : toServer'[i] = toServer[i]
         /\ \A i \in Lines("stdin", r) : i \in Nat /\ i < Len(toServer) + 1
<1>1. /\ Lines("stdin", r)' = Lines("stdin", r) \cup {Len(toServer) + 1}
      /\ toServer'[Len(toServer) + 1] = l
      /\ \A i \in Lines("stdin", r) : toServer'[i] = toServer[i]
  <2>1. Lines("stdin", r)' = Lines("stdin", r) \cup {Len(toServer) + 1}
    BY LinesAfterWrite
  <2>2. toServer'[Len(toServer) + 1] = l
    BY LinesAfterWrite
  <2>3. \A i \in Lines("stdin", r) : toServer'[i] = toServer[i]
    BY LinesAfterWrite
  <2> QED
    BY <2>1, <2>2, <2>3
<1>2. Len(toServer) \in Nat
  OBVIOUS
<1>3. \A i \in Lines("stdin", r) : i \in Nat /\ i < Len(toServer) + 1
  BY <1>2 DEF Lines
<1> QED
  BY <1>1, <1>2, <1>3, Zenon

(* The pump sends the next chunk.                                            *)
LEMMA PumpSendsInOrder ==
  ASSUME InputCore, NEW r \in Calls, PumpSends(r), UNCHANGED handlerVars, InputInv(r)
  PROVE  InputInv(r)'
<1> DEFINE l == [m |-> "stdin", id |-> r, n |-> sent[r] + 1]
<1>0. /\ toServer \in Seq(ServerLine) /\ sent \in [Calls -> 0..EOF] /\ WireTypeOK
      /\ pump \in [Calls -> {"off", "wait", "send"}]
      /\ EOF \in Nat /\ pump[r] = "send" /\ Room /\ ~exited
      /\ got[r] \in Seq(1..EOF) /\ chan[r] \in Seq(1..EOF)
      /\ UNCHANGED <<kind, exited, hpc, got, chan, loop, line, ctxDone, runDone>>
      /\ sent' = [sent EXCEPT ![r] = @ + 1]
  <2>1. /\ toServer \in Seq(ServerLine) /\ sent \in [Calls -> 0..EOF] /\ WireTypeOK
        /\ pump \in [Calls -> {"off", "wait", "send"}]
        /\ got \in [Calls -> Seq(1..EOF)] /\ chan \in [Calls -> Seq(1..EOF)]
    BY DEF InputCore, SessionTypeOK, HandlerTypeOK, WireTypeOK, ClientTypeOK
  <2>2. EOF \in Nat
    BY DEF EOF
  <2>3. /\ pump[r] = "send" /\ Room /\ ~exited /\ UNCHANGED <<kind, exited>>
        /\ sent' = [sent EXCEPT ![r] = @ + 1]
    BY DEF PumpSends, Room, Broken
  <2>4. UNCHANGED <<hpc, got, chan, loop, line, ctxDone, runDone>>
    BY DEF handlerVars
  <2> QED
    BY <2>1, <2>2, <2>3, <2>4
<1>1. sent[r] \in Nat /\ sent[r] + 1 \in 0..EOF /\ sent'[r] = sent[r] + 1
  <2>1. sent[r] < EOF
    BY <1>0 DEF InputCore, ClientInv
  <2>2. sent[r] \in 0..EOF /\ EOF \in Nat /\ sent'[r] = sent[r] + 1
    BY <1>0
  <2> QED
    BY <2>1, <2>2
<1>2. l \in ServerLine /\ l.n = sent[r] + 1 /\ toServer' = Append(toServer, l)
      /\ l.m = "stdin" /\ l.id = r
  BY <1>0, <1>1, WriteLineType DEF PumpSends, Ids
<1> HIDE DEF l
<1>3. /\ Lines("stdin", r)' = Lines("stdin", r) \cup {Len(toServer) + 1}
      /\ toServer'[Len(toServer) + 1] = l /\ Len(toServer) \in Nat
      /\ \A i \in Lines("stdin", r) : toServer'[i] = toServer[i]
      /\ \A i \in Lines("stdin", r) : i \in Nat /\ i < Len(toServer) + 1
  BY <1>0, <1>2, ChunkLines
<1>4. hpc'[r] \notin EarlyPCs
  BY <1>0 DEF InputInv, NoInput
<1>5. (r \in Sessions' <=> r \in Sessions) /\ (AtEOF(r)' <=> AtEOF(r))
      /\ NextChunk(r)' = NextChunk(r)
  BY <1>0 DEF Sessions, AtEOF, NextChunk
<1>6. r \in Sessions => ReadInOrder(r)'
  BY <1>0, <1>5 DEF InputInv, ReadInOrder, Cancelled
<1>7. ASSUME r \in Sessions, ~AtEOF(r)
      PROVE  PipeInOrder(r)'
  <2> DEFINE next == NextChunk(r)
  <2>1. PipeInOrder(r)
    BY <1>7 DEF InputInv
  <2>2. next \in Nat
    <3>1. Len(got[r]) \in Nat /\ Len(chan[r]) \in Nat
      BY <1>0
    <3> DEFINE a == Len(got[r])
               b == Len(chan[r])
    <3>2. next = a + b + 1 \/ next = a + b + 2
      BY DEF NextChunk
    <3> HIDE DEF next, a, b
    <3>3. a \in Nat /\ b \in Nat
      BY <3>1 DEF a, b
    <3> QED
      BY <3>2, <3>3
  <2>3. /\ sent[r] + 1 >= next
        /\ \A i \in Lines("stdin", r) : toServer[i].n <= sent[r] /\ toServer[i].n >= next
        /\ \A n \in next..sent[r] : \E j \in Lines("stdin", r) : toServer[j].n = n
        /\ \A i, j \in Lines("stdin", r) : i < j => toServer[i].n < toServer[j].n
        /\ loop = "send" /\ line.id = r => line.n = next - 1
    BY <1>0, <2>1 DEF PipeInOrder
  <2>4. \A i \in Lines("stdin", r) : toServer[i].n \in Nat
    <3>1. \A i \in Lines("stdin", r) : toServer[i] \in ServerLine
      BY <1>0 DEF Lines
    <3>2. \A x \in ServerLine : x.n \in Nat
      BY DEF ServerLine
    <3> QED
      BY <3>1, <3>2
  <2> HIDE DEF next
  <2>5. /\ toServer'[Len(toServer) + 1].n = sent[r] + 1
        /\ Len(toServer) + 1 \in Lines("stdin", r)'
    BY <1>2, <1>3
  <2>6. \A n \in next..sent[r] + 1 : \E j \in Lines("stdin", r)' : toServer'[j].n = n
    <3> TAKE n \in next..sent[r] + 1
    <3>1. CASE n = sent[r] + 1
      BY <2>5, <3>1
    <3>2. CASE n # sent[r] + 1
      <4>1. n \in next..sent[r]
        BY <1>1, <2>2, <3>2
      <4> QED
        BY <1>3, <2>3, <4>1
    <3> QED
      BY <3>1, <3>2
  <2>7. \A i \in Lines("stdin", r)' :
           toServer'[i].n <= sent[r] + 1 /\ toServer'[i].n >= next /\ toServer'[i].n \in Nat
    BY <1>1, <1>3, <2>2, <2>3, <2>4, <2>5
  <2>8. \A i, j \in Lines("stdin", r)' : i < j => toServer'[i].n < toServer'[j].n
    <3> SUFFICES ASSUME NEW i \in Lines("stdin", r)', NEW j \in Lines("stdin", r)', i < j
                 PROVE  toServer'[i].n < toServer'[j].n
      OBVIOUS
    <3>1. i \in Lines("stdin", r)
      BY <1>3
    <3>2. CASE j = Len(toServer) + 1
      BY <1>1, <1>3, <2>3, <2>4, <2>5, <3>1, <3>2
    <3>3. CASE j \in Lines("stdin", r)
      BY <1>3, <2>3, <3>1, <3>3
    <3> QED
      BY <1>3, <3>2, <3>3
  <2>9. \A i \in Lines("stdin", r)' :
           \A n \in next..toServer'[i].n : \E j \in Lines("stdin", r)' : toServer'[j].n = n
    BY <1>1, <2>2, <2>6, <2>7
  <2> QED
    BY <1>0, <1>1, <1>5, <2>2, <2>3, <2>6, <2>7, <2>8, <2>9 DEF PipeInOrder, next
<1>8. r \notin Sessions => got'[r] = <<>> /\ chan'[r] = <<>>
  BY <1>0 DEF InputInv
<1> QED
  BY <1>4, <1>5, <1>6, <1>7, <1>8 DEF InputInv

(* What the client does to stdout announces nothing.                         *)
LEMMA ReaderKeepsReady ==
  ASSUME WireTypeOK, NEW r,
         \/ toClient' \in {toClient, <<>>}
         \/ toClient # <<>> /\ toClient' = Tail(toClient)
  PROVE  ReadySame(r)
<1>1. CASE toClient # <<>> /\ toClient' = Tail(toClient)
  <2>1. toClient \in Seq(ClientLine)
    BY DEF WireTypeOK
  <2>2. \A i \in 1..Len(toClient') :
           i + 1 \in 1..Len(toClient) /\ toClient'[i] = toClient[i + 1]
    BY <1>1, <2>1, TailFacts
  <2> QED
    BY <2>2 DEF ReadySame, Announced
<1> QED
  BY <1>1 DEF ReadySame, Announced

(* The steps of the client keep every command's input in order.              *)
LEMMA ClientInput ==
  ASSUME InputCore, ClientEffect, UNCHANGED handlerVars, NEW r \in Calls, InputInv(r)
  PROVE  InputInv(r)'
<1>0. /\ WireTypeOK /\ toServer \in Seq(ServerLine) /\ EOF \in Nat /\ Calls \subseteq Ids
      /\ sent \in [Calls -> 0..EOF] /\ pump \in [Calls -> {"off", "wait", "send"}]
      /\ UNCHANGED <<kind, exited, hpc, got, chan, loop, line, ctxDone, runDone>>
  <2>1. /\ WireTypeOK /\ toServer \in Seq(ServerLine)
        /\ sent \in [Calls -> 0..EOF] /\ pump \in [Calls -> {"off", "wait", "send"}]
    BY DEF InputCore, SessionTypeOK, HandlerTypeOK, WireTypeOK, ClientTypeOK
  <2>2. EOF \in Nat /\ Calls \subseteq Ids
    BY DEF EOF, Ids
  <2>3. UNCHANGED <<kind, exited, hpc, got, chan, loop, line, ctxDone, runDone>>
    BY DEF handlerVars, ClientEffect
  <2> QED
    BY <2>1, <2>2, <2>3
<1>1. InputSame(r)
  BY <1>0 DEF InputSame, Sessions, Cancelled
<1>2. ReadySame(r)
  BY <1>0, ReaderKeepsReady DEF ClientEffect
<1>3. /\ \A i \in Lines("stdin", r) : i \in Nat
      /\ (\A i \in Lines("stdin", r) : i \in Nat)'
  BY LinesAreNumbers
<1>4. exited => r \notin Sessions
  BY DEF InputCore, LoopInv, InFlight, Sessions
<1>5. ASSUME NEW e \in Calls, PumpSends(e)
      PROVE  InputInv(r)'
  <2>1. CASE e = r
    BY <1>5, <2>1, PumpSendsInOrder
  <2>2. CASE e # r
    <3> DEFINE l == [m |-> "stdin", id |-> e, n |-> sent[e] + 1]
    <3>1. sent[e] + 1 \in 0..EOF
      BY <1>0, <1>5 DEF PumpSends, InputCore, ClientInv
    <3>2. l \in ServerLine /\ l.id = e /\ toServer' = Append(toServer, l)
      BY <1>0, <1>5, <3>1, WriteLineType DEF PumpSends
    <3> HIDE DEF l
    <3>3. LinesMove(r, 0)
      BY <1>0, <2>2, <3>2, LinesStayBehind
    <3>4. PumpSame(r)
      BY <1>0, <1>5, <2>2 DEF PumpSends, PumpSame
    <3> QED
      BY <1>0, <1>1, <1>2, <1>3, <3>3, <3>4, InputKept
  <2> QED
    BY <2>1, <2>2
<1>6. CASE /\ \/ toServer' = toServer
              \/ \E c \in Ids : WritesRequest(c) \/ WritesCancel(c)
           /\ \A c \in Calls : PumpMoves(c)
  <2>1. LinesMove(r, 0)
    <3>1. ASSUME NEW c \in Ids, WritesRequest(c) \/ WritesCancel(c)
          PROVE  LinesMove(r, 0)
      <4>1. PICK m \in {"request", "cancel"} : Room /\ WriteLine(m, c, 0)
        BY <3>1 DEF WritesRequest, WritesCancel
      <4> DEFINE l == [m |-> m, id |-> c, n |-> 0]
      <4>2. l \in ServerLine /\ l.m # "stdin" /\ toServer' = Append(toServer, l)
        BY <1>0, <4>1, WriteLineType
      <4> HIDE DEF l
      <4> QED
        BY <1>0, <4>2, LinesStayBehind
    <3> QED
      BY <1>6, <3>1, LinesStay
  <2>2. CASE PumpSame(r)
    BY <1>0, <1>1, <1>2, <1>3, <2>1, <2>2, InputKept
  <2>3. CASE /\ pump[r] = "wait" /\ pump'[r] = "send" /\ sent'[r] = sent[r]
             /\ NextReply("ready") /\ Head(toClient).id = r
    <3>1. Announced(r)
      BY <1>0, <2>3, NextReplyType DEF Announced, NextReply
    <3>2. ~exited => hpc'[r] \notin EarlyPCs
      BY <1>0, <3>1 DEF InputInv, NoInput, Announced
    <3> QED
      BY <2>2, <2>3, <3>2 DEF PumpSame
  <2>4. CASE /\ cpc[r] = "idle" /\ cpc'[r] # "idle"
             /\ pump'[r] # "send" /\ sent'[r] = sent[r]
    <3>1. sent[r] = 0
      BY <2>4 DEF InputCore, ClientInv
    <3>2. ~exited => hpc[r] = "none"
      BY <2>4 DEF InputCore, RequestOnce, Unread
    <3>3. r \notin Sessions' /\ r \notin Sessions
      BY <1>0, <1>4, <3>2 DEF Sessions
    <3>4. ~exited => NoInput(r)'
      <4> SUFFICES ASSUME ~exited PROVE NoInput(r)'
        OBVIOUS
      <4>1. NoInput(r) /\ hpc'[r] \in EarlyPCs
        BY <1>0, <3>2 DEF InputInv, EarlyPCs
      <4>2. Lines("stdin", r)' = {}
        BY <2>1, <4>1 DEF LinesMove, NoInput
      <4>3. ~Announced(r)'
        BY <1>2, <4>1 DEF ReadySame, NoInput, Announced
      <4> QED
        BY <1>0, <2>4, <3>1, <4>1, <4>2, <4>3 DEF NoInput, Announced
    <3> QED
      BY <1>0, <3>3, <3>4 DEF InputInv
  <2> QED
    BY <1>6, <2>2, <2>3, <2>4 DEF PumpMoves, PumpSame
<1> QED
  BY <1>5, <1>6 DEF ClientEffect


-----------------------------------------------------------------------------
(* The whole session.                                                        *)

(* The initial state satisfies the invariant.                                *)
LEMMA SessionInitInv == SessionInit => SessionInv
<1> SUFFICES ASSUME SessionInit PROVE SessionInv
  OBVIOUS
<1> USE DEF SessionInit, WireInit, HandlerInit, ClientInit
<1>0. PICK s \in Scenarios : kind = [c \in Ids |-> IF c = Closer THEN "close" ELSE s[c]]
  OBVIOUS
<1>1. /\ kind[Closer] = "close" /\ \A c \in Calls : kind[c] \in Kinds
      /\ kind \in [Ids -> Kinds \cup {"close"}]
  BY <1>0 DEF Ids
<1>2. toServer = <<>> /\ toClient = <<>> /\ Len(<<>>) = 0
      /\ toServer \in Seq(ServerLine) /\ toClient \in Seq(ClientLine)
  OBVIOUS
<1>3. HandlerTypeOK
  <2>1. WireTypeOK
    <3>1. Len(toServer) <= PipeCap
      BY <1>2, WireAssumption
    <3>2. stdinClosed \in BOOLEAN /\ exited \in BOOLEAN
      OBVIOUS
    <3> HIDE DEF SessionInit, WireInit, HandlerInit, ClientInit
    <3> QED
      BY <1>1, <1>2, <3>1, <3>2 DEF WireTypeOK
  <2>2. NoLine \in ServerLine
    BY DEF NoLine, ServerLine, Ids, EOF
  <2>3. chan \in [Calls -> Seq(1..EOF)] /\ got \in [Calls -> Seq(1..EOF)]
        /\ \A r \in Calls : Len(chan[r]) <= ChanCap
    BY EmptyFacts
  <2> QED
    BY <2>1, <2>2, <2>3 DEF HandlerTypeOK, LoopPCs, RequestPCs, Registered
<1>4. ClientTypeOK
  <2>1. 0 \in 0..EOF
    BY WireAssumption DEF EOF
  <2> QED
    BY <2>1 DEF ClientTypeOK, CallPCs
<1>9. /\ \A m, c : Lines(m, c) = {}
      /\ 1..Len(toClient) = {}
  <2>1. Len(toServer) = 0 /\ Len(toClient) = 0
    BY <1>2
  <2>2. 1..0 = {}
    OBVIOUS
  <2> HIDE DEF SessionInit, WireInit, HandlerInit, ClientInit
  <2> QED
    BY <2>1, <2>2 DEF Lines
<1>5. KindsKnown /\ ClientInv
  BY <1>1, <1>2 DEF KindsKnown, ClientInv
<1>6. LoopInv /\ VMInv /\ ForwardInv
  BY DEF LoopInv, VMInv, ForwardInv, RequestsRunOnOpenVM, Serving, Exclusive, InFlight,
         ForwardPCs
<1>7. \A c \in Calls : RequestOnce(c)
  <2>1. \A c \in Calls : Lines("request", c) = {}
    BY <1>9
  <2>2. \A c \in Calls : Unread(c)
    BY DEF Unread, Serving
  <2> QED
    BY <2>1, <2>2 DEF RequestOnce
<1>8. \A r \in Calls : InputInv(r)
  <2>1. \A r \in Calls : NoInput(r)
    BY <1>9 DEF NoInput
  <2> QED
    BY <2>1 DEF InputInv, Sessions, NoInput
<1> QED
  BY <1>3, <1>4, <1>5, <1>6, <1>7, <1>8 DEF SessionInv, SessionTypeOK

(* A process that ends, whoever ended it.                                    *)
LEMMA ProcessEndsSession ==
  ASSUME SessionInv, ProcessEnds, UNCHANGED <<kind, toClient, stdinClosed>>,
         ClientTypeOK', ClientInv'
  PROVE  SessionInv'
<1>1. HandlerTypeOK' /\ HandlerInv'
  BY ProcessEndsType, ProcessEndsInv DEF SessionInv, SessionTypeOK
<1>2. KindsKnown'
  BY KindsStep DEF SessionInv, ProcessEnds
<1>3. \A r \in Calls : InputInv(r)'
  BY ProcessEndsInput
<1>4. exited'
  BY DEF ProcessEnds
<1> QED
  BY <1>1, <1>2, <1>3, <1>4 DEF SessionInv, SessionTypeOK, HandlerInv

(* Every step of the session keeps the invariant.                            *)
LEMMA SessionStep ==
  ASSUME SessionInv, [SessionNext]_vars
  PROVE  SessionInv'
<1>0. /\ HandlerTypeOK /\ ClientTypeOK /\ WireTypeOK /\ KindsKnown /\ ClientInv /\ LoopInv
      /\ HandlerInv /\ (exited \/ \A c \in Calls : RequestOnce(c))
      /\ \A r \in Calls : InputInv(r)
      /\ InputCore /\ SessionTypeOK
  BY DEF SessionInv, SessionTypeOK, HandlerTypeOK, HandlerInv, InputCore
<1>1. CASE HandlerNext /\ UNCHANGED clientVars
  <2>1. ~exited /\ \A c \in Calls : RequestOnce(c)
    BY <1>0, <1>1 DEF HandlerNext
  <2>2. HandlerTypeOK'
    BY <1>0, <1>1, <2>1, HandlerTypeStep
  <2>3. ClientTypeOK' /\ ClientInv'
    BY <1>0, <1>1 DEF clientVars, ClientTypeOK, ClientInv
  <2>4. KindsKnown'
    BY <1>0, <1>1, HandlerReads, KindsStep
  <2>5. HandlerInv'
    BY <1>0, <1>1, <2>1, HandlerStepInv DEF HandlerCore
  <2>6. exited' \/ \A c \in Calls : RequestOnce(c)'
    BY <1>0, <1>1, <2>1, RequestOnceHandler
  <2>7. \A r \in Calls : InputInv(r)'
    <3> SUFFICES ASSUME NEW r \in Calls PROVE InputInv(r)'
      OBVIOUS
    <3>1. CASE LoopStep
      BY <1>0, <1>1, <2>1, <3>1, LoopInput
    <3>2. CASE \E e \in Calls : RequestStep(e) \/ ReadStdin(e) \/ CommandEnds(e)
      BY <1>0, <1>1, <2>1, <3>2, GoInput
    <3>3. CASE EntryEnds \/ Signalled
      <4>1. /\ UNCHANGED <<kind, toServer, toClient, exited, loop, line, hpc, ctxDone, got,
                           chan, pump, sent>>
            /\ runDone => runDone'
        BY <1>1, <3>3 DEF EntryEnds, Signalled, wireVars, loopVars, goVars, inVars, clientVars
      <4>2. InputSame(r) /\ ReadySame(r) /\ PumpSame(r) /\ LinesMove(r, 0)
        <5>1. InputSame(r)
          BY <4>1 DEF InputSame, Sessions, Cancelled
        <5> QED
          BY <4>1, <5>1, ReadyStays, LinesStay DEF PumpSame
      <4> QED
        BY <1>0, <4>1, <4>2, LinesAreNumbers, InputKept
    <3> QED
      BY <1>1, <3>1, <3>2, <3>3 DEF HandlerNext
  <2> QED
    BY <2>2, <2>3, <2>4, <2>5, <2>6, <2>7 DEF SessionInv, SessionTypeOK, HandlerInv
<1>2. CASE ClientNext /\ UNCHANGED handlerVars
  <2>1. WireTypeOK' /\ ClientTypeOK' /\ ClientInv' /\ ClientEffect
    BY <1>0, <1>2, ClientStep
  <2>2. UNCHANGED <<kind, exited>>
    BY <2>1 DEF ClientEffect
  <2>3. HandlerTypeOK'
    BY <1>0, <1>2, <2>1 DEF HandlerTypeOK, handlerVars, Registered
  <2>4. HandlerInv'
    BY <1>0, <1>2, <2>2 DEF handlerVars, HandlerInv, LoopInv, VMInv, ForwardInv,
                           RequestsRunOnOpenVM, InFlight
  <2>5. KindsKnown'
    <3>1. \/ toServer' \in {toServer, <<>>}
          \/ \E c \in Ids : WriteLine("request", c, 0) \/ WriteLine("cancel", c, 0)
          \/ \E c \in Calls : WriteLine("stdin", c, sent[c] + 1)
      BY <2>1 DEF ClientEffect, WritesRequest, WritesCancel, PumpSends
    <3> QED
      BY <1>0, <2>2, <3>1, KindsStep
  <2>6. exited' \/ \A c \in Calls : RequestOnce(c)'
    BY <1>0, <1>2, <2>1, <2>2, RequestOnceClient
  <2>7. \A r \in Calls : InputInv(r)'
    BY <1>0, <1>2, <2>1, ClientInput
  <2> QED
    BY <2>1, <2>3, <2>4, <2>5, <2>6, <2>7 DEF SessionInv, SessionTypeOK, HandlerInv
<1>3. CASE CloseKillsProcess
  <2>1. /\ UNCHANGED <<kind, toClient, stdinClosed, cpc, gaveUp, pending, pendingNil, reader,
                       failing, resCh, pump, sent, closeOK>>
        /\ closing' = "closed" /\ ProcessEnds
    BY <1>3 DEF CloseKillsProcess, CloseKills, callVars, readVars, pumpVars
  <2>2. ClientTypeOK' /\ ClientInv'
    BY <1>0, <2>1 DEF ClientTypeOK, ClientInv
  <2> QED
    BY <2>1, <2>2, ProcessEndsSession
<1>4. CASE ProcessDies
  <2>1. ClientTypeOK' /\ ClientInv'
    BY <1>0, <1>4 DEF ProcessDies, clientVars, ClientTypeOK, ClientInv
  <2> QED
    BY <1>4, <2>1, ProcessEndsSession DEF ProcessDies
<1>5. CASE UNCHANGED vars
  <2>1. UNCHANGED <<kind, toServer, toClient, stdinClosed, exited, handlerVars, clientVars>>
    BY <1>5 DEF vars, wireVars
  <2>2. HandlerTypeOK' /\ ClientTypeOK' /\ KindsKnown' /\ ClientInv'
    <3>1. WireTypeOK'
      BY <1>0, <2>1 DEF WireTypeOK
    <3>2. HandlerTypeOK'
      BY <1>0, <2>1, <3>1 DEF HandlerTypeOK, handlerVars, Registered
    <3>3. ClientTypeOK' /\ ClientInv'
      BY <1>0, <2>1 DEF ClientTypeOK, ClientInv, clientVars
    <3>4. KindsKnown'
      BY <1>0, <2>1 DEF KindsKnown
    <3> QED
      BY <3>2, <3>3, <3>4
  <2>3. HandlerInv'
    BY <1>0, <2>1 DEF handlerVars, HandlerInv, LoopInv, VMInv, ForwardInv,
                     RequestsRunOnOpenVM, InFlight
  <2>4. \A c \in Calls : RequestOnce(c)' <=> RequestOnce(c)
    BY <2>1 DEF RequestOnce, Lines, Unread, handlerVars, clientVars
  <2>5. \A r \in Calls : InputInv(r)'
    <3> SUFFICES ASSUME NEW r \in Calls PROVE InputInv(r)'
      OBVIOUS
    <3>1. InputSame(r)
      BY <2>1 DEF InputSame, Sessions, Cancelled, handlerVars
    <3>2. PumpSame(r)
      BY <2>1 DEF PumpSame, clientVars
    <3> QED
      BY <1>0, <2>1, <3>1, <3>2, LinesAreNumbers, LinesStay, ReadyStays, InputKept
  <2> QED
    BY <1>0, <2>1, <2>2, <2>3, <2>4, <2>5 DEF SessionInv, SessionTypeOK, HandlerInv
<1> QED
  BY <1>1, <1>2, <1>3, <1>4, <1>5 DEF SessionNext

(* SessionInv holds in every reachable state.                                *)
LEMMA SessionInvariant == SessionSpec => []SessionInv
<1>1. SessionInv /\ [SessionNext]_vars => SessionInv'
  BY SessionStep
<1> QED
  BY <1>1, SessionInitInv, PTL DEF SessionSpec

(***************************************************************************)
(* Both processes and the pipes keep their types; in particular the cancel *)
(* table never holds a request that has ended, and the queues their        *)
(* bounds.                                                                 *)
(***************************************************************************)
THEOREM SessionTypeCorrect == SessionSpec => []SessionTypeOK
<1>1. SessionInv => SessionTypeOK
  BY DEF SessionInv
<1> QED
  BY <1>1, SessionInvariant, PTL

(***************************************************************************)
(* A command reads its stdin in order and without a gap, however the       *)
(* loop, the pump, cancels and the end of the command interleave.          *)
(***************************************************************************)
THEOREM StdinStaysInOrder == SessionSpec => []StdinInOrder
<1>1. SessionInv => StdinInOrder
  <2> SUFFICES ASSUME SessionInv, NEW r \in Calls, NEW i \in 1..Len(got[r])
               PROVE  got[r][i] = i \/ (got[r][i] = EOF /\ i = Len(got[r]) /\ Cancelled(r))
    BY DEF StdinInOrder
  <2>1. InputInv(r)
    BY DEF SessionInv
  <2>2. r \in Sessions
    <3>1. got[r] # <<>>
      BY EmptyFacts
    <3> QED
      BY <2>1, <3>1 DEF InputInv
  <2> QED
    BY <2>1, <2>2 DEF InputInv, ReadInOrder
<1> QED
  BY <1>1, SessionInvariant, PTL

(***************************************************************************)
(* A request that is running has its VM: create and close wait for the     *)
(* requests in flight, and the loop starts none while it waits.            *)
(***************************************************************************)
THEOREM RequestsHaveTheirVM == SessionSpec => []RequestsRunOnOpenVM
<1>1. SessionInv => RequestsRunOnOpenVM
  BY DEF SessionInv, VMInv
<1> QED
  BY <1>1, SessionInvariant, PTL

(***************************************************************************)
(* Port forwards that replace one another, create and close never leave a  *)
(* listener behind that nobody owns.                                       *)
(***************************************************************************)
THEOREM ListenersHaveOwners == SessionSpec => []NoStrayListeners
<1>1. SessionInv => NoStrayListeners
  BY DEF SessionInv, SessionTypeOK, HandlerTypeOK, ForwardInv, ForwardPCs, NoStrayListeners
<1> QED
  BY <1>1, SessionInvariant, PTL

-----------------------------------------------------------------------------
(* What a close without an error means.                                      *)

\* A line on stdout answers without an error.
OKOnWire == \E i \in 1..Len(toClient) : toClient[i].m = "response" /\ toClient[i].ok

(* The other answers, and the announcements, do not.                         *)
LEMMA EmitNoOK ==
  ASSUME WireTypeOK, NEW m \in {"response", "ready"}, NEW e \in Ids, NEW b \in BOOLEAN,
         Emit(m, e, b), m = "ready" \/ b = FALSE, UNCHANGED <<closeOK, resCh>>
  PROVE  ClosedOK' => ClosedOK
<1> DEFINE l == [m |-> m, id |-> e, ok |-> b]
<1>1. l \in ClientLine /\ ~(l.m = "response" /\ l.ok) /\ toClient' = Append(toClient, l)
  BY DEF ClientLine, Emit
<1>2. toClient \in Seq(ClientLine)
  BY DEF WireTypeOK
<1> HIDE DEF l
<1>3. \A i \in 1..Len(toClient') :
         (i \in 1..Len(toClient) /\ toClient'[i] = toClient[i]) \/ toClient'[i] = l
  BY <1>1, <1>2, AppendFacts
<1> QED
  BY <1>1, <1>3 DEF ClosedOK

(* The process ends.                                                         *)
LEMMA ProcessEndsClose ==
  ASSUME CloseInv, ProcessEnds, UNCHANGED kind
  PROVE  CloseInv'
<1>1. VMsAreKnown'
  BY DEF CloseInv, VMsAreKnown, ProcessEnds
<1>2. AllClosed'
  BY DEF AllClosed, ProcessEnds, InFlight
<1> QED
  BY <1>1, <1>2 DEF CloseInv

(* A step of the loop.                                                       *)
LEMMA LoopClose ==
  ASSUME HandlerCore, CloseInv, LoopStep, ~exited, UNCHANGED clientVars
  PROVE  CloseInv'
<1>0. /\ WireTypeOK /\ line.id \in Ids /\ Calls \subseteq Ids
      /\ loopVM \in Calls \cup {None} /\ vm \in Calls \cup {None}
      /\ openVMs \subseteq Calls /\ openPF \subseteq Calls
      /\ LoopInv /\ VMInv /\ ForwardInv /\ kind[Closer] = "close"
      /\ entry \in {"none", "running"}
  BY DEF HandlerCore, HandlerInv, HandlerTypeOK, ServerLine, KindsKnown, Ids
<1>1. /\ VMsAreKnown /\ (ClosedOK => AllClosed) /\ UNCHANGED <<closeOK, resCh>>
  BY DEF CloseInv, clientVars
<1>2. toClient' = toClient => (ClosedOK' => ClosedOK)
  BY <1>1 DEF ClosedOK
<1>3. Emit("response", line.id, FALSE) => (ClosedOK' => ClosedOK)
  BY <1>0, <1>1, EmitNoOK
<1>4. \A c \in Ids : kind[c] = "create" => c \in Calls
  BY <1>0 DEF Ids
<1> USE DEF loopVars, goVars, vmVars, pfVars, wireVars, LoopBack
<1>5. CASE ReadCancel \/ ReadSynchronous \/ ReadRequest \/ ReadInput
  <2>1. /\ UNCHANGED <<kind, loopVM, vm, openVMs, entry, toClient>>
        /\ loop # "start" /\ loop' # "start" /\ ~closed
    BY <1>5 DEF ReadCancel, ReadSynchronous, ReadRequest, ReadInput, NextLine
  <2>2. VMsAreKnown'
    BY <1>1, <2>1 DEF VMsAreKnown
  <2>3. ~AllClosed
    BY <2>1 DEF AllClosed
  <2> QED
    BY <1>1, <1>2, <2>1, <2>2, <2>3 DEF CloseInv
<1>6. CASE SendInput \/ WaitInFlight
  <2>1. /\ UNCHANGED <<kind, loopVM, vm, openVMs, entry, toClient>>
        /\ loop # "start" /\ loop' # "start" /\ loop \notin {"scan", "drain"}
    BY <1>6 DEF SendInput, WaitInFlight
  <2>2. VMsAreKnown'
    BY <1>1, <2>1 DEF VMsAreKnown
  <2>3. ~AllClosed
    BY <2>1 DEF AllClosed
  <2> QED
    BY <1>1, <1>2, <2>1, <2>2, <2>3 DEF CloseInv
<1>7. CASE ReadEnds
  <2>1. /\ UNCHANGED <<kind, loopVM, vm, openVMs, openPF, entry, toClient, hpc>>
        /\ loop # "start" /\ loop' = "drain" /\ closed' = TRUE
    BY <1>7 DEF ReadEnds
  <2>2. VMsAreKnown'
    BY <1>1, <2>1 DEF VMsAreKnown
  <2>3. AllClosed => AllClosed'
    BY <2>1 DEF AllClosed, InFlight
  <2> QED
    BY <1>1, <1>2, <2>1, <2>2, <2>3 DEF CloseInv
<1>8. CASE RunReturns
  BY <1>8, ProcessEndsClose DEF RunReturns
<1>9. CASE CreateRefused
  <2>1. VMsAreKnown'
    BY <1>1, <1>9 DEF VMsAreKnown, CreateRefused
  <2>2. ~AllClosed
    BY <1>9 DEF AllClosed, CreateRefused
  <2> QED
    BY <1>1, <1>3, <1>9, <2>1, <2>2 DEF CloseInv, CreateRefused
<1>10. CASE Factory
  <2>1. VMsAreKnown'
    BY <1>0, <1>1, <1>10 DEF VMsAreKnown, Factory, LoopInv
  <2>2. ~AllClosed
    BY <1>10 DEF AllClosed, Factory
  <2> QED
    BY <1>1, <1>2, <1>10, <2>1, <2>2 DEF CloseInv, Factory
<1>11. CASE StartFails
  <2>1. VMsAreKnown'
    BY <1>1, <1>11 DEF VMsAreKnown, StartFails
  <2>2. ~AllClosed
    BY <1>11 DEF AllClosed, StartFails
  <2> QED
    BY <1>1, <1>3, <1>11, <2>1, <2>2 DEF CloseInv, StartFails
<1>12. CASE StartSucceeds
  <2>1. /\ UNCHANGED <<kind, loopVM, openVMs>> /\ vm' = line.id /\ loop = "start"
        /\ loop' = "scan"
    BY <1>12 DEF StartSucceeds
  <2>2. kind[line.id] = "create" /\ line.id \in Calls /\ line.id # None
    BY <1>0, <1>4, <2>1 DEF LoopInv
  <2>3. VMsAreKnown'
    BY <1>0, <1>1, <2>1, <2>2 DEF VMsAreKnown
  <2>4. ~AllClosed
    BY <2>1 DEF AllClosed
  <2> QED
    BY <1>1, <1>3, <1>12, <2>3, <2>4 DEF CloseInv, StartSucceeds
<1>13. CASE CloseTakes
  <2>1. /\ UNCHANGED <<kind, openVMs, toClient>> /\ vm' = None /\ loopVM' = vm
        /\ entry' = "none" /\ loop = "take" /\ loop' = "closePF"
    BY <1>13 DEF CloseTakes
  <2>2. loopVM = None
    BY <1>0, <2>1 DEF LoopInv, VMInv
  <2>3. VMsAreKnown'
    BY <1>0, <1>1, <2>1, <2>2 DEF VMsAreKnown
  <2>4. ~AllClosed
    BY <2>1 DEF AllClosed
  <2> QED
    BY <1>1, <1>2, <2>1, <2>3, <2>4 DEF CloseInv
<1>14. CASE ClosePortForwards
  <2>1. VMsAreKnown'
    BY <1>1, <1>14 DEF VMsAreKnown, ClosePortForwards
  <2>2. ~AllClosed
    BY <1>14 DEF AllClosed, ClosePortForwards
  <2> QED
    BY <1>1, <1>2, <1>3, <1>14, <2>1, <2>2 DEF CloseInv, ClosePortForwards
<1>15. CASE CloseVM
  <2>1. /\ UNCHANGED <<kind, vm, entry, closed, openPF, hpc>> /\ loop = "closeVM"
        /\ loop' = "scan" /\ loopVM' = None /\ openVMs' = openVMs \ {loopVM}
    BY <1>15 DEF CloseVM
  <2>2. vm = None /\ closed /\ InFlight = {} /\ pf = None /\ loopPF = None
    BY <1>0, <2>1 DEF VMInv, LoopInv, ForwardInv, Serving, Exclusive
  <2>3. openVMs' = {}
    BY <1>0, <1>1, <2>1, <2>2 DEF VMsAreKnown
  <2>4. openPF = {}
    BY <1>0, <2>2 DEF ForwardInv, InFlight
  <2>5. entry = "none"
    BY <1>1, <2>2 DEF VMsAreKnown
  <2>6. InFlight' = {}
    BY <2>1, <2>2 DEF InFlight
  <2>7. AllClosed'
    BY <2>1, <2>2, <2>3, <2>4, <2>5, <2>6 DEF AllClosed
  <2>8. VMsAreKnown'
    BY <1>1, <2>1, <2>3, <2>5 DEF VMsAreKnown
  <2> QED
    BY <2>7, <2>8 DEF CloseInv
<1> QED
  BY <1>5, <1>6, <1>7, <1>8, <1>9, <1>10, <1>11, <1>12, <1>13, <1>14, <1>15 DEF LoopStep

(* A step of a request: there is none in flight once close has answered.     *)
LEMMA GoClose ==
  ASSUME HandlerCore, CloseInv, NEW r \in Calls, UNCHANGED clientVars,
         RequestStep(r) \/ ReadStdin(r) \/ CommandEnds(r)
  PROVE  CloseInv'
<1>0. GoEffect(r) /\ WireTypeOK /\ r \in Ids
  BY GoStepEffect DEF HandlerCore, HandlerTypeOK, Ids
<1>1. VMsAreKnown'
  BY <1>0 DEF GoEffect, loopVars, vmVars, CloseInv, VMsAreKnown
<1>2. ~AllClosed
  BY <1>0 DEF GoEffect, AllClosed, InFlight
<1>3. UNCHANGED toClient \/ Emit("ready", r, TRUE) \/ Emit("response", r, FALSE)
  BY DEF RequestStep, RegisterCancel, Refused, BeginExec, BeginCall, BeginFollow, Enters,
         BeginExecPipe, BeginExecTTY, OpensStdin, SendReady, CommandCancelled, EndRunning,
         Respond, BeginForward, ReplaceForward, Listen, ListenFails, Install, ReadStdin,
         CommandEnds, wireVars
<1>4. UNCHANGED <<closeOK, resCh>>
  BY DEF clientVars
<1>5. ClosedOK' => ClosedOK
  <2>1. CASE UNCHANGED toClient
    BY <1>4, <2>1 DEF ClosedOK
  <2> QED
    BY <1>0, <1>3, <1>4, <2>1, EmitNoOK
<1> QED
  BY <1>1, <1>2, <1>5 DEF CloseInv

(* A step of the client can only pass the answer on.                         *)
LEMMA ClientClose ==
  ASSUME SessionTypeOK, ClientInv, CloseInv, ClientNext, UNCHANGED handlerVars
  PROVE  CloseInv'
<1>0. /\ WireTypeOK /\ toClient \in Seq(ClientLine) /\ Closer \in Ids
      /\ resCh \in [Ids -> {<<>>} \cup {<<r>> : r \in {"ok", "reply", "eof"}}]
      /\ closeOK \in BOOLEAN
  BY DEF SessionTypeOK, HandlerTypeOK, WireTypeOK, ClientTypeOK, Ids
<1>1. UNCHANGED <<kind, exited>>
  BY ClientStep DEF SessionTypeOK, HandlerTypeOK, ClientEffect
<1>2. VMsAreKnown'
  BY <1>1 DEF CloseInv, VMsAreKnown, handlerVars
<1>3. AllClosed' <=> AllClosed
  BY <1>1 DEF AllClosed, InFlight, handlerVars
<1>4. toClient # <<>> /\ toClient' = Tail(toClient) => (OKOnWire' => OKOnWire)
  <2> SUFFICES ASSUME toClient # <<>>, toClient' = Tail(toClient)
               PROVE  OKOnWire' => OKOnWire
    OBVIOUS
  <2>2. \A i \in 1..Len(toClient') :
           i + 1 \in 1..Len(toClient) /\ toClient'[i] = toClient[i + 1]
    BY <1>0, TailFacts
  <2> QED
    BY <2>2 DEF OKOnWire
<1>5. ClosedOK' => ClosedOK
  <2>0. ClosedOK <=> closeOK \/ resCh[Closer] = <<"ok">> \/ OKOnWire
    BY DEF ClosedOK, OKOnWire
  <2>1. ClosedOK' <=> closeOK' \/ resCh'[Closer] = <<"ok">> \/ OKOnWire'
    BY DEF ClosedOK, OKOnWire
  <2>2. CASE UNCHANGED <<toClient, resCh, closeOK>>
    BY <2>2 DEF ClosedOK
  <2>3. ASSUME NEW c \in Ids, Receive(c) PROVE ClosedOK' => ClosedOK
    <3>1. OKOnWire' <=> OKOnWire
      BY <2>3 DEF Receive, wireVars, OKOnWire
    <3>2. resCh'[Closer] = <<"ok">> => resCh[Closer] = <<"ok">>
      BY <1>0, <2>3 DEF Receive
    <3>3. closeOK' => closeOK \/ resCh[Closer] = <<"ok">>
      BY <2>3 DEF Receive
    <3> QED
      BY <2>0, <2>1, <3>1, <3>2, <3>3
  <2>4. ASSUME NEW c \in Ids, Leave(c) \/ FailPending(c) PROVE ClosedOK' => ClosedOK
    <3>1. (OKOnWire' <=> OKOnWire) /\ closeOK' = closeOK
      BY <2>4 DEF Leave, FailPending, wireVars, closeVars, OKOnWire
    <3>2. resCh'[Closer] = <<"ok">> => resCh[Closer] = <<"ok">>
      BY <1>0, <2>4 DEF Leave, FailPending
    <3> QED
      BY <2>0, <2>1, <3>1, <3>2
  <2>5. CASE ReadReady
    <3>1. toClient # <<>> /\ toClient' = Tail(toClient) /\ UNCHANGED <<resCh, closeOK>>
      BY <2>5 DEF ReadReady, NextReply, closeVars
    <3> QED
      BY <1>4, <2>0, <2>1, <3>1
  <2>6. CASE ReadResponse
    <3>1. /\ toClient # <<>> /\ toClient' = Tail(toClient) /\ UNCHANGED closeOK
          /\ Head(toClient) = toClient[1] /\ 1 \in 1..Len(toClient)
          /\ Head(toClient).m = "response" /\ Head(toClient).ok \in BOOLEAN
      BY <1>0, <2>6, NextReplyType DEF ReadResponse, NextReply, closeVars
    <3>2. CASE Head(toClient).ok
      BY <2>0, <3>1, <3>2 DEF OKOnWire
    <3>3. CASE ~Head(toClient).ok
      <4>1. resCh'[Closer] = <<"ok">> => resCh[Closer] = <<"ok">>
        BY <1>0, <2>6, <3>3 DEF ReadResponse
      <4> QED
        BY <1>4, <2>0, <2>1, <3>1, <4>1
    <3> QED
      BY <3>2, <3>3
  <2>7. CASE ReadEOF
    <3>1. toClient' = <<>> /\ UNCHANGED <<resCh, closeOK>>
      BY <2>7 DEF ReadEOF, closeVars
    <3>2. ~OKOnWire'
      <4>1. Len(toClient') = 0
        BY <3>1
      <4> QED
        BY <4>1 DEF OKOnWire
    <3> QED
      BY <2>0, <2>1, <3>1, <3>2
  <2>8. CASE ReaderEnds \/ CloseBegins \/ CloseStep
    <3>1. UNCHANGED <<toClient, resCh, closeOK>>
      BY <2>8 DEF ReaderEnds, CloseBegins, Begin, CloseStep, CloseStdin, CloseReturns,
                  wireVars, closeVars
    <3> QED
      BY <2>2, <3>1
  <2>9. ASSUME NEW c \in Ids,
               Call(c) \/ PumpStep(c) \/ WriteRequest(c) \/ WriteCancel(c) \/ GiveUp(c)
        PROVE  ClosedOK' => ClosedOK
    <3>1. UNCHANGED <<toClient, resCh, closeOK>>
      BY <2>9 DEF Call, Begin, PumpStep, PumpSends, PumpEnds, WriteRequest, WriteCancel,
                  GiveUp, wireVars, closeVars
    <3> QED
      BY <2>2, <3>1
  <2>10. Calls \subseteq Ids
    BY DEF Ids
  <2> QED
    BY <2>3, <2>4, <2>5, <2>6, <2>7, <2>8, <2>9, <2>10
    DEF ClientNext, CallStep, ReaderStep
<1> QED
  BY <1>2, <1>3, <1>5 DEF CloseInv

(* Every step keeps CloseInv.                                                *)
LEMMA CloseStepInv ==
  ASSUME SessionInv, CloseInv, [SessionNext]_vars
  PROVE  CloseInv'
<1>1. CASE HandlerNext /\ UNCHANGED clientVars
  <2>0. ~exited /\ HandlerCore
    BY <1>1 DEF HandlerNext, SessionInv, SessionTypeOK, HandlerCore, HandlerInv
  <2>1. CASE LoopStep
    BY <1>1, <2>0, <2>1, LoopClose
  <2>2. CASE \E r \in Calls : RequestStep(r) \/ ReadStdin(r) \/ CommandEnds(r)
    BY <1>1, <2>0, <2>2, GoClose
  <2>3. CASE EntryEnds \/ Signalled
    <3>1. /\ UNCHANGED <<kind, toClient, exited, closed, loop, line, loopVM, vm, openVMs,
                         openPF, hpc, closeOK, resCh>>
          /\ entry' = entry \/ entry' = "none"
      BY <1>1, <2>3 DEF EntryEnds, Signalled, wireVars, loopVars, goVars, vmVars, pfVars,
                        clientVars
    <3>2. VMsAreKnown'
      BY <3>1 DEF CloseInv, VMsAreKnown
    <3>3. AllClosed => AllClosed'
      BY <3>1 DEF AllClosed, InFlight
    <3>4. ClosedOK' => ClosedOK
      BY <3>1 DEF ClosedOK
    <3> QED
      BY <3>2, <3>3, <3>4 DEF CloseInv
  <2> QED
    BY <1>1, <2>1, <2>2, <2>3 DEF HandlerNext
<1>2. CASE ClientNext /\ UNCHANGED handlerVars
  BY <1>2, ClientClose DEF SessionInv
<1>3. CASE CloseKillsProcess \/ ProcessDies
  <2>1. ProcessEnds /\ UNCHANGED kind
    BY <1>3 DEF CloseKillsProcess, CloseKills, ProcessDies
  <2> QED
    BY <2>1, ProcessEndsClose
<1>4. CASE UNCHANGED vars
  <2>1. UNCHANGED <<kind, toClient, exited, handlerVars, closeOK, resCh>>
    BY <1>4 DEF vars, wireVars, clientVars
  <2>2. VMsAreKnown' /\ (AllClosed => AllClosed')
    BY <2>1 DEF CloseInv, VMsAreKnown, AllClosed, InFlight, handlerVars
  <2>3. ClosedOK' => ClosedOK
    BY <2>1 DEF ClosedOK
  <2> QED
    BY <2>2, <2>3 DEF CloseInv
<1> QED
  BY <1>1, <1>2, <1>3, <1>4 DEF SessionNext

(* CloseInv holds at first when the program creates one VM.                  *)
LEMMA CloseInitInv ==
  ASSUME OneCreate, SessionInit
  PROVE  CloseInv
<1>0. PICK s \in Scenarios : kind = [c \in Ids |-> IF c = Closer THEN "close" ELSE s[c]]
  BY DEF SessionInit, WireInit
<1>1. \A c \in Calls : kind[c] = s[c]
  BY <1>0 DEF Ids
<1>2. VMsAreKnown
  BY <1>1 DEF OneCreate, VMsAreKnown, SessionInit, HandlerInit
<1>3. ~ClosedOK
  <2>1. toClient = <<>> /\ resCh = [c \in Ids |-> <<>>] /\ closeOK = FALSE
    BY DEF SessionInit, WireInit, ClientInit
  <2>2. Len(toClient) = 0
    BY <2>1
  <2>3. resCh[Closer] = <<>> /\ <<>> # <<"ok">>
    BY <2>1 DEF Ids
  <2> QED
    BY <2>1, <2>2, <2>3 DEF ClosedOK
<1> QED
  BY <1>2, <1>3 DEF CloseInv

(***************************************************************************)
(* When the close request is answered without an error, no VM, no port     *)
(* forward and no entrypoint is left, and none appears later: for programs *)
(* that create one VM per client, as the SDK's do.  (handleCreate          *)
(* overwrites h.vm; the VM of an earlier create would stay open.)          *)
(***************************************************************************)
THEOREM CloseIsComplete ==
  ASSUME OneCreate
  PROVE  SessionSpec => []ClosedMeansClosed
<1>1. SessionInit => CloseInv
  BY CloseInitInv
<1>2. SessionInv /\ CloseInv /\ [SessionNext]_vars => CloseInv'
  BY CloseStepInv
<1>3. CloseInv => ClosedMeansClosed
  BY DEF CloseInv, ClosedOK, AllClosed, ClosedMeansClosed
<1> QED
  BY <1>1, <1>2, <1>3, SessionInvariant, PTL DEF SessionSpec
=============================================================================
