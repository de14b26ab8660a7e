-------------------------- MODULE ExecSessionProofs --------------------------
(* That the exec path implements ExecCall, for any calls with any numbers of *)
(* input and output chunks and any size of the command's pipe: ExecInv is    *)
(* inductive, and with it every step is a step of ExecCall or a stutter.     *)
EXTENDS ExecSession, TLAPS

USE DEF Streams, PerStream

-----------------------------------------------------------------------------
(* Frames in a sequence.                                                     *)

(* What Append and Tail do to a sequence.                                    *)
LEMMA AppendFacts ==
  ASSUME NEW S, NEW q \in Seq(S), NEW f \in S
  PROVE  /\ Append(q, f) \in Seq(S) /\ Len(q) \in Nat
         /\ Len(Append(q, f)) = Len(q) + 1
         /\ Append(q, f)[Len(q) + 1] = f
         /\ \A i \in 1..Len(q) : Append(q, f)[i] = q[i]
OBVIOUS

(* What Tail leaves of a sequence.                                           *)
LEMMA TailFacts ==
  ASSUME NEW S, NEW q \in Seq(S), q # <<>>
  PROVE  /\ Tail(q) \in Seq(S) /\ q[1] \in S
         /\ Len(q) \in Nat \ {0} /\ Len(Tail(q)) = Len(q) - 1
         /\ \A i \in 1..Len(q) - 1 : Tail(q)[i] = q[i + 1]
OBVIOUS

(* A prefix of frames decides which is the newest.                           *)
LEMMA NewestPrefix ==
  ASSUME NEW p, NEW q, NEW i \in Nat, NEW s, NEW n, NEW w,
         \A j \in 1..i : p[j] = q[j], Newest(p, i, s, n, w)
  PROVE  Newest(q, i, s, n, w)
BY DEF Newest

(* A frame after the others.                                                 *)
LEMMA NewestAppend ==
  ASSUME NEW S, NEW q \in Seq(S), NEW f \in S, NEW s, NEW n, NEW w,
         IF f.kind = s THEN f.body = w ELSE Newest(q, Len(q), s, n, w)
  PROVE  Newest(Append(q, f), Len(q) + 1, s, n, w)
<1> DEFINE r == Append(q, f)
<1>1. /\ Len(q) \in Nat /\ r[Len(q) + 1] = f
      /\ \A j \in 1..Len(q) : r[j] = q[j]
  BY AppendFacts
<1> HIDE DEF r
<1>2. CASE f.kind = s
  BY <1>1, <1>2 DEF Newest
<1>3. CASE f.kind # s
  <2>1. Newest(r, Len(q), s, n, w)
    BY <1>1, <1>3, NewestPrefix
  <2> QED
    BY <1>1, <1>3, <2>1 DEF Newest
<1> QED
  BY <1>2, <1>3 DEF r

(* The first frame is taken: from now on the numbers count from it.          *)
LEMMA NewestTail ==
  ASSUME NEW S, NEW q \in Seq(S), q # <<>>, NEW i \in 1..Len(q), NEW s, NEW n, NEW w,
         Newest(q, i, s, n, w)
  PROVE  Newest(Tail(q), i - 1, s, IF q[1].kind = s THEN q[1].body ELSE n, w)
<1> DEFINE r == Tail(q)
           m == IF q[1].kind = s THEN q[1].body ELSE n
<1>1. Len(q) \in Nat \ {0} /\ i \in Nat /\ \A j \in 1..i - 1 : r[j] = q[j + 1]
  BY TailFacts
<1>2. CASE n = w /\ \A j \in 1..i : q[j].kind # s
  <2>1. m = w /\ \A j \in 1..i - 1 : r[j].kind # s
    BY <1>1, <1>2
  <2> QED
    BY <2>1 DEF Newest
<1>3. ASSUME NEW j \in 1..i, q[j].kind = s, q[j].body = w,
             \A k \in j + 1..i : q[k].kind # s
      PROVE  Newest(r, i - 1, s, m, w)
  <2>1. \A k \in j..i - 1 : r[k].kind # s
    <3> TAKE k \in j..i - 1
    <3>1. k \in 1..i - 1 /\ k + 1 \in j + 1..i
      BY <1>1
    <3> QED
      BY <1>1, <1>3, <3>1
  <2>2. CASE j = 1
    BY <1>1, <1>3, <2>1, <2>2 DEF Newest
  <2>3. CASE j # 1
    <3>1. j - 1 \in 1..i - 1 /\ r[j - 1] = q[j]
      BY <1>1, <2>3
    <3>2. \A k \in (j - 1) + 1..i - 1 : r[k].kind # s
      BY <1>1, <2>1
    <3> QED
      BY <1>3, <3>1, <3>2 DEF Newest
  <2> QED
    BY <2>2, <2>3
<1>4. \/ n = w /\ \A j \in 1..i : q[j].kind # s
      \/ \E j \in 1..i : /\ q[j].kind = s /\ q[j].body = w
                         /\ \A k \in j + 1..i : q[k].kind # s
  BY DEF Newest
<1> QED
  BY <1>2, <1>3, <1>4

(* Before the first frame nothing is newer than n.                           *)
LEMMA NewestFirst ==
  ASSUME NEW q, NEW s, NEW n, NEW w
  PROVE  Newest(q, 0, s, n, w) <=> n = w
BY DEF Newest

(* A frame that counts on.                                                   *)
LEMMA InOrderAppend ==
  ASSUME NEW S, NEW q \in Seq(S), NEW f \in S, NEW s, NEW n, NEW max,
         InOrder(q, s, n, max),
         Clean(q, Len(q)) /\ f.kind = s
            => f.body <= max /\ Newest(q, Len(q), s, n, f.body - 1),
         s # "garbage"
  PROVE  InOrder(Append(q, f), s, n, max)
<1> DEFINE r == Append(q, f)
<1>1. /\ Len(q) \in Nat /\ r[Len(q) + 1] = f /\ Len(r) = Len(q) + 1
      /\ \A j \in 1..Len(q) : r[j] = q[j]
  BY AppendFacts
<1> HIDE DEF r
<1>2. ASSUME NEW i \in 1..Len(r), Clean(r, i), r[i].kind = s
      PROVE  r[i].body <= max /\ Newest(r, i - 1, s, n, r[i].body - 1)
  <2>1. CASE i = Len(q) + 1
    <3>1. Clean(q, Len(q))
      BY <1>1, <1>2, <2>1 DEF Clean
    <3>2. f.body <= max /\ Newest(q, Len(q), s, n, f.body - 1)
      BY <1>1, <1>2, <2>1, <3>1
    <3>3. Newest(r, Len(q), s, n, f.body - 1)
      BY <1>1, <3>2, NewestPrefix
    <3> QED
      BY <1>1, <2>1, <3>2, <3>3
  <2>2. CASE i \in 1..Len(q)
    <3>1. Clean(q, i) /\ q[i].kind = s
      BY <1>1, <1>2, <2>2 DEF Clean
    <3>2. q[i].body <= max /\ Newest(q, i - 1, s, n, q[i].body - 1)
      BY <2>2, <3>1 DEF InOrder
    <3>3. Newest(r, i - 1, s, n, q[i].body - 1)
      BY <1>1, <2>2, <3>2, NewestPrefix
    <3> QED
      BY <1>1, <2>2, <3>2, <3>3
  <2> QED
    BY <1>1, <2>1, <2>2
<1>3. InOrder(r, s, n, max)
  BY <1>2 DEF InOrder
<1> QED
  BY <1>3 DEF r

(* The first frame of stream s has the next number.                          *)
LEMMA InOrderFirst ==
  ASSUME NEW S, NEW q \in Seq(S), q # <<>>, NEW s, NEW n \in Nat, NEW max,
         InOrder(q, s, n, max), q[1].kind = s, s # "garbage", q[1].body \in Nat
  PROVE  q[1].body = n + 1 /\ q[1].body <= max
<1>1. 1 \in 1..Len(q) /\ Clean(q, 1)
  BY DEF Clean
<1>2. q[1].body <= max /\ Newest(q, 1 - 1, s, n, q[1].body - 1)
  BY <1>1 DEF InOrder
<1>3. n = q[1].body - 1
  BY <1>2 DEF Newest
<1> QED
  BY <1>2, <1>3

(* Frames that are clean after a clean one were clean.                       *)
LEMMA CleanTail ==
  ASSUME NEW S, NEW q \in Seq(S), q # <<>>, q[1].kind # "garbage",
         NEW i \in 0..Len(q) - 1
  PROVE  Clean(Tail(q), i) => Clean(q, i + 1)
<1>1. Len(q) \in Nat \ {0} /\ \A j \in 1..Len(q) - 1 : Tail(q)[j] = q[j + 1]
  BY TailFacts
<1> SUFFICES ASSUME Clean(Tail(q), i), NEW j \in 1..i + 1 PROVE q[j].kind # "garbage"
  BY DEF Clean
<1>2. CASE j = 1
  BY <1>2
<1>3. CASE j # 1
  <2>1. j - 1 \in 1..i /\ Tail(q)[j - 1] = q[j]
    BY <1>1, <1>3
  <2> QED
    BY <2>1 DEF Clean
<1> QED
  BY <1>2, <1>3

(* The first frame is taken.                                                 *)
LEMMA InOrderTail ==
  ASSUME NEW S, NEW q \in Seq(S), q # <<>>, NEW s, NEW n, NEW max,
         InOrder(q, s, n, max), q[1].kind # "garbage"
  PROVE  InOrder(Tail(q), s, IF q[1].kind = s THEN q[1].body ELSE n, max)
<1> DEFINE r == Tail(q)
           m == IF q[1].kind = s THEN q[1].body ELSE n
<1>1. /\ Len(q) \in Nat \ {0} /\ Len(r) = Len(q) - 1
      /\ \A j \in 1..Len(q) - 1 : r[j] = q[j + 1]
  BY TailFacts
<1>2. ASSUME NEW i \in 1..Len(r), Clean(r, i), r[i].kind = s
      PROVE  r[i].body <= max /\ Newest(r, i - 1, s, m, r[i].body - 1)
  <2>1. i + 1 \in 1..Len(q) /\ r[i] = q[i + 1]
    BY <1>1
  <2>2. Clean(q, i + 1)
    BY <1>1, <1>2, <2>1, CleanTail
  <2>3. q[i + 1].body <= max /\ Newest(q, (i + 1) - 1, s, n, q[i + 1].body - 1)
    BY <1>2, <2>1, <2>2 DEF InOrder
  <2>4. i \in 1..Len(q) /\ (i + 1) - 1 = i
    BY <1>1
  <2>5. Newest(r, i - 1, s, m, q[i + 1].body - 1)
    BY <2>3, <2>4, NewestTail
  <2> QED
    BY <2>1, <2>3, <2>5
<1> HIDE DEF r, m
<1>3. InOrder(r, s, m, max)
  BY <1>2 DEF InOrder
<1> QED
  BY <1>3 DEF r, m

(* An answer that is added comes after everything that was sent.             *)
LEMMA EndsAfterAppend ==
  ASSUME NEW S, NEW q \in Seq(S), NEW f \in S, NEW s, NEW n, NEW max,
         EndsAfter(q, s, n, max),
         Clean(q, Len(q)) /\ f.kind \in {"exit", "result"} => Newest(q, Len(q), s, n, max)
  PROVE  EndsAfter(Append(q, f), s, n, max)
<1> DEFINE r == Append(q, f)
<1>1. /\ Len(q) \in Nat /\ r[Len(q) + 1] = f /\ Len(r) = Len(q) + 1
      /\ \A j \in 1..Len(q) : r[j] = q[j]
  BY AppendFacts
<1> HIDE DEF r
<1>2. ASSUME NEW i \in 1..Len(r), Clean(r, i), r[i].kind \in {"exit", "result"}
      PROVE  Newest(r, i - 1, s, n, max)
  <2>1. CASE i = Len(q) + 1
    <3>1. Clean(q, Len(q))
      BY <1>1, <1>2, <2>1 DEF Clean
    <3>2. Newest(q, Len(q), s, n, max)
      BY <1>1, <1>2, <2>1, <3>1
    <3>3. Newest(r, Len(q), s, n, max)
      BY <1>1, <3>2, NewestPrefix
    <3> QED
      BY <1>1, <2>1, <3>3
  <2>2. CASE i \in 1..Len(q)
    <3>1. Clean(q, i) /\ q[i].kind \in {"exit", "result"}
      BY <1>1, <1>2, <2>2 DEF Clean
    <3>2. Newest(q, i - 1, s, n, max)
      BY <2>2, <3>1 DEF EndsAfter
    <3> QED
      BY <1>1, <2>2, <3>2, NewestPrefix
  <2> QED
    BY <1>1, <2>1, <2>2
<1>3. EndsAfter(r, s, n, max)
  BY <1>2 DEF EndsAfter
<1> QED
  BY <1>3 DEF r

(* Taking the first frame keeps every answer behind the output.              *)
LEMMA EndsAfterTail ==
  ASSUME NEW S, NEW q \in Seq(S), q # <<>>, NEW s, NEW n, NEW max,
         EndsAfter(q, s, n, max), q[1].kind # "garbage"
  PROVE  EndsAfter(Tail(q), s, IF q[1].kind = s THEN q[1].body ELSE n, max)
<1> DEFINE r == Tail(q)
           m == IF q[1].kind = s THEN q[1].body ELSE n
<1>1. /\ Len(q) \in Nat \ {0} /\ Len(r) = Len(q) - 1
      /\ \A j \in 1..Len(q) - 1 : r[j] = q[j + 1]
  BY TailFacts
<1>2. ASSUME NEW i \in 1..Len(r), Clean(r, i), r[i].kind \in {"exit", "result"}
      PROVE  Newest(r, i - 1, s, m, max)
  <2>1. i + 1 \in 1..Len(q) /\ r[i] = q[i + 1] /\ i \in 1..Len(q) /\ (i + 1) - 1 = i
    BY <1>1
  <2>2. Clean(q, i + 1)
    BY <1>1, <1>2, <2>1, CleanTail
  <2>3. Newest(q, i, s, n, max)
    BY <1>2, <2>1, <2>2 DEF EndsAfter
  <2> QED
    BY <2>1, <2>3, NewestTail
<1> HIDE DEF r, m
<1>3. EndsAfter(r, s, m, max)
  BY <1>2 DEF EndsAfter
<1> QED
  BY <1>3 DEF r, m

-----------------------------------------------------------------------------
(* The types of the records.                                                 *)

(* The frames the agent writes.                                              *)
LEMMA ResultType ==
  ASSUME NEW c \in Codes, NEW o \in [Streams -> Nat]
  PROVE  Result(c, o) \in EndFrames
BY DEF Result, Frame, EndFrames

(* The exit frame of a status is one of the frames that end a call.          *)
LEMMA ExitType == \A c \in Codes : Frame("exit", c) \in EndFrames
BY DEF Frame, EndFrames

(* A chunk of a stream is an output frame.                                   *)
LEMMA ChunkType == \A s \in Streams, n \in Nat : Frame(s, n) \in OutFrames
BY DEF Frame, OutFrames

(* What a write of the agent leaves of the connection.                       *)
LEMMA WritesType ==
  ASSUME NEW l \in Vsocks, NEW f \in OutFrames \cup EndFrames
  PROVE  Writes(l, f) \in Vsocks
<1>1. f \in GuestFrames /\ Frame("garbage", 0) \in GuestFrames
  BY DEF GuestFrames, Frame
<1>2. \A e \in {f, Frame("garbage", 0)} : Sent(l.gh, Open(l), e) \in Seq(GuestFrames)
  BY <1>1, AppendFacts DEF Sent, Vsocks
<1> QED
  BY <1>2 DEF Writes, Vsocks

(* The same with the two writes of a copier.                                 *)
LEMMA CopierWritesType ==
  ASSUME NEW l \in Vsocks, NEW s \in Streams, NEW f \in OutFrames
  PROVE  Begins(l, s) \in Vsocks /\ Ends(l, s, f) \in Vsocks
<1>1. f \in GuestFrames /\ Frame("garbage", 0) \in GuestFrames
  BY DEF GuestFrames, Frame
<1>2. \A e \in {f, Frame("garbage", 0)} : Sent(l.gh, Open(l), e) \in Seq(GuestFrames)
  BY <1>1, AppendFacts DEF Sent, Vsocks
<1>3. Begins(l, s) \in Vsocks
  BY <1>2 DEF Begins, Vsocks
<1>4. Ends(l, s, f) \in Vsocks
  BY <1>2 DEF Ends, Vsocks
<1> QED
  BY <1>3, <1>4

(* A command that is started, and one that is not.                           *)
LEMMA StartedType ==
  ASSUME ExecTypeOK, NEW w \in [Streams -> {"off", "reading", "half", "done"}], Started(w)
  PROVE  v' \in Vsocks /\ guest' \in Agents /\ proc' \in Processes
<1>1. guest' \in Agents
  BY DEF ExecTypeOK, Started, Agents
<1>2. proc' \in Processes
  BY DEF ExecTypeOK, Started, Processes
<1> QED
  BY <1>1, <1>2 DEF ExecTypeOK, Started

(* A handler that cannot start the command keeps the types.                  *)
LEMMA StartFailsType ==
  ASSUME ExecTypeOK, NEW l \in Vsocks, NEW c \in Codes \ {"wrapped"}, NEW n \in Nat,
         StartFails(l, c, n)
  PROVE  v' \in Vsocks /\ guest' \in Agents /\ proc' \in Processes
<1>1. v' \in Vsocks
  BY DEF ExecTypeOK, StartFails, Vsocks
<1>2. guest' \in Agents
  BY DEF ExecTypeOK, StartFails, Agents
<1>3. proc' \in Processes
  BY DEF ExecTypeOK, StartFails, Processes
<1> QED
  BY <1>1, <1>2, <1>3

(* The agent's reader and its timer keep the types.                          *)
LEMMA AgentReaderType ==
  ASSUME ExecTypeOK, AgentReader \/ KillAfterGrace
  PROVE  ExecTypeOK'
<1>1. CASE ReadStdin
  <2>1. v' \in Vsocks
    BY <1>1, TailFacts DEF ExecTypeOK, Vsocks, ReadStdin
  <2>2. guest' \in Agents
    BY <1>1 DEF ExecTypeOK, Agents, ReadStdin
  <2>3. proc' \in Processes
    BY <1>1 DEF ExecTypeOK, Processes, ReadStdin, Fed
  <2> QED
    BY <1>1, <2>1, <2>2, <2>3 DEF ExecTypeOK, ReadStdin, Idle
<1>2. CASE WriteStdin
  <2>1. guest' \in Agents
    BY <1>2 DEF ExecTypeOK, Agents, WriteStdin
  <2>2. proc' \in Processes
    BY <1>2 DEF ExecTypeOK, Processes, WriteStdin, Fed
  <2> QED
    BY <1>2, <2>1, <2>2 DEF ExecTypeOK, WriteStdin, Idle
<1>3. CASE ReadStdinEnd
  <2>1. v' \in Vsocks
    BY <1>3, TailFacts DEF ExecTypeOK, Vsocks, ReadStdinEnd
  <2>2. guest' \in Agents
    BY <1>3 DEF ExecTypeOK, Agents, ReadStdinEnd
  <2>3. proc' \in Processes
    BY <1>3 DEF ExecTypeOK, Processes, ReadStdinEnd
  <2> QED
    BY <1>3, <2>1, <2>2, <2>3 DEF ExecTypeOK, ReadStdinEnd, Idle
<1>4. CASE ReadControl
  <2>1. v' \in Vsocks
    BY <1>4, TailFacts DEF ExecTypeOK, Vsocks, ReadControl
  <2>2. guest' \in Agents
    BY <1>4 DEF ExecTypeOK, Agents, ReadControl
  <2>3. proc' \in Processes
    BY <1>4 DEF ExecTypeOK, Processes, ReadControl
  <2> QED
    BY <1>4, <2>1, <2>2, <2>3 DEF ExecTypeOK, ReadControl, Idle
<1>5. CASE MonitorHangup
  <2>1. guest' \in Agents
    BY <1>5 DEF ExecTypeOK, Agents, MonitorHangup
  <2> QED
    BY <1>5, <2>1 DEF ExecTypeOK, MonitorHangup, Idle
<1>6. CASE PipeHangup
  <2>1. guest' \in Agents
    BY <1>6 DEF ExecTypeOK, Agents, PipeHangup
  <2>2. proc' \in Processes
    BY <1>6 DEF ExecTypeOK, Processes, PipeHangup
  <2> QED
    BY <1>6, <2>1, <2>2 DEF ExecTypeOK, PipeHangup, Idle
<1>7. CASE TTYHangup
  <2>1. guest' \in Agents
    BY <1>7 DEF ExecTypeOK, Agents, TTYHangup
  <2> QED
    BY <1>7, <2>1 DEF ExecTypeOK, TTYHangup, Idle
<1>8. CASE Terminate
  <2>1. guest' \in Agents
    BY <1>8 DEF ExecTypeOK, Agents, Terminate
  <2>2. proc' \in Processes
    BY <1>8 DEF ExecTypeOK, Processes, Terminate
  <2> QED
    BY <1>8, <2>1, <2>2 DEF ExecTypeOK, Terminate, Idle
<1>9. CASE KillAfterGrace
  <2>1. guest' \in Agents
    BY <1>9 DEF ExecTypeOK, Agents, KillAfterGrace
  <2>2. proc' \in Processes
    BY <1>9 DEF ExecTypeOK, Processes, KillAfterGrace
  <2> QED
    BY <1>9, <2>1, <2>2 DEF ExecTypeOK, KillAfterGrace, Idle
<1> QED
  BY <1>1, <1>2, <1>3, <1>4, <1>5, <1>6, <1>7, <1>8, <1>9 DEF AgentReader

(* The agent's handlers keep the types.                                      *)
LEMMA AgentMainType ==
  ASSUME ExecTypeOK, AgentMain
  PROVE  ExecTypeOK'
<1>1. CASE AcceptRequest
  <2>1. v' \in Vsocks
    <3>1. CASE v.hg # <<>> /\ v' = [v EXCEPT !.hg = Tail(@)]
      BY <3>1, TailFacts DEF ExecTypeOK, Vsocks
    <3>2. CASE v' = [v EXCEPT !.g = FALSE]
      BY <3>2 DEF ExecTypeOK, Vsocks
    <3> QED
      BY <1>1, <3>1, <3>2 DEF AcceptRequest
  <2>2. guest' \in Agents
    BY <1>1 DEF ExecTypeOK, Agents, AcceptRequest
  <2> QED
    BY <1>1, <2>1, <2>2 DEF ExecTypeOK, AcceptRequest, Idle
<1>2. CASE ServeFile
  <2>1. PICK c \in {"zero", "error"} :
              /\ v' = [Writes(v, Result(c, PerStream(0))) EXCEPT !.g = FALSE]
              /\ proc' = [proc EXCEPT !.st = "gone", !.code = c]
    BY <1>2 DEF ServeFile
  <2>2. Writes(v, Result(c, PerStream(0))) \in Vsocks
    BY WritesType, ResultType DEF ExecTypeOK, Codes
  <2>3. v' \in Vsocks
    BY <2>1, <2>2 DEF Vsocks
  <2>4. proc' \in Processes
    BY <2>1 DEF ExecTypeOK, Processes, Codes
  <2>5. guest' \in Agents
    BY <1>2 DEF ExecTypeOK, Agents, ServeFile
  <2> QED
    BY <1>2, <2>3, <2>4, <2>5 DEF ExecTypeOK, ServeFile, Idle
<1>3. CASE handleExecBatch
  <2>1. ASSUME Started(PerStream("done"))
        PROVE  v' \in Vsocks /\ guest' \in Agents /\ proc' \in Processes
    BY <2>1, StartedType
  <2>2. Writes(v, Result("error", PerStream(0))) \in Vsocks
    BY WritesType, ResultType DEF ExecTypeOK, Codes
  <2>3. ASSUME StartFails(Writes(v, Result("error", PerStream(0))), "error", 0)
        PROVE  v' \in Vsocks /\ guest' \in Agents /\ proc' \in Processes
    BY <2>2, <2>3, StartFailsType DEF Codes
  <2> QED
    BY <1>3, <2>1, <2>3 DEF ExecTypeOK, handleExecBatch, Idle
<1>4. CASE handleExecStreamBatch
  <2>1. ASSUME Started(PerStream("reading"))
        PROVE  v' \in Vsocks /\ guest' \in Agents /\ proc' \in Processes
    BY <2>1, StartedType
  <2>2. Writes(v, Result("error", PerStream(0))) \in Vsocks
    BY WritesType, ResultType DEF ExecTypeOK, Codes
  <2>3. ASSUME StartFails(Writes(v, Result("error", PerStream(0))), "error", 0)
        PROVE  v' \in Vsocks /\ guest' \in Agents /\ proc' \in Processes
    BY <2>2, <2>3, StartFailsType DEF Codes
  <2> QED
    BY <1>4, <2>1, <2>3 DEF ExecTypeOK, handleExecStreamBatch, Idle
<1>5. CASE handleExecPipe
  <2>1. ASSUME Started(PerStream("reading"))
        PROVE  v' \in Vsocks /\ guest' \in Agents /\ proc' \in Processes
    BY <2>1, StartedType
  <2>2. Writes(Writes(v, Frame("stderr", 1)), Frame("exit", "one")) \in Vsocks
    BY WritesType, ChunkType, ExitType DEF ExecTypeOK, Codes
  <2>3. ASSUME StartFails(Writes(Writes(v, Frame("stderr", 1)), Frame("exit", "one")), "one", 1)
        PROVE  v' \in Vsocks /\ guest' \in Agents /\ proc' \in Processes
    BY <2>2, <2>3, StartFailsType DEF Codes
  <2> QED
    BY <1>5, <2>1, <2>3 DEF ExecTypeOK, handleExecPipe, Idle
<1>6. CASE handleExecTTY
  <2>1. ASSUME Started([stdout |-> "reading", stderr |-> "done"])
        PROVE  v' \in Vsocks /\ guest' \in Agents /\ proc' \in Processes
    BY <2>1, StartedType
  <2>2. Writes(v, Frame("exit", "one")) \in Vsocks
    BY WritesType, ExitType DEF ExecTypeOK, Codes
  <2>3. ASSUME StartFails(Writes(v, Frame("exit", "one")), "one", 0)
        PROVE  v' \in Vsocks /\ guest' \in Agents /\ proc' \in Processes
    BY <2>2, <2>3, StartFailsType DEF Codes
  <2> QED
    BY <1>6, <2>1, <2>3 DEF ExecTypeOK, handleExecTTY, Idle
<1>7. CASE WaitCommand
  <2>1. guest' \in Agents
    BY <1>7 DEF ExecTypeOK, Agents, WaitCommand
  <2> QED
    BY <1>7, <2>1 DEF ExecTypeOK, WaitCommand, Idle
<1>8. CASE WaitTTY
  <2>1. guest' \in Agents
    BY <1>8 DEF ExecTypeOK, Agents, WaitTTY
  <2> QED
    BY <1>8, <2>1 DEF ExecTypeOK, WaitTTY, Idle
<1>9. CASE sendExecResponse
  <2>1. /\ proc.code \in Codes /\ proc.out \in [Streams -> Nat]
        /\ PerStream(0) \in [Streams -> Nat]
    BY DEF ExecTypeOK, Processes
  <2>2. v' \in Vsocks
    BY <1>9, <2>1, WritesType, ResultType DEF ExecTypeOK, sendExecResponse
  <2>3. guest' \in Agents
    BY <1>9 DEF ExecTypeOK, Agents, sendExecResponse
  <2> QED
    BY <1>9, <2>2, <2>3 DEF ExecTypeOK, sendExecResponse, Idle
<1>10. CASE sendExitCode
  <2>1. Encoded(proc.code) \in Codes
    BY DEF ExecTypeOK, Processes, Encoded, Codes
  <2>2. v' \in Vsocks
    BY <1>10, <2>1, WritesType, ExitType DEF ExecTypeOK, sendExitCode
  <2>3. guest' \in Agents
    BY <1>10 DEF ExecTypeOK, Agents, sendExitCode
  <2> QED
    BY <1>10, <2>2, <2>3 DEF ExecTypeOK, sendExitCode, Idle
<1>11. CASE CloseConn
  <2>1. v' \in Vsocks
    BY <1>11 DEF ExecTypeOK, Vsocks, CloseConn
  <2>2. guest' \in Agents
    BY <1>11 DEF ExecTypeOK, Agents, CloseConn
  <2> QED
    BY <1>11, <2>1, <2>2 DEF ExecTypeOK, CloseConn, Idle
<1> QED
  BY <1>1, <1>2, <1>3, <1>4, <1>5, <1>6, <1>7, <1>8, <1>9, <1>10, <1>11 DEF AgentMain

(* The process and the copiers.                                              *)
LEMMA EmitType ==
  ASSUME ExecTypeOK, NEW s \in Streams
  PROVE  LET p == Emit(proc, s)
         IN  /\ p \in Processes /\ p.st = proc.st /\ p.code = proc.code
             /\ \E t \in Streams : /\ p.out = [proc.out EXCEPT ![t] = @ + 1]
                                   /\ p.pipe = [proc.pipe EXCEPT ![t] = @ + 1]
<1> DEFINE t == IF call.mode = "tty" THEN "stdout" ELSE s
           o == [proc.out EXCEPT ![t] = @ + 1]
           w == [proc.pipe EXCEPT ![t] = @ + 1]
<1>1. t \in Streams /\ o \in [Streams -> Nat] /\ w \in [Streams -> Nat]
  BY DEF ExecTypeOK, Processes
<1>2. Emit(proc, s) = [proc EXCEPT !.out = o, !.pipe = w]
  BY DEF Emit
<1> DEFINE p == [proc EXCEPT !.out = o, !.pipe = w]
<1>3. p \in Processes
  BY <1>1 DEF ExecTypeOK, Processes
<1>4. p.st = proc.st /\ p.code = proc.code /\ p.out = o /\ p.pipe = w
  BY DEF ExecTypeOK, Processes
<1> QED
  BY <1>1, <1>2, <1>3, <1>4

(* The launcher and the command keep the types.                              *)
LEMMA CommandType ==
  ASSUME ExecTypeOK, RunLauncher \/ CommandRuns \/ CommandSignalled
  PROVE  ExecTypeOK'
<1>1. UNCHANGED <<call, cli, u, relay, bk, v, guest>>
  BY DEF RunLauncher, CommandRuns, CommandSignalled, Idle
<1>2. proc' \in Processes
  <2>1. CASE RunLauncher
    <3>1. Emit(proc, "stderr") \in Processes
      BY EmitType
    <3>2. [Emit(proc, "stderr") EXCEPT !.st = "gone", !.code = "127"] \in Processes
      BY <3>1 DEF Processes, Codes
    <3>3. [proc EXCEPT !.st = "running"] \in Processes
      BY DEF ExecTypeOK, Processes
    <3> QED
      BY <2>1, <3>2, <3>3 DEF RunLauncher
  <2>2. CASE CommandRuns
    <3>1. ASSUME NEW s \in Streams, proc' = Emit(proc, s) PROVE proc' \in Processes
      BY <3>1, EmitType
    <3>2. ASSUME proc.in > 0 PROVE [proc EXCEPT !.in = @ - 1] \in Processes
      BY <3>2 DEF ExecTypeOK, Processes
    <3>3. ASSUME NEW c \in {"zero", "signal"}
          PROVE  [proc EXCEPT !.st = "gone", !.code = c] \in Processes
      BY DEF ExecTypeOK, Processes, Codes
    <3> QED
      BY <2>2, <3>1, <3>2, <3>3 DEF CommandRuns
  <2>3. CASE CommandSignalled
    <3>1. [proc EXCEPT !.sig = @ \ {"TERM"}] \in Processes
      BY DEF ExecTypeOK, Processes
    <3>2. [proc EXCEPT !.st = "gone", !.code = "signal", !.sig = {}] \in Processes
      BY DEF ExecTypeOK, Processes, Codes
    <3> QED
      BY <2>3, <3>1, <3>2 DEF CommandSignalled
  <2> QED
    BY <2>1, <2>2, <2>3
<1> QED
  BY <1>1, <1>2 DEF ExecTypeOK

(* A copier keeps the types: it numbers chunks the command has written.      *)
LEMMA AgentCopierType ==
  ASSUME ExecTypeOK, NEW s \in Streams, AgentCopier(s),
         guest.w[s] = "half" => proc.pipe[s] < proc.out[s]
  PROVE  ExecTypeOK'
<1>1. CASE CopyHeader(s)
  <2>1. v' \in Vsocks
    BY <1>1, CopierWritesType, ChunkType DEF ExecTypeOK, CopyHeader
  <2>2. guest' \in Agents
    BY <1>1 DEF ExecTypeOK, Agents, CopyHeader
  <2>3. proc' \in Processes
    BY <1>1 DEF ExecTypeOK, Processes, CopyHeader
  <2> QED
    BY <1>1, <2>1, <2>2, <2>3 DEF ExecTypeOK, CopyHeader, Idle
<1>2. CASE CopyPayload(s)
  <2>1. proc.out[s] - proc.pipe[s] \in Nat
    BY <1>2 DEF ExecTypeOK, Processes, CopyPayload
  <2>2. v' \in Vsocks
    BY <1>2, <2>1, CopierWritesType, ChunkType DEF ExecTypeOK, CopyPayload
  <2>3. guest' \in Agents
    BY <1>2 DEF ExecTypeOK, Agents, CopyPayload
  <2> QED
    BY <1>2, <2>2, <2>3 DEF ExecTypeOK, CopyPayload, Idle
<1>3. CASE CopyEnd(s)
  <2>1. guest' \in Agents
    BY <1>3 DEF ExecTypeOK, Agents, CopyEnd
  <2> QED
    BY <1>3, <2>1 DEF ExecTypeOK, CopyEnd, Idle
<1> QED
  BY <1>1, <1>2, <1>3 DEF AgentCopier

(* The frames to the guest and between the client and the relay.             *)
LEMMA InFrameType ==
  /\ \A k \in {"stdin", "end", "resize", "signal", "garbage"}, b \in {0, 1} :
        Frame(k, b) \in InFrames
  /\ \A m \in Modes : Frame("req", m) \in InFrames
BY DEF Frame, InFrames

(* What the host writes keeps the type of the connection.                    *)
LEMMA HostWritesType ==
  ASSUME NEW l \in Vsocks, NEW f \in InFrames
  PROVE  HostWrites(l, f) \in Vsocks /\ HostBegins(l, "stdin") \in Vsocks
         /\ HostEnds(l, "stdin", f) \in Vsocks
<1>1. Frame("garbage", 0) \in InFrames
  BY InFrameType
<1>2. \A e \in {f, Frame("garbage", 0)} : Sent(l.hg, Open(l), e) \in Seq(InFrames)
  BY <1>1, AppendFacts DEF Sent, Vsocks
<1>3. HostWrites(l, f) \in Vsocks
  BY <1>2 DEF HostWrites, Vsocks
<1>4. HostBegins(l, "stdin") \in Vsocks
  BY <1>2 DEF HostBegins, Vsocks
<1>5. HostEnds(l, "stdin", f) \in Vsocks
  BY <1>2 DEF HostEnds, Vsocks
<1> QED
  BY <1>3, <1>4, <1>5

(* A dial, successful or not, keeps the types.                               *)
LEMMA DialledType ==
  ASSUME ExecTypeOK, NEW m \in {"off", "reading"}, Dialled(m)
  PROVE  v' \in Vsocks /\ guest' \in Agents /\ bk' \in Backends
<1>1. call.mode \in Modes
  BY ExecBounds DEF ExecTypeOK, Modes
<1>2. <<Frame("req", call.mode)>> \in Seq(InFrames)
  BY <1>1, InFrameType
<1>3. v' \in Vsocks
  BY <1>2 DEF ExecTypeOK, Dialled, Vsocks
<1>4. guest' \in Agents
  BY DEF ExecTypeOK, Dialled, Agents
<1>5. bk' \in Backends
  BY DEF ExecTypeOK, Dialled, Backends, Codes
<1> QED
  BY <1>3, <1>4, <1>5

(* The first frame that waits for the backend.                               *)
LEMMA FirstFrameType ==
  ASSUME ExecTypeOK, v.gh # <<>>
  PROVE  /\ v.gh[1] \in GuestFrames
         /\ v.gh[1].kind \in Streams => v.gh[1] \in OutFrames
         /\ v.gh[1].kind = "exit" => v.gh[1].body \in Codes
         /\ v.gh[1].kind = "result" => /\ v.gh[1].body.code \in Codes
                                        /\ v.gh[1].body.out \in [Streams -> Nat]
<1>1. v.gh[1] \in GuestFrames
  BY TailFacts DEF ExecTypeOK, Vsocks
<1> QED
  BY <1>1 DEF GuestFrames, OutFrames, EndFrames

(* Handing a chunk to the caller keeps the types.                            *)
LEMMA ForwardType ==
  ASSUME ExecTypeOK, NEW s \in Streams, NEW n \in Nat, Forward(s, n)
  PROVE  u' \in Sockets /\ cli' \in Callers
<1>1. CASE call.via = "relay"
  <2>1. Sent(u.rc, u.c /\ u.r, Frame(s, n)) \in Seq(OutFrames \cup EndFrames)
    BY AppendFacts, ChunkType DEF ExecTypeOK, Sockets, Sent
  <2> QED
    BY <1>1, <2>1 DEF ExecTypeOK, Sockets, Forward
<1>2. CASE call.via # "relay"
  <2>1. Append(cli.out[s], n) \in Seq(Nat)
    BY DEF ExecTypeOK, Callers
  <2>2. [cli.out EXCEPT ![s] = Append(cli.out[s], n)] \in [Streams -> Seq(Nat)]
    BY <2>1 DEF ExecTypeOK, Callers
  <2> QED
    BY <1>2, <2>2 DEF ExecTypeOK, Callers, Forward
<1> QED
  BY <1>1, <1>2

(* The backend's main goroutine keeps the types.                             *)
LEMMA BackendMainType ==
  ASSUME ExecTypeOK, BackendMain \/ CancelCloses
  PROVE  ExecTypeOK'
<1>1. CASE execVsock
  <2>1. v' \in Vsocks /\ guest' \in Agents /\ bk' \in Backends
    BY <1>1, DialledType DEF execVsock
  <2> QED
    BY <1>1, <2>1 DEF ExecTypeOK, execVsock, Requested
<1>2. CASE ExecPipe
  <2>1. v' \in Vsocks /\ guest' \in Agents /\ bk' \in Backends
    BY <1>2, DialledType DEF ExecPipe
  <2> QED
    BY <1>2, <2>1 DEF ExecTypeOK, ExecPipe, Requested
<1>3. CASE ExecInteractive
  <2>1. v' \in Vsocks /\ guest' \in Agents /\ bk' \in Backends
    BY <1>3, DialledType DEF ExecInteractive
  <2> QED
    BY <1>3, <2>1 DEF ExecTypeOK, ExecInteractive, Requested
<1>4. CASE fileRPC
  <2>1. v' \in Vsocks /\ guest' \in Agents /\ bk' \in Backends
    BY <1>4, DialledType DEF fileRPC
  <2> QED
    BY <1>4, <2>1 DEF ExecTypeOK, fileRPC, Requested
<1>5. CASE RequestFails
  <2>1. v' \in Vsocks
    BY <1>5 DEF ExecTypeOK, Vsocks, RequestFails
  <2>2. guest' \in Agents
    BY <1>5 DEF ExecTypeOK, Agents, RequestFails
  <2>3. bk' \in Backends
    BY <1>5 DEF ExecTypeOK, Backends, RequestFails, Codes
  <2> QED
    BY <1>5, <2>1, <2>2, <2>3 DEF ExecTypeOK, RequestFails, Requested
<1>6. CASE TakeOutcome
  <2>1. v' \in Vsocks
    BY <1>6 DEF ExecTypeOK, Vsocks, TakeOutcome
  <2>2. bk' \in Backends
    BY <1>6 DEF ExecTypeOK, Backends, TakeOutcome, Codes
  <2> QED
    BY <1>6, <2>1, <2>2 DEF ExecTypeOK, TakeOutcome
<1>7. CASE TakeCancel
  <2>1. HostWrites(v, Frame("signal", 0)) \in Vsocks
    BY HostWritesType, InFrameType DEF ExecTypeOK
  <2>2. v' \in Vsocks
    BY <1>7, <2>1 DEF ExecTypeOK, Vsocks, TakeCancel
  <2>3. bk' \in Backends
    BY <1>7 DEF ExecTypeOK, Backends, TakeCancel, Codes
  <2> QED
    BY <1>7, <2>2, <2>3 DEF ExecTypeOK, TakeCancel
<1>8. CASE CancelCloses
  <2>1. v' \in Vsocks
    BY <1>8 DEF ExecTypeOK, Vsocks, CancelCloses
  <2> QED
    BY <1>8, <2>1 DEF ExecTypeOK, CancelCloses
<1> QED
  BY <1>1, <1>2, <1>3, <1>4, <1>5, <1>6, <1>7, <1>8 DEF BackendMain

(* The backend's reader keeps the types.                                     *)
LEMMA BackendReaderType ==
  ASSUME ExecTypeOK, BackendReader
  PROVE  ExecTypeOK'
<1>1. CASE ReadOutput
  <2>1. v.gh[1].kind \in Streams /\ v.gh[1].body \in Nat
    BY <1>1, FirstFrameType DEF ReadOutput, OutFrames
  <2>2. u' \in Sockets /\ cli' \in Callers
    BY <1>1, <2>1, ForwardType DEF ReadOutput
  <2>3. v' \in Vsocks
    BY <1>1, TailFacts DEF ExecTypeOK, Vsocks, ReadOutput
  <2> QED
    BY <1>1, <2>2, <2>3 DEF ExecTypeOK, ReadOutput
<1>2. CASE ReadResult
  <2>1. bk' \in Backends
    BY <1>2, FirstFrameType DEF ExecTypeOK, Backends, ReadResult, LastFrame, Codes
  <2> QED
    BY <1>2, <2>1 DEF ExecTypeOK, ReadResult
<1>3. CASE ReadExit
  <2>1. bk' \in Backends
    BY <1>3, FirstFrameType DEF ExecTypeOK, Backends, ReadExit, LastFrame, Codes
  <2> QED
    BY <1>3, <2>1 DEF ExecTypeOK, ReadExit
<1>4. CASE ReadGarbage
  <2>1. bk' \in Backends
    BY <1>4 DEF ExecTypeOK, Backends, ReadGarbage
  <2> QED
    BY <1>4, <2>1 DEF ExecTypeOK, ReadGarbage
<1>5. CASE WriteLate
  <2>1. v.gh[1].kind \in Streams /\ v.gh[1].body \in Nat
    BY <1>5, FirstFrameType DEF WriteLate, OutFrames
  <2>2. u' \in Sockets /\ cli' \in Callers
    BY <1>5, <2>1, ForwardType DEF WriteLate
  <2>3. v' \in Vsocks
    <3>1. <<>> \in Seq(GuestFrames)
      OBVIOUS
    <3> QED
      BY <1>5, <3>1 DEF ExecTypeOK, Vsocks, WriteLate
  <2> QED
    BY <1>5, <2>2, <2>3 DEF ExecTypeOK, WriteLate
<1> QED
  BY <1>1, <1>2, <1>3, <1>4, <1>5 DEF BackendReader

(* The backend's stdin and resize goroutines keep the types.                 *)
LEMMA BackendStdinType ==
  ASSUME ExecTypeOK, BackendStdin \/ PumpResize
  PROVE  ExecTypeOK'
<1>1. CASE PumpStdin
  <2>1. relay' \in Relays
    BY <1>1 DEF ExecTypeOK, Relays, PumpStdin
  <2>2. v' \in Vsocks
    BY <1>1, HostWritesType, InFrameType DEF ExecTypeOK, PumpStdin
  <2>3. bk' \in Backends
    BY <1>1 DEF ExecTypeOK, Backends, PumpStdin
  <2> QED
    BY <1>1, <2>1, <2>2, <2>3 DEF ExecTypeOK, PumpStdin
<1>2. CASE PumpHeader
  <2>1. relay' \in Relays
    BY <1>2 DEF ExecTypeOK, Relays, PumpHeader
  <2>2. v' \in Vsocks
    BY <1>2, HostWritesType, InFrameType DEF ExecTypeOK, PumpHeader
  <2>3. bk' \in Backends
    BY <1>2 DEF ExecTypeOK, Backends, PumpHeader
  <2> QED
    BY <1>2, <2>1, <2>2, <2>3 DEF ExecTypeOK, PumpHeader
<1>3. CASE PumpPayload
  <2>1. v' \in Vsocks
    BY <1>3, HostWritesType, InFrameType DEF ExecTypeOK, PumpPayload
  <2>2. bk' \in Backends
    BY <1>3 DEF ExecTypeOK, Backends, PumpPayload
  <2> QED
    BY <1>3, <2>1, <2>2 DEF ExecTypeOK, PumpPayload
<1>4. CASE PumpEnd
  <2>1. v' \in Vsocks
    BY <1>4, HostWritesType, InFrameType DEF ExecTypeOK, PumpEnd
  <2>2. bk' \in Backends
    BY <1>4 DEF ExecTypeOK, Backends, PumpEnd
  <2> QED
    BY <1>4, <2>1, <2>2 DEF ExecTypeOK, PumpEnd
<1>5. CASE PumpResize
  <2>1. relay' \in Relays
    BY <1>5 DEF ExecTypeOK, Relays, PumpResize
  <2>2. v' \in Vsocks
    BY <1>5, HostWritesType, InFrameType DEF ExecTypeOK, PumpResize
  <2> QED
    BY <1>5, <2>1, <2>2 DEF ExecTypeOK, PumpResize
<1> QED
  BY <1>1, <1>2, <1>3, <1>4, <1>5 DEF BackendStdin

(* The frames between the client and the relay.                              *)
LEMMA ConnectedType ==
  ASSUME ExecTypeOK, NEW modes, Connected(modes)
  PROVE  ExecTypeOK'
<1>1. call.mode \in Modes
  BY ExecBounds DEF ExecTypeOK, Modes
<1>2. <<Frame("req", call.mode)>> \in Seq(InFrames)
  BY <1>1, InFrameType
<1>3. u' \in Sockets
  BY <1>2 DEF ExecTypeOK, Connected, Sockets
<1>4. cli' \in Callers
  BY DEF ExecTypeOK, Connected, Callers, Codes
<1> QED
  BY <1>3, <1>4 DEF ExecTypeOK, Connected, Rest

(* A frame of the client keeps the type of its connection.                   *)
LEMMA SentInType ==
  ASSUME ExecTypeOK, NEW k \in {"stdin", "end", "resize"}, NEW b \in {0, 1}, NEW e
  PROVE  [u EXCEPT !.cr = Sent(u.cr, e, Frame(k, b))] \in Sockets
<1>1. Sent(u.cr, e, Frame(k, b)) \in Seq(InFrames)
  BY AppendFacts, InFrameType DEF ExecTypeOK, Sockets, Sent
<1> QED
  BY <1>1 DEF ExecTypeOK, Sockets

(* The first frame that waits for the client.                                *)
LEMMA FirstReplyType ==
  ASSUME ExecTypeOK, u.rc # <<>>
  PROVE  /\ u.rc[1] \in OutFrames \cup EndFrames
         /\ u.rc[1].kind \in Streams => u.rc[1].body \in Nat
         /\ u.rc[1].kind = "exit" => u.rc[1].body \in Codes
         /\ u.rc[1].kind = "result" => /\ u.rc[1].body.code \in Codes
                                        /\ u.rc[1].body.out \in [Streams -> Nat]
<1>1. u.rc[1] \in OutFrames \cup EndFrames
  BY TailFacts DEF ExecTypeOK, Sockets
<1> QED
  BY <1>1 DEF OutFrames, EndFrames

(* The first n chunks are a sequence of length n.                            *)
LEMMA FirstNType == \A n \in Nat : FirstN(n) \in Seq(Nat) /\ Len(FirstN(n)) = n
<1> TAKE n \in Nat
<1>1. FirstN(n) \in [1..n -> Nat]
  BY DEF FirstN
<1> QED
  BY <1>1

(* The client and the direct caller keep the types.                          *)
LEMMA CallerStepsType ==
  ASSUME ExecTypeOK, AgentInv, CallerSteps
  PROVE  ExecTypeOK'
<1>1. CASE ExecViaRelay
  BY <1>1, ConnectedType DEF ExecViaRelay
<1>2. CASE ExecPipeViaRelay
  BY <1>2, ConnectedType DEF ExecPipeViaRelay
<1>3. CASE ExecInteractiveViaRelay
  BY <1>3, ConnectedType DEF ExecInteractiveViaRelay
<1>4. CASE ReceiveReply
  <2>1. u' \in Sockets
    BY <1>4 DEF ExecTypeOK, Sockets, ReceiveReply, Returns
  <2>2. ASSUME u.rc # <<>>
        PROVE  /\ u.rc[1].body.code \in Codes
               /\ [s \in Streams |-> FirstN(u.rc[1].body.out[s])] \in [Streams -> Seq(Nat)]
    <3>1. u.rc[1].kind = "result"
      BY <1>4, <2>2, TailFacts DEF ExecTypeOK, Sockets, ReceiveReply, AgentInv
    <3> QED
      BY <2>2, <3>1, FirstReplyType, FirstNType
  <2>3. cli' \in Callers
    BY <1>4, <2>2 DEF ExecTypeOK, Callers, Codes, ReceiveReply, Returns
  <2> QED
    BY <1>4, <2>1, <2>3 DEF ExecTypeOK, ReceiveReply, Rest
<1>5. CASE ReceiveFrame
  <2>1. ASSUME u.rc # <<>>, u.rc[1].kind \in Streams,
               cli' = [cli EXCEPT !.out[u.rc[1].kind] = Append(@, u.rc[1].body)],
               u' = [u EXCEPT !.rc = Tail(@)]
        PROVE  u' \in Sockets /\ cli' \in Callers
    <3> DEFINE s == u.rc[1].kind
    <3>1. Append(cli.out[s], u.rc[1].body) \in Seq(Nat)
      BY <2>1, FirstReplyType DEF ExecTypeOK, Callers
    <3>2. [cli.out EXCEPT ![s] = Append(@, u.rc[1].body)] \in [Streams -> Seq(Nat)]
      BY <2>1, <3>1 DEF ExecTypeOK, Callers
    <3>3. cli' \in Callers
      BY <2>1, <3>2 DEF ExecTypeOK, Callers
    <3> QED
      BY <2>1, <3>3, TailFacts DEF ExecTypeOK, Sockets
  <2>2. ASSUME NEW c \in Codes, Returns(c) PROVE u' \in Sockets /\ cli' \in Callers
    <3>1. u' \in Sockets
      BY <2>2 DEF ExecTypeOK, Sockets, Returns
    <3>2. cli' \in Callers
      BY <2>2 DEF ExecTypeOK, Callers, Returns
    <3> QED
      BY <3>1, <3>2
  <2>3. u' \in Sockets /\ cli' \in Callers
    BY <1>5, <2>1, <2>2, FirstReplyType DEF ReceiveFrame, Codes
  <2> QED
    BY <1>5, <2>3 DEF ExecTypeOK, ReceiveFrame, Rest
<1>6. CASE ReceiveResult
  <2>1. bk.res \in Codes /\ [s \in Streams |-> FirstN(bk.out[s])] \in [Streams -> Seq(Nat)]
    BY FirstNType DEF ExecTypeOK, Backends
  <2>2. cli' \in Callers
    BY <1>6, <2>1 DEF ExecTypeOK, Callers, ReceiveResult
  <2>3. relay' \in Relays
    BY <1>6 DEF ExecTypeOK, Relays, ReceiveResult
  <2> QED
    BY <1>6, <2>2, <2>3 DEF ExecTypeOK, ReceiveResult, Rest
<1> QED
  BY <1>1, <1>2, <1>3, <1>4, <1>5, <1>6 DEF CallerSteps

(* What the caller does on its own.                                          *)
LEMMA CallerMovesType ==
  ASSUME ExecTypeOK, SendStdin \/ SendResize \/ Disconnect \/ CancelCall \/ StopRelay
  PROVE  ExecTypeOK'
<1>1. CASE SendStdin
  <2>1. cli' \in Callers
    <3>1. ASSUME cli.left > 0 PROVE [cli EXCEPT !.left = @ - 1] \in Callers
      <4>1. cli.left - 1 \in Nat
        BY <3>1 DEF ExecTypeOK, Callers
      <4> QED
        BY <4>1 DEF ExecTypeOK, Callers
    <3>2. [cli EXCEPT !.ended = TRUE] \in Callers
      BY DEF ExecTypeOK, Callers
    <3> QED
      BY <1>1, <3>1, <3>2 DEF SendStdin
  <2>2. /\ [u EXCEPT !.cr = Sent(u.cr, u.r, Frame("stdin", 1))] \in Sockets
        /\ [u EXCEPT !.cr = Sent(u.cr, u.r, Frame("end", 0))] \in Sockets
    BY SentInType
  <2>3. u' \in Sockets
    BY <1>1, <2>2 DEF ExecTypeOK, SendStdin
  <2> QED
    BY <1>1, <2>1, <2>3 DEF ExecTypeOK, SendStdin, Rest
<1>2. CASE SendResize
  <2>1. cli' \in Callers
    BY <1>2 DEF ExecTypeOK, Callers, SendResize
  <2>2. u' \in Sockets
    BY <1>2, SentInType DEF ExecTypeOK, SendResize
  <2> QED
    BY <1>2, <2>1, <2>2 DEF ExecTypeOK, SendResize, Rest
<1>3. CASE Disconnect
  <2>1. cli' \in Callers
    BY <1>3 DEF ExecTypeOK, Callers, Disconnect, Codes
  <2>2. u' \in Sockets
    BY <1>3 DEF ExecTypeOK, Sockets, Disconnect
  <2> QED
    BY <1>3, <2>1, <2>2 DEF ExecTypeOK, Disconnect, Rest
<1>4. CASE CancelCall
  <2>1. cli' \in Callers
    BY <1>4 DEF ExecTypeOK, Callers, CancelCall
  <2>2. relay' \in Relays
    BY <1>4 DEF ExecTypeOK, Relays, CancelCall
  <2> QED
    BY <1>4, <2>1, <2>2 DEF ExecTypeOK, CancelCall, Rest
<1>5. CASE StopRelay
  <2>1. relay' \in Relays
    BY <1>5 DEF ExecTypeOK, Relays, StopRelay
  <2> QED
    BY <1>5, <2>1 DEF ExecTypeOK, StopRelay, Rest
<1> QED
  BY <1>1, <1>2, <1>3, <1>4, <1>5

(* The relay takes a frame of its client.                                    *)
LEMMA TakeInType ==
  ASSUME ExecTypeOK, u.cr # <<>>
  PROVE  [u EXCEPT !.cr = Tail(@)] \in Sockets
BY TailFacts DEF ExecTypeOK, Sockets

(* The relay taking a request keeps the types.                               *)
LEMMA HandlesType ==
  ASSUME ExecTypeOK, NEW modes, Handles(modes)
  PROVE  ExecTypeOK'
<1>1. u' \in Sockets
  BY TakeInType DEF Handles
<1>2. relay' \in Relays
  BY DEF ExecTypeOK, Relays, Handles
<1> QED
  BY <1>1, <1>2 DEF ExecTypeOK, Handles, Rest

(* The relay answering keeps the types.                                      *)
LEMMA RepliesType ==
  ASSUME ExecTypeOK, NEW f \in EndFrames, Replies(f)
  PROVE  ExecTypeOK'
<1>1. Sent(u.rc, u.c, f) \in Seq(OutFrames \cup EndFrames)
  BY AppendFacts DEF ExecTypeOK, Sockets, Sent
<1>2. u' \in Sockets
  BY <1>1 DEF ExecTypeOK, Sockets, Replies
<1>3. relay' \in Relays
  BY DEF ExecTypeOK, Relays, Replies
<1> QED
  BY <1>2, <1>3 DEF ExecTypeOK, Replies, Rest

(* The relay's two goroutines keep the types.                                *)
LEMMA RelayType ==
  ASSUME ExecTypeOK, RelayMain \/ RelayWatcher
  PROVE  ExecTypeOK'
<1>1. CASE HandleExec
  BY <1>1, HandlesType DEF HandleExec
<1>2. CASE HandleExecPipe
  BY <1>2, HandlesType DEF HandleExecPipe
<1>3. CASE HandleExecInteractive
  BY <1>3, HandlesType DEF HandleExecInteractive
<1>4. CASE ReplyResult
  <2>1. Result(bk.res, bk.out) \in EndFrames
    BY ResultType DEF ExecTypeOK, Backends
  <2> QED
    BY <1>4, <2>1, RepliesType DEF ReplyResult
<1>5. CASE ReplyExit
  <2>1. (IF bk.res = "error" THEN "one" ELSE bk.res) \in Codes
    BY DEF ExecTypeOK, Backends, Codes
  <2>2. Frame("exit", IF bk.res = "error" THEN "one" ELSE bk.res) \in EndFrames
    BY <2>1, ExitType
  <2> QED
    BY <1>5, <2>2, RepliesType DEF ReplyExit
<1>6. CASE WatchStdin
  <2>1. relay' \in Relays
    BY <1>6 DEF ExecTypeOK, Relays, WatchStdin
  <2>2. u' \in Sockets
    BY <1>6, TakeInType DEF ExecTypeOK, WatchStdin, Watch
  <2> QED
    BY <1>6, <2>1, <2>2 DEF ExecTypeOK, WatchStdin, Rest, Watch
<1>7. CASE WatchStdinEnd
  <2>1. relay' \in Relays
    BY <1>7 DEF ExecTypeOK, Relays, WatchStdinEnd
  <2>2. u' \in Sockets
    BY <1>7, TakeInType DEF ExecTypeOK, WatchStdinEnd, Watch
  <2> QED
    BY <1>7, <2>1, <2>2 DEF ExecTypeOK, WatchStdinEnd, Rest, Watch
<1>8. CASE WatchResize
  <2>1. relay' \in Relays
    BY <1>8 DEF ExecTypeOK, Relays, WatchResize
  <2>2. u' \in Sockets
    BY <1>8, TakeInType DEF ExecTypeOK, WatchResize, Watch
  <2> QED
    BY <1>8, <2>1, <2>2 DEF ExecTypeOK, WatchResize, Rest, Watch
<1>9. CASE WatchHangup
  <2>1. relay' \in Relays
    BY <1>9 DEF ExecTypeOK, Relays, WatchHangup
  <2> QED
    BY <1>9, <2>1 DEF ExecTypeOK, WatchHangup, Rest
<1> QED
  BY <1>1, <1>2, <1>3, <1>4, <1>5, <1>6, <1>7, <1>8, <1>9 DEF RelayMain, RelayWatcher

(* The death of the VM or of the host process keeps the types.               *)
LEMMA DeathType ==
  ASSUME ExecTypeOK, VMDies \/ HostDies
  PROVE  ExecTypeOK'
<1>1. CASE VMDies
  <2>1. v' \in Vsocks
    BY <1>1 DEF ExecTypeOK, Vsocks, VMDies
  <2>2. guest' \in Agents
    BY <1>1 DEF ExecTypeOK, Agents, VMDies
  <2>3. proc' \in Processes
    BY <1>1 DEF ExecTypeOK, Processes, VMDies
  <2> QED
    BY <1>1, <2>1, <2>2, <2>3 DEF ExecTypeOK, VMDies
<1>2. CASE HostDies
  <2>1. relay' \in Relays
    BY <1>2 DEF ExecTypeOK, Relays, HostDies
  <2>2. bk' \in Backends
    BY <1>2 DEF ExecTypeOK, Backends, HostDies, Codes
  <2>3. u' \in Sockets
    BY <1>2 DEF ExecTypeOK, Sockets, HostDies
  <2>4. v' \in Vsocks
    BY <1>2 DEF ExecTypeOK, Vsocks, HostDies
  <2>5. cli' \in Callers
    BY <1>2 DEF ExecTypeOK, Callers, HostDies, Codes
  <2> QED
    BY <1>2, <2>1, <2>2, <2>3, <2>4, <2>5 DEF ExecTypeOK, HostDies
<1> QED
  BY <1>1, <1>2

(* Every step keeps the types.                                               *)
LEMMA ExecTypeStep ==
  ASSUME ExecTypeOK, AgentInv, \A s \in Streams : CopierInv(s), [ExecNext]_execVars
  PROVE  ExecTypeOK'
<1>1. CASE UNCHANGED execVars
  BY <1>1 DEF ExecTypeOK, execVars
<1>2. ASSUME NEW s \in Streams, AgentCopier(s) PROVE ExecTypeOK'
  BY <1>2, AgentCopierType DEF CopierInv
<1> QED
  BY <1>1, <1>2, AgentReaderType, AgentMainType, CommandType, BackendMainType,
     BackendReaderType, BackendStdinType, CallerStepsType, CallerMovesType, RelayType,
     DeathType
  DEF ExecNext, Environment


-----------------------------------------------------------------------------
(* The caller and the relay.                                                 *)

(* An answer among the frames for the client.                                *)
LEMMA HasEndAppend ==
  ASSUME NEW S, NEW q \in Seq(S), NEW f \in S
  PROVE  HasEnd(Append(q, f)) <=> HasEnd(q) \/ f.kind \notin Streams
<1>1. /\ Len(q) \in Nat /\ Len(Append(q, f)) = Len(q) + 1
      /\ Append(q, f)[Len(q) + 1] = f
      /\ \A i \in 1..Len(q) : Append(q, f)[i] = q[i]
  BY AppendFacts
<1> QED
  BY <1>1 DEF HasEnd

(* Taking a chunk leaves the answer behind it.                               *)
LEMMA HasEndTail ==
  ASSUME NEW S, NEW q \in Seq(S), q # <<>>, q[1].kind \in Streams
  PROVE  HasEnd(Tail(q)) <=> HasEnd(q)
<1> DEFINE r == Tail(q)
<1>1. /\ Len(q) \in Nat \ {0} /\ Len(r) = Len(q) - 1
      /\ \A i \in 1..Len(q) - 1 : r[i] = q[i + 1]
  BY TailFacts
<1>2. ASSUME NEW i \in 1..Len(q), q[i].kind \notin Streams PROVE HasEnd(r)
  <2>1. i - 1 \in 1..Len(r) /\ r[i - 1] = q[i]
    BY <1>1, <1>2
  <2> QED
    BY <1>2, <2>1 DEF HasEnd
<1>3. ASSUME NEW i \in 1..Len(r), r[i].kind \notin Streams PROVE HasEnd(q)
  <2>1. i + 1 \in 1..Len(q) /\ r[i] = q[i + 1]
    BY <1>1
  <2> QED
    BY <1>3, <2>1 DEF HasEnd
<1> QED
  BY <1>2, <1>3 DEF HasEnd

(* The guest does not touch them.                                            *)
LEMMA CallerKept ==
  ASSUME CallerInv, UNCHANGED <<call, cli, u, relay, bk>>
  PROVE  CallerInv'
BY DEF CallerInv, HasEnd

(* The agent's steps leave the host alone.                                   *)
LEMMA AgentKeeps ==
  ASSUME AgentMain \/ AgentReader \/ KillAfterGrace \/ \E s \in Streams : AgentCopier(s)
  PROVE  Idle
<1>1. AgentMain => Idle
  BY DEF AgentMain, AcceptRequest, ServeFile, handleExecBatch, handleExecStreamBatch,
         handleExecPipe, handleExecTTY, WaitCommand, WaitTTY, sendExecResponse,
         sendExitCode, CloseConn
<1>2. AgentReader \/ KillAfterGrace => Idle
  BY DEF AgentReader, ReadStdin, WriteStdin, ReadStdinEnd, ReadControl, MonitorHangup,
         PipeHangup, TTYHangup, Terminate, KillAfterGrace
<1>3. \A s \in Streams : AgentCopier(s) => Idle
  BY DEF AgentCopier, CopyHeader, CopyPayload, CopyEnd
<1> QED
  BY <1>1, <1>2, <1>3

(* An answer the client reads is one: AnswerInv.                             *)
LEMMA FirstAnswer ==
  ASSUME ExecTypeOK, AgentInv, AnswerInv, u.rc # <<>>
  PROVE  /\ u.rc[1].kind = "exit" => u.rc[1].body # "none"
         /\ u.rc[1].kind = "result" => u.rc[1].body.code # "none"
         /\ call.mode = "batch" => u.rc[1].kind = "result"
<1>1. 1 \in 1..Len(u.rc)
  BY TailFacts DEF ExecTypeOK, Sockets
<1>2. GoodFrame(u.rc[1]) \/ LostFrame(u.rc[1])
  BY <1>1 DEF AnswerInv
<1> QED
  BY <1>1, <1>2 DEF GoodFrame, LostFrame, Good, ReportedCode, Encoded, AgentInv

(* The relay's answer is there before its connection is closed.              *)
LEMMA RepliesCaller ==
  ASSUME ExecTypeOK, CallerInv, NEW f \in EndFrames, Replies(f)
  PROVE  CallerInv'
<1>1. f.kind \notin Streams
  BY DEF EndFrames
<1>2. HasEnd(Append(u.rc, f))
  BY <1>1, HasEndAppend DEF ExecTypeOK, Sockets
<1> QED
  BY <1>2 DEF ExecTypeOK, Relays, Sockets, Callers, CallerInv, Replies, Sent, Rest

(* A chunk that is written after the connection was closed: the call was     *)
(* cancelled, nothing else of it moves.                                      *)
Lates(f) ==
  /\ ~v.h /\ v.gh # <<>> /\ v.gh[1] = f /\ v'.gh = <<>>
  /\ f \in OutFrames /\ bk.rd = "reading" /\ call.mode # "batch"
  /\ UNCHANGED <<v.h, v.g, v.up, v.half, v.torn>>
  /\ UNCHANGED <<call, relay, bk, guest, proc>>
  /\ UNCHANGED <<cli.pc, cli.ret, cli.cut, u.c, u.r, u.cr>>
  /\ \/ UNCHANGED <<u.rc, cli.out>>
     \/ /\ call.via = "relay" /\ u.c /\ u.r
        /\ u'.rc = Append(u.rc, f) /\ UNCHANGED cli.out
     \/ /\ call.via = "direct" /\ Lost /\ u.rc = <<>> /\ u'.rc = <<>>
        /\ cli'.out = [cli.out EXCEPT ![f.kind] = Append(@, f.body)]
  /\ cli.pc # "done" /\ relay.pc = "exec" => Lost

(* What WriteLate does.                                                      *)
LEMMA LateEffect ==
  ASSUME ExecInv, WriteLate
  PROVE  \E f \in OutFrames : Lates(f)
<1> USE DEF ExecInv
<1> DEFINE f == v.gh[1]
<1>1. /\ bk.rd = "reading" /\ ~v.h /\ v.gh # <<>> /\ f.kind \in Streams
      /\ UNCHANGED <<call, relay, bk, guest, proc>> /\ Forward(f.kind, f.body)
  BY DEF WriteLate
<1>2. v'.gh = <<>> /\ UNCHANGED <<v.h, v.g, v.up, v.half, v.torn>>
  BY DEF WriteLate, ExecTypeOK, Vsocks
<1>3. f \in OutFrames /\ f = Frame(f.kind, f.body)
  BY <1>1, FirstFrameType DEF OutFrames, Frame
<1>4. call.mode # "batch"
  <2>1. ~OnlyEnds(v.gh)
    BY <1>1, TailFacts DEF OnlyEnds, ExecTypeOK, Vsocks
  <2> QED
    BY <2>1 DEF AgentInv
<1>5. relay.ctx
  BY <1>1 DEF BackendInv
<1>6. cli.pc # "done" /\ relay.pc = "exec" => Lost
  BY <1>5 DEF CallerInv, Lost
<1>7. /\ UNCHANGED <<cli.pc, cli.ret, cli.cut, u.c, u.r, u.cr>>
      /\ \/ UNCHANGED <<u.rc, cli.out>>
         \/ /\ call.via = "relay" /\ u.c /\ u.r
            /\ u'.rc = Append(u.rc, f) /\ UNCHANGED cli.out
         \/ /\ call.via = "direct" /\ Lost /\ u.rc = <<>> /\ u'.rc = <<>>
            /\ cli'.out = [cli.out EXCEPT ![f.kind] = Append(@, f.body)]
  <2> HIDE DEF f
  <2>1. CASE call.via = "relay"
    BY <2>1, <1>1, <1>3 DEF Forward, Sent, ExecTypeOK, Sockets
  <2>2. CASE call.via = "direct"
    <3>1. u.rc = <<>> /\ Lost
      BY <2>2, <1>5 DEF CallerInv, Lost
    <3> QED
      BY <2>2, <3>1, <1>1 DEF Forward, ExecTypeOK, Callers
  <2> QED
    BY <2>1, <2>2, ExecBounds DEF ExecTypeOK
<1>8. v.gh[1] = f
  OBVIOUS
<1> HIDE DEF f
<1>9. Lates(f)
  BY <1>1, <1>2, <1>3, <1>4, <1>6, <1>7, <1>8 DEF Lates
<1> QED
  BY <1>3, <1>9

(* Every step keeps the caller's invariant.                                  *)
LEMMA CallerStep ==
  ASSUME ExecInv, [ExecNext]_execVars
  PROVE  CallerInv'
<1> USE DEF ExecInv
<1>1. CASE execVsock
  BY <1>1 DEF ExecTypeOK, Backends, CallerInv, execVsock, Requested, Dialled
<1>2. CASE ExecPipe
  BY <1>2 DEF ExecTypeOK, Backends, CallerInv, ExecPipe, Requested, Dialled
<1>3. CASE ExecInteractive
  BY <1>3 DEF ExecTypeOK, Backends, CallerInv, ExecInteractive, Requested, Dialled
<1>4. CASE fileRPC
  BY <1>4 DEF ExecTypeOK, Backends, CallerInv, fileRPC, Requested, Dialled
<1>5. CASE RequestFails
  BY <1>5 DEF ExecTypeOK, Backends, CallerInv, RequestFails, Requested
<1>6. CASE TakeOutcome
  BY <1>6 DEF ExecTypeOK, Backends, CallerInv, TakeOutcome
<1>7. CASE TakeCancel
  BY <1>7 DEF ExecTypeOK, Backends, CallerInv, TakeCancel
<1>8. CASE ReadOutput
  BY <1>8 DEF ExecTypeOK, Sockets, Callers, CallerInv, ReadOutput, Forward, Sent
<1>9. CASE ReadResult
  BY <1>9 DEF ExecTypeOK, Backends, CallerInv, ReadResult
<1>10. CASE ReadExit
  BY <1>10 DEF ExecTypeOK, Backends, CallerInv, ReadExit
<1>11. CASE ReadGarbage
  BY <1>11 DEF ExecTypeOK, Backends, CallerInv, ReadGarbage
<1>12. CASE PumpStdin
  BY <1>12 DEF ExecTypeOK, Relays, Backends, CallerInv, PumpStdin
<1>13. CASE PumpHeader
  BY <1>13 DEF ExecTypeOK, Relays, Backends, CallerInv, PumpHeader
<1>14. CASE PumpPayload
  BY <1>14 DEF ExecTypeOK, Backends, CallerInv, PumpPayload
<1>15. CASE PumpEnd
  BY <1>15 DEF ExecTypeOK, Backends, CallerInv, PumpEnd
<1>16. CASE PumpResize
  BY <1>16 DEF ExecTypeOK, Relays, CallerInv, PumpResize
<1>17. CASE ExecViaRelay
  BY <1>17 DEF ExecTypeOK, Sockets, Callers, CallerInv, ExecViaRelay, Connected, Rest
<1>18. CASE ExecPipeViaRelay
  BY <1>18 DEF ExecTypeOK, Sockets, Callers, CallerInv, ExecPipeViaRelay, Connected, Rest
<1>19. CASE ExecInteractiveViaRelay
  BY <1>19 DEF ExecTypeOK, Sockets, Callers, CallerInv, ExecInteractiveViaRelay,
     Connected, Rest
<1>20. CASE ReceiveReply
  <2>1. CASE ClientEOF /\ Returns("error")
    BY <1>20, <2>1 DEF ExecTypeOK, Callers, Sockets, CallerInv, ReceiveReply, Returns,
       Rest
  <2>2. CASE u.rc # <<>>
    <3>1. u.rc[1].body.code # "none"
      BY <1>20, <2>2, FirstAnswer DEF ReceiveReply
    <3> QED
      BY <1>20, <2>2, <3>1 DEF ExecTypeOK, Callers, Sockets, CallerInv, ReceiveReply,
         Returns,
         Rest, ClientEOF
  <2> QED
    BY <1>20, <2>1, <2>2 DEF ReceiveReply
<1>21. CASE ReceiveFrame
  <2>1. CASE \E c \in Codes : c # "none" /\ Returns(c)
    BY <1>21, <2>1 DEF ExecTypeOK, Callers, Sockets, CallerInv, ReceiveFrame, Returns,
       Rest
  <2>2. CASE u.rc # <<>> /\ u.rc[1].kind \in Streams
    <3>1. HasEnd(Tail(u.rc)) <=> HasEnd(u.rc)
      BY <2>2, HasEndTail DEF ExecTypeOK, Sockets
    <3>2. /\ cli' = [cli EXCEPT !.out[u.rc[1].kind] = Append(@, u.rc[1].body)]
          /\ u' = [u EXCEPT !.rc = Tail(@)]
      BY <1>21, <2>2 DEF ReceiveFrame, ClientEOF
    <3> QED
      BY <1>21, <3>1, <3>2 DEF ExecTypeOK, Callers, Sockets, CallerInv, ReceiveFrame, Rest
  <2>3. CASE u.rc # <<>> /\ u.rc[1].kind = "exit" /\ Returns(u.rc[1].body)
    BY <1>21, <2>1, <2>3, FirstAnswer, FirstReplyType DEF ReceiveFrame
  <2> QED
    BY <1>21, <2>1, <2>2, <2>3 DEF ReceiveFrame, Codes
<1>22. CASE ReceiveResult
  BY <1>22 DEF ExecTypeOK, Relays, Callers, CallerInv, BackendInv, ReceiveResult, Rest
<1>23. CASE SendStdin
  BY <1>23 DEF ExecTypeOK, Sockets, Callers, CallerInv, SendStdin, Rest
<1>24. CASE SendResize
  BY <1>24 DEF ExecTypeOK, Sockets, Callers, CallerInv, SendResize, Rest
<1>25. CASE Disconnect
  BY <1>25 DEF ExecTypeOK, Sockets, Callers, CallerInv, Disconnect, Rest
<1>26. CASE CancelCall
  BY <1>26 DEF ExecTypeOK, Relays, Callers, CallerInv, CancelCall, Rest
<1>27. CASE StopRelay
  BY <1>27 DEF ExecTypeOK, Relays, CallerInv, StopRelay, Rest
<1>28. CASE HandleExec
  BY <1>28 DEF ExecTypeOK, Relays, Sockets, Callers, CallerInv, HandleExec, Handles, Rest
<1>29. CASE HandleExecPipe
  BY <1>29 DEF ExecTypeOK, Relays, Sockets, Callers, CallerInv, HandleExecPipe,
     Handles, Rest
<1>30. CASE HandleExecInteractive
  BY <1>30 DEF ExecTypeOK, Relays, Sockets, Callers, CallerInv, HandleExecInteractive,
     Handles, Rest
<1>31. CASE ReplyResult
  <2>1. Result(bk.res, bk.out) \in EndFrames
    BY ResultType DEF ExecTypeOK, Backends
  <2> QED
    BY <1>31, <2>1, RepliesCaller DEF ReplyResult
<1>32. CASE ReplyExit
  <2>1. (IF bk.res = "error" THEN "one" ELSE bk.res) \in Codes
    BY DEF ExecTypeOK, Backends, Codes
  <2>2. Frame("exit", IF bk.res = "error" THEN "one" ELSE bk.res) \in EndFrames
    BY <2>1, ExitType
  <2> QED
    BY <1>32, <2>2, RepliesCaller DEF ReplyExit
<1>33. CASE WatchStdin
  BY <1>33 DEF ExecTypeOK, Relays, Sockets, CallerInv, WatchStdin, Watch, Rest
<1>34. CASE WatchStdinEnd
  BY <1>34 DEF ExecTypeOK, Relays, Sockets, CallerInv, WatchStdinEnd, Watch, Rest
<1>35. CASE WatchResize
  BY <1>35 DEF ExecTypeOK, Relays, Sockets, CallerInv, WatchResize, Watch, Rest
<1>36. CASE WatchHangup
  <2>1. call.via = "relay" /\ relay.pc # "listen"
    BY <1>36, ExecBounds DEF ExecTypeOK, CallerInv, WatchHangup
  <2>2. relay.pc = "exec" => cli.pc = "done"
    BY <1>36, <2>1 DEF ExecTypeOK, Callers, CallerInv, WatchHangup, RelayEOF
  <2> QED
    BY <1>36, <2>1, <2>2 DEF ExecTypeOK, Relays, CallerInv, WatchHangup, Rest
<1>37. CASE HostDies
  <2>1. CASE call.via = "relay"
    BY <1>37, <2>1 DEF ExecTypeOK, Relays, Sockets, Backends, Callers, CallerInv, HostDies
  <2>2. CASE call.via = "direct"
    BY <1>37, <2>2 DEF ExecTypeOK, Relays, Sockets, Backends, Callers, CallerInv, HostDies
  <2> QED
    BY <2>1, <2>2, ExecBounds DEF ExecTypeOK
<1>38. ASSUME UNCHANGED <<call, cli, u, relay, bk>> PROVE CallerInv'
  BY <1>38, CallerKept
<1>39. CASE \/ AgentMain \/ AgentReader \/ KillAfterGrace
             \/ \E s \in Streams : AgentCopier(s)
  BY <1>38, <1>39, AgentKeeps DEF Idle
<1>40. CASE \/ RunLauncher \/ CommandRuns \/ CommandSignalled \/ VMDies \/ CancelCloses
             \/ UNCHANGED execVars
  <2>1. UNCHANGED <<call, cli, u, relay, bk>>
    BY <1>40 DEF RunLauncher, CommandRuns, CommandSignalled, VMDies, CancelCloses, Idle,
           execVars
  <2> QED
    BY <1>38, <2>1
<1>41. CASE WriteLate
  <2>1. PICK f \in OutFrames : Lates(f)
    BY <1>41, LateEffect
  <2> QED
    BY <2>1 DEF Lates, CallerInv
<1> QED
  BY <1>1, <1>2, <1>3, <1>4, <1>5, <1>6, <1>7, <1>8, <1>9, <1>10, <1>11, <1>12, <1>13,
     <1>14, <1>15, <1>16, <1>17, <1>18, <1>19, <1>20, <1>21, <1>22, <1>23, <1>24,
     <1>25, <1>26, <1>27, <1>28, <1>29, <1>30, <1>31, <1>32, <1>33, <1>34, <1>35,
     <1>36, <1>37, <1>38, <1>39, <1>40, <1>41
  DEF ExecNext, Environment, BackendMain, BackendReader, BackendStdin, CallerSteps, RelayMain,
      RelayWatcher


-----------------------------------------------------------------------------
(* What the agent's steps do to the connection.                              *)

(* A frame written at once: sent, or garbage if another was half written.    *)
LEMMA WritesFacts ==
  ASSUME NEW l \in Vsocks, NEW f
  PROVE  LET w == Writes(l, f)
         IN  /\ w.h = l.h /\ w.g = l.g /\ w.up = l.up /\ w.half = l.half /\ w.hg = l.hg
             /\ l.half = "none" => w.torn = l.torn /\ w.gh = Sent(l.gh, Open(l), f)
             /\ l.half # "none" => w.torn /\ w.gh = Sent(l.gh, Open(l), Frame("garbage", 0))
<1>1. CASE l.half = "none"
  BY <1>1 DEF Writes, Vsocks
<1>2. CASE l.half # "none"
  BY <1>2 DEF Writes, Vsocks
<1> QED
  BY <1>1, <1>2

(* The two writes of a copier.                                               *)
LEMMA CopierWritesFacts ==
  ASSUME NEW l \in Vsocks, NEW s \in Streams, NEW f
  PROVE  LET b == Begins(l, s)
             e == Ends(l, s, f)
         IN  /\ b.h = l.h /\ b.g = l.g /\ b.up = l.up /\ b.half = s
             /\ l.half = "none" => b.torn = l.torn /\ b.gh = l.gh
             /\ l.half # "none" => b.torn /\ b.gh = Sent(l.gh, Open(l), Frame("garbage", 0))
             /\ e.h = l.h /\ e.g = l.g /\ e.up = l.up /\ e.torn = l.torn
             /\ l.half = s => e.half = "none" /\ e.gh = Sent(l.gh, Open(l), f)
             /\ l.half # s => e = l
<1>1. Begins(l, s).h = l.h /\ Begins(l, s).g = l.g /\ Begins(l, s).up = l.up
      /\ Begins(l, s).half = s
  BY DEF Begins, Vsocks
<1>2. l.half = "none" => Begins(l, s).torn = l.torn /\ Begins(l, s).gh = l.gh
  BY DEF Begins, Vsocks
<1>3. l.half # "none"
        => Begins(l, s).torn /\ Begins(l, s).gh = Sent(l.gh, Open(l), Frame("garbage", 0))
  BY DEF Begins, Vsocks
<1>4. CASE l.half = s
  BY <1>1, <1>2, <1>3, <1>4 DEF Ends, Vsocks
<1>5. CASE l.half # s
  BY <1>1, <1>2, <1>3, <1>5 DEF Ends, Vsocks
<1> QED
  BY <1>4, <1>5

(* The first frames of a connection.                                         *)
LEMMA FirstSent ==
  ASSUME NEW f, NEW g
  PROVE  Append(<<>>, f) = <<f>> /\ Append(<<f>>, g) = <<f, g>>
<1> DEFINE q == Append(<<f>>, g)
<1>1. <<f>> \in Seq({f, g})
  OBVIOUS
<1>2. q \in Seq({f, g}) /\ Len(q) = 2 /\ q[1] = f /\ q[2] = g
  BY <1>1
<1>3. q = <<f, g>>
  <2> HIDE DEF q
  <2> QED
    BY <1>2
<1>4. Append(<<>>, f) = <<f>>
  OBVIOUS
<1> QED
  BY <1>3, <1>4

(* The handler has not written yet: what it sends is the first frame.        *)
LEMMA StartFacts ==
  ASSUME ExecTypeOK, AgentInv, guest.pc = "start"
  PROVE  /\ v.gh = <<>> /\ v.half = "none" /\ v.g /\ v.up /\ proc.st = "none"
         /\ proc.code = "none" /\ proc.out = PerStream(0) /\ proc.pipe = PerStream(0)
         /\ guest.w = PerStream("off")
BY DEF AgentInv

(* A handler starts its command, or answers at once that it could not.       *)
Begun(w) ==
  /\ UNCHANGED <<v, proc.code, proc.out, proc.pipe>>
  /\ guest'.pc = "run" /\ guest'.w = w /\ proc'.st = "launcher"
  /\ call.mode = "batch" => w = PerStream("done")
  /\ call.mode \in {"stream", "pipe"} => w = PerStream("reading")

Answer(c) == IF Piped THEN Frame("exit", c) ELSE Result(c, PerStream(0))

Refused(c) ==
  /\ UNCHANGED <<v.h, v.up, v.torn, v.half, guest.w, proc.pipe>>
  /\ ~v'.g /\ guest'.pc = "closed" /\ proc'.st = "gone" /\ proc'.code = c
  /\ IF call.mode = "pipe"
     THEN /\ v'.gh = IF v.h THEN <<Frame("stderr", 1), Answer(c)>> ELSE <<>>
          /\ proc'.out = [s \in Streams |-> IF s = "stderr" THEN 1 ELSE 0]
     ELSE /\ v'.gh = IF v.h THEN <<Answer(c)>> ELSE <<>>
          /\ proc'.out = PerStream(0)
  /\ Piped <=> c = "one"

StartStep == \/ ServeFile \/ handleExecBatch \/ handleExecStreamBatch
             \/ handleExecPipe \/ handleExecTTY

(* The command is started.                                                   *)
LEMMA BegunFacts ==
  ASSUME ExecTypeOK, NEW w, Started(w)
  PROVE  /\ UNCHANGED <<v, proc.code, proc.out, proc.pipe>>
         /\ guest'.pc = "run" /\ guest'.w = w /\ proc'.st = "launcher"
BY DEF ExecTypeOK, Agents, Processes, Started

(* The command cannot be started.                                            *)
LEMMA RefusedFacts ==
  ASSUME ExecTypeOK, AgentInv, guest.pc = "start",
         NEW l \in Vsocks, NEW c, NEW n, StartFails(l, c, n),
         UNCHANGED call, l.h = v.h, l.up = v.up, l.torn = v.torn, l.half = v.half
  PROVE  /\ UNCHANGED <<v.h, v.up, v.torn, v.half, guest.w, proc.pipe>>
         /\ ~v'.g /\ guest'.pc = "closed" /\ proc'.st = "gone" /\ proc'.code = c
         /\ v'.gh = l.gh /\ proc'.out = [s \in Streams |-> IF s = "stderr" THEN n ELSE 0]
<1>1. proc.out = PerStream(0)
  BY StartFacts
<1>2. /\ UNCHANGED proc.pipe /\ proc'.st = "gone" /\ proc'.code = c
      /\ proc'.out = [proc.out EXCEPT !["stderr"] = n]
  BY DEF ExecTypeOK, Processes, StartFails
<1>3. proc'.out = [s \in Streams |-> IF s = "stderr" THEN n ELSE 0]
  BY <1>1, <1>2
<1>4. guest'.pc = "closed" /\ UNCHANGED guest.w
  BY DEF ExecTypeOK, Agents, StartFails
<1>5. UNCHANGED <<v.h, v.up, v.torn, v.half>> /\ ~v'.g /\ v'.gh = l.gh
  BY DEF Vsocks, StartFails
<1> QED
  BY <1>2, <1>3, <1>4, <1>5

(* A handler starts the command or answers that it cannot.                   *)
LEMMA StartEffect ==
  ASSUME ExecTypeOK, AgentInv, StartStep
  PROVE  /\ guest.pc = "start" /\ Idle
         /\ \/ \E w \in [Streams -> {"reading", "done"}] : Begun(w)
            \/ \E c \in {"zero", "error", "one"} : Refused(c)
<1>1. guest.pc = "start" /\ Idle /\ v \in Vsocks
  BY DEF StartStep, ServeFile, handleExecBatch, handleExecStreamBatch, handleExecPipe,
         handleExecTTY, ExecTypeOK
<1>2. v.gh = <<>> /\ v.half = "none" /\ v.g /\ proc.out = PerStream(0)
  BY <1>1, StartFacts
<1>3. \A f : /\ Writes(v, f).gh = IF v.h THEN <<f>> ELSE <<>>
             /\ Writes(v, f).h = v.h /\ Writes(v, f).up = v.up /\ Writes(v, f).g
             /\ Writes(v, f).torn = v.torn /\ Writes(v, f).half = v.half
  <2> TAKE f
  <2>1. LET w == Writes(v, f)
        IN  /\ w.h = v.h /\ w.g = v.g /\ w.up = v.up /\ w.half = v.half
            /\ w.torn = v.torn /\ w.gh = Sent(v.gh, Open(v), f)
    BY <1>1, <1>2, WritesFacts
  <2> QED
    BY <1>2, <2>1, FirstSent DEF Sent, Open
<1>4. UNCHANGED call /\ (UNCHANGED call => Piped' = Piped)
  BY <1>1 DEF Idle, Piped
<1>5. CASE ServeFile
  <2>1. PICK c \in {"zero", "error"} :
              /\ v' = [Writes(v, Result(c, PerStream(0))) EXCEPT !.g = FALSE]
              /\ proc' = [proc EXCEPT !.st = "gone", !.code = c]
    BY <1>5 DEF ServeFile
  <2>2. Writes(v, Result(c, PerStream(0))) \in Vsocks
    BY <1>1, WritesType, ResultType DEF Codes
  <2>3. /\ UNCHANGED <<v.h, v.up, v.torn, v.half>> /\ ~v'.g
        /\ v'.gh = IF v.h THEN <<Result(c, PerStream(0))>> ELSE <<>>
    BY <1>3, <2>1, <2>2 DEF Vsocks
  <2>4. /\ UNCHANGED proc.pipe /\ proc'.st = "gone" /\ proc'.code = c
        /\ proc'.out = PerStream(0)
    BY <1>2, <2>1 DEF ExecTypeOK, Processes
  <2>5. guest'.pc = "closed" /\ UNCHANGED guest.w
    BY <1>5 DEF ExecTypeOK, Agents, ServeFile
  <2>6. Refused(c)
    BY <1>5, <2>3, <2>4, <2>5 DEF Refused, Answer, Piped, ServeFile
  <2> QED
    BY <1>1, <2>6
<1>6. CASE handleExecBatch
  <2>1. ASSUME Started(PerStream("done")) PROVE Begun(PerStream("done"))
    BY <1>6, <2>1, BegunFacts DEF Begun, handleExecBatch
  <2>2. ASSUME StartFails(Writes(v, Result("error", PerStream(0))), "error", 0)
        PROVE  Refused("error")
    <3> DEFINE f == Result("error", PerStream(0))
               l == Writes(v, f)
    <3>1. l \in Vsocks
      BY <1>1, WritesType, ResultType DEF Codes
    <3>2. /\ UNCHANGED <<v.h, v.up, v.torn, v.half, guest.w, proc.pipe>>
          /\ ~v'.g /\ guest'.pc = "closed" /\ proc'.st = "gone" /\ proc'.code = "error"
          /\ v'.gh = l.gh /\ proc'.out = [s \in Streams |-> IF s = "stderr" THEN 0 ELSE 0]
      BY <1>1, <1>3, <1>4, <2>2, <3>1, RefusedFacts
    <3>3. v'.gh = IF v.h THEN <<f>> ELSE <<>>
      BY <1>3, <3>2
    <3> QED
      BY <1>6, <3>2, <3>3 DEF Refused, Answer, Piped, handleExecBatch
  <2> QED
    BY <1>1, <1>6, <2>1, <2>2 DEF handleExecBatch
<1>7. CASE handleExecStreamBatch
  <2>1. ASSUME Started(PerStream("reading")) PROVE Begun(PerStream("reading"))
    BY <1>7, <2>1, BegunFacts DEF Begun, handleExecStreamBatch
  <2>2. ASSUME StartFails(Writes(v, Result("error", PerStream(0))), "error", 0)
        PROVE  Refused("error")
    <3> DEFINE f == Result("error", PerStream(0))
               l == Writes(v, f)
    <3>1. l \in Vsocks
      BY <1>1, WritesType, ResultType DEF Codes
    <3>2. /\ UNCHANGED <<v.h, v.up, v.torn, v.half, guest.w, proc.pipe>>
          /\ ~v'.g /\ guest'.pc = "closed" /\ proc'.st = "gone" /\ proc'.code = "error"
          /\ v'.gh = l.gh /\ proc'.out = [s \in Streams |-> IF s = "stderr" THEN 0 ELSE 0]
      BY <1>1, <1>3, <1>4, <2>2, <3>1, RefusedFacts
    <3>3. v'.gh = IF v.h THEN <<f>> ELSE <<>>
      BY <1>3, <3>2
    <3> QED
      BY <1>7, <3>2, <3>3 DEF Refused, Answer, Piped, handleExecStreamBatch
  <2> QED
    BY <1>1, <1>7, <2>1, <2>2 DEF handleExecStreamBatch
<1>8. CASE handleExecPipe
  <2>1. ASSUME Started(PerStream("reading")) PROVE Begun(PerStream("reading"))
    BY <1>8, <2>1, BegunFacts DEF Begun, handleExecPipe
  <2>2. ASSUME StartFails(Writes(Writes(v, Frame("stderr", 1)), Frame("exit", "one")), "one", 1)
        PROVE  Refused("one")
    <3> DEFINE f == Frame("exit", "one")
               g == Frame("stderr", 1)
               m == Writes(v, g)
               l == Writes(m, f)
    <3>1. m \in Vsocks
      BY <1>1, WritesType, ChunkType
    <3>2. l \in Vsocks
      BY <3>1, WritesType, ExitType DEF Codes
    <3>3. /\ m.gh = IF v.h THEN <<g>> ELSE <<>>
          /\ m.h = v.h /\ m.up = v.up /\ m.g /\ m.torn = v.torn /\ m.half = v.half
      BY <1>3
    <3>4. /\ l.h = v.h /\ l.up = v.up /\ l.torn = v.torn /\ l.half = v.half
          /\ l.gh = Sent(m.gh, v.h, f)
      <4> HIDE DEF m, f
      <4> QED
        <5>1. /\ l.h = m.h /\ l.up = m.up /\ l.torn = m.torn /\ l.half = m.half
              /\ l.gh = Sent(m.gh, Open(m), f)
          BY <1>2, <3>1, <3>3, WritesFacts
        <5> QED
          BY <3>3, <5>1 DEF Open, Sent
    <3>5. l.gh = IF v.h THEN <<g, f>> ELSE <<>>
      <4> HIDE DEF m, f, g, l
      <4> QED
        BY <3>3, <3>4, FirstSent DEF Sent
    <3>6. /\ UNCHANGED <<v.h, v.up, v.torn, v.half, guest.w, proc.pipe>>
          /\ ~v'.g /\ guest'.pc = "closed" /\ proc'.st = "gone" /\ proc'.code = "one"
          /\ v'.gh = l.gh /\ proc'.out = [s \in Streams |-> IF s = "stderr" THEN 1 ELSE 0]
      BY <1>1, <1>4, <2>2, <3>2, <3>4, RefusedFacts
    <3>7. v'.gh = IF v.h THEN <<g, f>> ELSE <<>>
      BY <3>5, <3>6
    <3> QED
      BY <1>8, <3>6, <3>7 DEF Refused, Answer, Piped, handleExecPipe
  <2> QED
    BY <1>1, <1>8, <2>1, <2>2 DEF handleExecPipe
<1>9. CASE handleExecTTY
  <2>1. ASSUME Started([stdout |-> "reading", stderr |-> "done"])
        PROVE  Begun([stdout |-> "reading", stderr |-> "done"])
    BY <1>9, <2>1, BegunFacts DEF Begun, handleExecTTY
  <2>2. ASSUME StartFails(Writes(v, Frame("exit", "one")), "one", 0)
        PROVE  Refused("one")
    <3> DEFINE f == Frame("exit", "one")
               l == Writes(v, f)
    <3>1. l \in Vsocks
      BY <1>1, WritesType, ExitType DEF Codes
    <3>2. /\ UNCHANGED <<v.h, v.up, v.torn, v.half, guest.w, proc.pipe>>
          /\ ~v'.g /\ guest'.pc = "closed" /\ proc'.st = "gone" /\ proc'.code = "one"
          /\ v'.gh = l.gh /\ proc'.out = [s \in Streams |-> IF s = "stderr" THEN 0 ELSE 0]
      BY <1>1, <1>3, <1>4, <2>2, <3>1, RefusedFacts
    <3>3. v'.gh = IF v.h THEN <<f>> ELSE <<>>
      BY <1>3, <3>2
    <3> QED
      BY <1>9, <3>2, <3>3 DEF Refused, Answer, Piped, handleExecTTY
  <2> QED
    BY <1>1, <1>9, <2>1, <2>2 DEF handleExecTTY
<1> QED
  BY <1>5, <1>6, <1>7, <1>8, <1>9 DEF StartStep

(* Steps that move input, arm timers or signal the process: nothing the      *)
(* other invariants speak of changes, except that a frame to the guest may   *)
(* be torn.                                                                  *)
Quiet ==
  /\ UNCHANGED <<call, cli.pc, cli.out, cli.cut, cli.ret, u.rc>>
  /\ UNCHANGED <<relay.pc, relay.ctx, bk.pc, bk.rd, bk.res, bk.out>>
  /\ UNCHANGED <<v.h, v.g, v.up, v.half, v.gh, guest.pc, guest.w>>
  /\ UNCHANGED <<proc.st, proc.code, proc.out, proc.pipe>>
  /\ v.torn => v'.torn

QuietStep ==
  \/ AgentReader \/ KillAfterGrace \/ BackendStdin \/ PumpResize
  \/ SendStdin \/ SendResize \/ StopRelay \/ WatchStdin \/ WatchStdinEnd \/ WatchResize

(* These steps are quiet.                                                    *)
LEMMA QuietSteps ==
  ASSUME ExecTypeOK, QuietStep
  PROVE  Quiet
<1>1. CASE ReadStdin
  BY <1>1 DEF ExecTypeOK, Vsocks, Agents, Processes, Quiet, ReadStdin, Fed, Idle
<1>2. CASE WriteStdin
  BY <1>2 DEF ExecTypeOK, Agents, Processes, Quiet, WriteStdin, Fed, Idle
<1>3. CASE ReadStdinEnd
  BY <1>3 DEF ExecTypeOK, Vsocks, Agents, Processes, Quiet, ReadStdinEnd, Idle
<1>4. CASE ReadControl
  BY <1>4 DEF ExecTypeOK, Vsocks, Agents, Processes, Quiet, ReadControl, Idle
<1>5. CASE MonitorHangup
  BY <1>5 DEF ExecTypeOK, Agents, Quiet, MonitorHangup, Idle
<1>6. CASE PipeHangup
  BY <1>6 DEF ExecTypeOK, Agents, Processes, Quiet, PipeHangup, Idle
<1>7. CASE TTYHangup
  BY <1>7 DEF ExecTypeOK, Agents, Quiet, TTYHangup, Idle
<1>8. CASE Terminate
  BY <1>8 DEF ExecTypeOK, Agents, Processes, Quiet, Terminate, Idle
<1>9. CASE KillAfterGrace
  BY <1>9 DEF ExecTypeOK, Agents, Processes, Quiet, KillAfterGrace, Idle
<1>10. CASE PumpStdin
  BY <1>10 DEF ExecTypeOK, Relays, Backends, Vsocks, Quiet, PumpStdin, HostWrites
<1>11. CASE PumpHeader
  BY <1>11 DEF ExecTypeOK, Relays, Backends, Vsocks, Quiet, PumpHeader, HostBegins
<1>12. CASE PumpPayload
  BY <1>12 DEF ExecTypeOK, Backends, Vsocks, Quiet, PumpPayload, HostEnds
<1>13. CASE PumpEnd
  BY <1>13 DEF ExecTypeOK, Backends, Vsocks, Quiet, PumpEnd, HostWrites
<1>14. CASE PumpResize
  BY <1>14 DEF ExecTypeOK, Relays, Vsocks, Quiet, PumpResize, HostWrites
<1>15. CASE SendStdin
  BY <1>15 DEF ExecTypeOK, Sockets, Callers, Quiet, SendStdin, Rest
<1>16. CASE SendResize
  BY <1>16 DEF ExecTypeOK, Sockets, Callers, Quiet, SendResize, Rest
<1>17. CASE StopRelay
  BY <1>17 DEF ExecTypeOK, Relays, Quiet, StopRelay, Rest
<1>18. CASE WatchStdin
  BY <1>18 DEF ExecTypeOK, Relays, Sockets, Quiet, WatchStdin, Watch, Rest
<1>19. CASE WatchStdinEnd
  BY <1>19 DEF ExecTypeOK, Relays, Sockets, Quiet, WatchStdinEnd, Watch, Rest
<1>20. CASE WatchResize
  BY <1>20 DEF ExecTypeOK, Relays, Sockets, Quiet, WatchResize, Watch, Rest
<1> QED
  BY <1>1, <1>2, <1>3, <1>4, <1>5, <1>6, <1>7, <1>8, <1>9, <1>10, <1>11, <1>12, <1>13,
     <1>14, <1>15, <1>16, <1>17, <1>18, <1>19, <1>20 DEF QuietStep, AgentReader,
     BackendStdin


(* The backend dials: the agent has a connection, or the call has failed.     *)
DialStep == execVsock \/ ExecPipe \/ ExecInteractive \/ fileRPC

(* The two outcomes of a dial.                                               *)
LEMMA DialEffect ==
  ASSUME ExecTypeOK, DialStep
  PROVE  /\ bk.pc = "idle" /\ relay.pc = "exec" /\ UNCHANGED <<call, cli, u, relay, proc>>
         /\ UNCHANGED <<bk.out, v.gh, v.up, v.half, v.torn, guest.w>>
         /\ \/ /\ v.up /\ v'.h /\ v'.g /\ guest'.pc = "accept"
               /\ bk'.pc = "wait" /\ bk'.rd = "reading" /\ UNCHANGED bk.res
            \/ /\ bk'.pc = "done" /\ bk'.res = "error" /\ UNCHANGED bk.rd
               /\ UNCHANGED <<v, guest>>
<1>1. PICK m : Dialled(m)
  BY DEF DialStep, execVsock, ExecPipe, ExecInteractive, fileRPC
<1>2. bk.pc = "idle" /\ relay.pc = "exec" /\ UNCHANGED <<call, cli, u, relay, proc>>
  BY DEF DialStep, execVsock, ExecPipe, ExecInteractive, fileRPC, Requested
<1>3. v \in Vsocks /\ bk \in Backends /\ guest \in Agents
  BY DEF ExecTypeOK
<1>4. CASE UNCHANGED <<v, guest>> /\ bk' = [bk EXCEPT !.pc = "done", !.res = "error"]
  BY <1>2, <1>3, <1>4 DEF Backends
<1>5. CASE /\ v.up
           /\ v' = [v EXCEPT !.h = TRUE, !.g = TRUE, !.hg = <<Frame("req", call.mode)>>]
           /\ guest' = [guest EXCEPT !.pc = "accept"]
           /\ bk' = [bk EXCEPT !.pc = "wait", !.rd = "reading", !.in = m]
  BY <1>2, <1>3, <1>5 DEF Backends, Vsocks, Agents
<1> QED
  BY <1>1, <1>4, <1>5 DEF Dialled


-----------------------------------------------------------------------------
(* The backend.                                                              *)

(* What the agent does leaves the host's end of the connection alone.        *)
LEMMA AgentLink ==
  ASSUME ExecInv, AgentMain \/ \E s \in Streams : AgentCopier(s)
  PROVE  /\ Idle /\ v'.h = v.h /\ v'.up = v.up /\ (v.torn => v'.torn) /\ (v'.g => v.g)
         /\ guest.pc # "none" /\ guest'.pc # "none" /\ (~v.h => v'.gh \in {v.gh, <<>>})
<1> USE DEF ExecInv
<1>0. v \in Vsocks /\ guest \in Agents /\ Idle
  BY AgentKeeps DEF ExecTypeOK
<1>1. CASE AcceptRequest
  BY <1>0, <1>1 DEF Vsocks, Agents, AcceptRequest
<1>2. CASE WaitCommand
  BY <1>0, <1>2 DEF Vsocks, Agents, WaitCommand
<1>3. CASE WaitTTY
  BY <1>0, <1>3 DEF Vsocks, Agents, WaitTTY
<1>4. CASE CloseConn
  BY <1>0, <1>4 DEF Vsocks, Agents, CloseConn
<1>5. CASE sendExecResponse
  BY <1>0, <1>5, WritesFacts DEF Agents, sendExecResponse, Sent, Open
<1>6. CASE sendExitCode
  BY <1>0, <1>6, WritesFacts DEF Agents, sendExitCode, Sent, Open
<1>7. CASE StartStep
  BY <1>0, <1>7, StartEffect DEF Begun, Refused
<1>8. ASSUME NEW s \in Streams, AgentCopier(s)
      PROVE  /\ v'.h = v.h /\ v'.up = v.up /\ (v.torn => v'.torn) /\ (v'.g => v.g)
             /\ guest.pc # "none" /\ guest'.pc # "none" /\ (~v.h => v'.gh \in {v.gh, <<>>})
  <2>1. guest.pc # "none"
    BY <1>8 DEF AgentInv, AgentCopier, CopyHeader, CopyPayload, CopyEnd
  <2>2. guest'.pc = guest.pc
    BY <1>0, <1>8 DEF Agents, AgentCopier, CopyHeader, CopyPayload, CopyEnd
  <2>3. v'.h = v.h /\ v'.up = v.up /\ (v.torn => v'.torn) /\ (v'.g => v.g)
    BY <1>0, <1>8, CopierWritesFacts DEF AgentCopier, CopyHeader, CopyPayload, CopyEnd
  <2>4. ~v.h => v'.gh = v.gh
    BY <1>0, <1>8, CopierWritesFacts DEF AgentCopier, CopyHeader, CopyPayload, CopyEnd, Sent,
       Open
  <2> QED
    BY <2>1, <2>2, <2>3, <2>4
<1> QED
  BY <1>0, <1>1, <1>2, <1>3, <1>4, <1>5, <1>6, <1>7, <1>8 DEF AgentMain, StartStep

(* Every step keeps the backend's invariant.                                 *)
LEMMA BackendStep ==
  ASSUME ExecInv, [ExecNext]_execVars
  PROVE  BackendInv'
<1> USE DEF ExecInv
<1>1. CASE QuietStep
  BY <1>1, QuietSteps DEF Quiet, BackendInv
<1>2. CASE AgentMain \/ \E s \in Streams : AgentCopier(s)
  BY <1>2, AgentLink DEF BackendInv, Idle
<1>3. CASE RunLauncher
  BY <1>3 DEF ExecTypeOK, Processes, BackendInv, RunLauncher, Idle
<1>4. CASE CommandRuns
  BY <1>4 DEF ExecTypeOK, Processes, BackendInv, CommandRuns, Idle
<1>5. CASE CommandSignalled
  BY <1>5 DEF ExecTypeOK, Processes, BackendInv, CommandSignalled, Idle
<1>6. CASE VMDies
  BY <1>6 DEF ExecTypeOK, Vsocks, Agents, Processes, BackendInv, VMDies
<1>7. CASE DialStep
  BY <1>7, DialEffect DEF BackendInv
<1>8. CASE RequestFails
  BY <1>8 DEF ExecTypeOK, Backends, Vsocks, Agents, BackendInv, RequestFails, Requested
<1>9. CASE TakeOutcome
  BY <1>9 DEF ExecTypeOK, Backends, Vsocks, BackendInv, TakeOutcome
<1>10. CASE TakeCancel
  BY <1>10 DEF ExecTypeOK, Backends, Vsocks, BackendInv, TakeCancel, HostWrites
<1>11. CASE CancelCloses
  BY <1>11 DEF ExecTypeOK, Vsocks, BackendInv, CancelCloses
<1>12. CASE ReadOutput
  BY <1>12 DEF ExecTypeOK, Vsocks, Sockets, Callers, BackendInv, ReadOutput, Forward, Sent
<1>13. CASE ReadResult
  BY <1>13 DEF ExecTypeOK, Backends, BackendInv, ReadResult, Ended, LastFrame
<1>14. CASE ReadExit
  BY <1>14 DEF ExecTypeOK, Backends, BackendInv, ReadExit, Ended, LastFrame
<1>15. CASE ReadGarbage
  <2>1. v.torn
    BY <1>15, TailFacts DEF ExecTypeOK, Vsocks, AgentInv, NoGarbage, ReadGarbage
  <2> QED
    BY <1>15, <2>1 DEF ExecTypeOK, Backends, BackendInv, ReadGarbage
<1>16. CASE ExecViaRelay
  BY <1>16 DEF ExecTypeOK, Sockets, Callers, BackendInv, ExecViaRelay, Connected, Rest
<1>17. CASE ExecPipeViaRelay
  BY <1>17 DEF ExecTypeOK, Sockets, Callers, BackendInv, ExecPipeViaRelay, Connected, Rest
<1>18. CASE ExecInteractiveViaRelay
  BY <1>18 DEF ExecTypeOK, Sockets, Callers, BackendInv, ExecInteractiveViaRelay,
     Connected, Rest
<1>19. CASE ReceiveReply
  BY <1>19 DEF ExecTypeOK, Sockets, Callers, BackendInv, ReceiveReply, Returns, Rest
<1>20. CASE ReceiveFrame
  BY <1>20 DEF ExecTypeOK, Sockets, Callers, BackendInv, ReceiveFrame, Returns, Rest
<1>21. CASE ReceiveResult
  BY <1>21 DEF ExecTypeOK, Relays, Callers, BackendInv, ReceiveResult, Rest
<1>22. CASE Disconnect
  BY <1>22 DEF ExecTypeOK, Sockets, Callers, BackendInv, Disconnect, Rest
<1>23. CASE CancelCall
  BY <1>23 DEF ExecTypeOK, Relays, Callers, BackendInv, CancelCall, Rest
<1>24. CASE HandleExec
  BY <1>24 DEF ExecTypeOK, Relays, Sockets, BackendInv, HandleExec, Handles, Rest
<1>25. CASE HandleExecPipe
  BY <1>25 DEF ExecTypeOK, Relays, Sockets, BackendInv, HandleExecPipe, Handles, Rest
<1>26. CASE HandleExecInteractive
  BY <1>26 DEF ExecTypeOK, Relays, Sockets, BackendInv, HandleExecInteractive, Handles,
     Rest
<1>27. CASE ReplyResult
  BY <1>27 DEF ExecTypeOK, Relays, Sockets, BackendInv, ReplyResult, Replies, Rest
<1>28. CASE ReplyExit
  BY <1>28 DEF ExecTypeOK, Relays, Sockets, BackendInv, ReplyExit, Replies, Rest
<1>29. CASE WatchHangup
  BY <1>29 DEF ExecTypeOK, Relays, BackendInv, WatchHangup, RelayEOF, Rest
<1>30. CASE HostDies
  BY <1>30 DEF ExecTypeOK, Relays, Sockets, Backends, Callers, Vsocks, BackendInv,
     HostDies
<1>31. CASE UNCHANGED execVars
  BY <1>31 DEF BackendInv, execVars
<1>32. CASE WriteLate
  BY <1>32, LateEffect DEF Lates, BackendInv
<1> QED
  BY <1>1, <1>2, <1>3, <1>4, <1>5, <1>6, <1>7, <1>8, <1>9, <1>10,
     <1>11, <1>12, <1>13, <1>14, <1>15, <1>16, <1>17, <1>18, <1>19, <1>20, <1>21, <1>22,
     <1>23, <1>24, <1>25, <1>26, <1>27, <1>28, <1>29, <1>30, <1>31, <1>32 DEF ExecNext,
     Environment, AgentMain, AgentCopier, BackendMain, BackendReader, CallerSteps,
     RelayMain, RelayWatcher, QuietStep, StartStep, DialStep


-----------------------------------------------------------------------------
(* The agent and the process.                                                *)

(* Steps of the host that touch neither the connection to the guest nor what *)
(* is on its way to the client.                                              *)
HostStep ==
  \/ ExecViaRelay \/ ExecPipeViaRelay \/ ExecInteractiveViaRelay \/ ReceiveReply
  \/ ReceiveResult \/ Disconnect \/ CancelCall \/ HandleExec \/ HandleExecPipe
  \/ HandleExecInteractive \/ WatchHangup \/ ReadResult \/ ReadExit \/ ReadGarbage

(* These steps keep the guest and what is on its way to the client.          *)
LEMMA HostKeeps ==
  ASSUME ExecTypeOK, HostStep
  PROVE  UNCHANGED <<call, v, guest, proc, u.rc>>
<1>0. u \in Sockets
  BY DEF ExecTypeOK
<1>1. CASE ExecViaRelay
  BY <1>0, <1>1 DEF Sockets, ExecViaRelay, Connected, Rest
<1>2. CASE ExecPipeViaRelay
  BY <1>0, <1>2 DEF Sockets, ExecPipeViaRelay, Connected, Rest
<1>3. CASE ExecInteractiveViaRelay
  BY <1>0, <1>3 DEF Sockets, ExecInteractiveViaRelay, Connected, Rest
<1>4. CASE ReceiveReply
  BY <1>0, <1>4 DEF Sockets, ReceiveReply, Returns, Rest
<1>5. CASE ReceiveResult
  BY <1>0, <1>5 DEF Sockets, ReceiveResult, Rest
<1>6. CASE Disconnect
  BY <1>0, <1>6 DEF Sockets, Disconnect, Rest
<1>7. CASE CancelCall
  BY <1>0, <1>7 DEF Sockets, CancelCall, Rest
<1>8. CASE HandleExec
  BY <1>0, <1>8 DEF Sockets, HandleExec, Handles, Rest
<1>9. CASE HandleExecPipe
  BY <1>0, <1>9 DEF Sockets, HandleExecPipe, Handles, Rest
<1>10. CASE HandleExecInteractive
  BY <1>0, <1>10 DEF Sockets, HandleExecInteractive, Handles, Rest
<1>11. CASE WatchHangup
  BY <1>0, <1>11 DEF Sockets, WatchHangup, Rest
<1>12. CASE ReadResult
  BY <1>0, <1>12 DEF Sockets, ReadResult
<1>13. CASE ReadExit
  BY <1>0, <1>13 DEF Sockets, ReadExit
<1>14. CASE ReadGarbage
  BY <1>0, <1>14 DEF Sockets, ReadGarbage
<1> QED
  BY <1>1, <1>2, <1>3, <1>4, <1>5, <1>6, <1>7, <1>8, <1>9, <1>10, <1>11, <1>12, <1>13,
     <1>14 DEF HostStep

(* What AgentInv speaks of.                                                  *)
LEMMA AgentKept ==
  ASSUME AgentInv, UNCHANGED <<call, v.h, v.g, v.up, v.half, v.gh, guest.pc, guest.w, u.rc>>,
         UNCHANGED <<proc.st, proc.code, proc.out, proc.pipe>>, v.torn => v'.torn
  PROVE  AgentInv'
BY DEF AgentInv, NoGarbage, HasEnd, Piped

(* A frame after the others, and the first one taken, on the guest's side.   *)
LEMMA SentFacts ==
  ASSUME ExecTypeOK, NEW f \in GuestFrames, v'.gh = Sent(v.gh, Open(v), f)
  PROVE  /\ NoGarbage' <=> NoGarbage /\ (Open(v) => f.kind # "garbage")
         /\ HasEnd(v'.gh) <=> HasEnd(v.gh) \/ (Open(v) /\ f.kind \notin Streams)
         /\ OnlyEnds(v'.gh) <=> OnlyEnds(v.gh) /\ (Open(v) => f.kind \notin Streams)
<1>1. v.gh \in Seq(GuestFrames)
  BY DEF ExecTypeOK, Vsocks
<1>2. CASE Open(v)
  <2>1. v'.gh = Append(v.gh, f)
    BY <1>2 DEF Sent
  <2>2. /\ Len(v.gh) \in Nat /\ Len(v'.gh) = Len(v.gh) + 1
        /\ v'.gh[Len(v.gh) + 1] = f
        /\ \A i \in 1..Len(v.gh) : v'.gh[i] = v.gh[i]
    BY <1>1, <2>1, AppendFacts
  <2>3. NoGarbage' <=> NoGarbage /\ f.kind # "garbage"
    <3>1. \A i \in 1..Len(v.gh) : i \in 1..Len(v'.gh)
      BY <2>2
    <3>2. Len(v.gh) + 1 \in 1..Len(v'.gh)
      BY <2>2
    <3>3. ASSUME NEW i \in 1..Len(v'.gh) PROVE i \in 1..Len(v.gh) \/ i = Len(v.gh) + 1
      BY <2>2, <3>3
    <3>4. ASSUME NoGarbage' PROVE NoGarbage /\ f.kind # "garbage"
      BY <2>2, <3>1, <3>2, <3>4 DEF NoGarbage
    <3>5. ASSUME NoGarbage, f.kind # "garbage" PROVE NoGarbage'
      BY <2>2, <3>3, <3>5 DEF NoGarbage
    <3> QED
      BY <3>4, <3>5
  <2>4. OnlyEnds(v'.gh) <=> OnlyEnds(v.gh) /\ f.kind \notin Streams
    BY <2>2 DEF OnlyEnds
  <2>5. HasEnd(v'.gh) <=> HasEnd(v.gh) \/ f.kind \notin Streams
    BY <1>1, <2>1, HasEndAppend
  <2> QED
    BY <1>2, <2>3, <2>4, <2>5
<1>3. CASE ~Open(v)
  BY <1>3 DEF Sent, NoGarbage
<1> QED
  BY <1>2, <1>3

(* The host takes a chunk: garbage and answers stay where they are.          *)
LEMMA TakenFacts ==
  ASSUME ExecTypeOK, v.gh # <<>>, v.gh[1].kind \in Streams, v'.gh = Tail(v.gh)
  PROVE  /\ NoGarbage' <=> NoGarbage
         /\ HasEnd(v'.gh) <=> HasEnd(v.gh)
         /\ ~OnlyEnds(v.gh)
<1>1. v.gh \in Seq(GuestFrames)
  BY DEF ExecTypeOK, Vsocks
<1>2. HasEnd(v'.gh) <=> HasEnd(v.gh)
  BY <1>1, HasEndTail
<1>3. /\ Len(v.gh) \in Nat \ {0} /\ Len(v'.gh) = Len(v.gh) - 1
      /\ \A i \in 1..Len(v.gh) - 1 : v'.gh[i] = v.gh[i + 1]
  BY <1>1, TailFacts
<1>4. NoGarbage => NoGarbage'
  BY <1>3 DEF NoGarbage
<1>5. ASSUME NoGarbage', NEW i \in 1..Len(v.gh) PROVE v.gh[i].kind # "garbage"
  <2>1. i = 1 \/ (i - 1 \in 1..Len(v'.gh) /\ v.gh[i] = v'.gh[i - 1])
    BY <1>3
  <2> QED
    BY <1>5, <2>1 DEF NoGarbage
<1> QED
  BY <1>2, <1>3, <1>4, <1>5 DEF OnlyEnds, NoGarbage

(* The kinds of the frames of the guest.                                     *)
LEMMA FrameKinds ==
  /\ \A f \in EndFrames : f \in GuestFrames /\ f.kind \in {"exit", "result"}
  /\ \A f \in OutFrames : f \in GuestFrames /\ f.kind \in Streams
  /\ Frame("garbage", 0) \in GuestFrames /\ Frame("garbage", 0).kind = "garbage"
BY DEF GuestFrames, EndFrames, OutFrames, Frame

(* The command writes a chunk.                                               *)
LEMMA EmitAgent ==
  ASSUME ExecTypeOK, AgentInv, UNCHANGED <<call, v, guest, u>>, proc.st \in {"launcher", "running"},
         proc'.st \in {"launcher", "running"} => proc'.code = "none",
         proc'.st = "gone" => proc'.code \in {"127", "zero", "signal"},
         proc'.st \in {"launcher", "running", "gone"}
  PROVE  AgentInv'
BY DEF AgentInv, NoGarbage, Piped

(* Every step keeps the agent's invariant.                                   *)
LEMMA AgentStep ==
  ASSUME ExecInv, [ExecNext]_execVars
  PROVE  AgentInv'
<1> USE DEF ExecInv
<1>1. CASE QuietStep
  BY <1>1, QuietSteps, AgentKept DEF Quiet
<1>2. CASE DialStep
  BY <1>2, DialEffect DEF BackendInv, AgentInv, NoGarbage, Piped
<1>3. CASE HostStep
  BY <1>3, HostKeeps, AgentKept
<1>4. CASE StartStep
  <2>1. guest.pc = "start" /\ Idle
    BY <1>4, StartEffect
  <2>2. ASSUME NEW w \in [Streams -> {"reading", "done"}], Begun(w) PROVE AgentInv'
    BY <2>1, <2>2 DEF Begun, AgentInv, NoGarbage, Piped, Idle
  <2>3. ASSUME NEW c \in {"zero", "error", "one"}, Refused(c) PROVE AgentInv'
    <3>1. Answer(c) \in EndFrames /\ (~Piped => Answer(c).kind = "result")
      BY ResultType, ExitType DEF Answer, Codes, Result, Frame
    <3>2. Answer(c).kind \in {"exit", "result"} /\ Frame("stderr", 1).kind = "stderr"
      BY <3>1, FrameKinds DEF Frame
    <3>3. /\ NoGarbage' /\ (v'.h => HasEnd(v'.gh))
          /\ call.mode # "pipe" => OnlyEnds(v'.gh)
      <4>1. CASE v'.gh = <<>> /\ ~v'.h
        BY <4>1 DEF NoGarbage, OnlyEnds
      <4>2. CASE v'.gh = <<Answer(c)>>
        BY <3>2, <4>2 DEF NoGarbage, OnlyEnds, HasEnd
      <4>3. CASE v'.gh = <<Frame("stderr", 1), Answer(c)>> /\ call.mode = "pipe"
        <5>1. Len(v'.gh) = 2 /\ v'.gh[1].kind = "stderr" /\ v'.gh[2].kind \in {"exit", "result"}
          BY <3>2, <4>3
        <5> QED
          BY <4>3, <5>1 DEF NoGarbage, HasEnd
      <4> QED
        BY <2>3, <4>1, <4>2, <4>3 DEF Refused
    <3>4. c # "none" /\ (c = "error" => ~Piped)
      BY <2>3 DEF Refused
    <3> QED
      BY <2>1, <2>3, <3>3, <3>4, StartFacts DEF Refused, AgentInv, Piped, Idle
  <2> QED
    BY <1>4, <2>2, <2>3, StartEffect
<1>5. CASE AcceptRequest
  <2>1. CASE v' = [v EXCEPT !.hg = Tail(@)] /\ guest' = [guest EXCEPT !.pc = "start"]
    BY <1>5, <2>1 DEF ExecTypeOK, Vsocks, Agents, AgentInv, AcceptRequest, Idle,
       NoGarbage, Piped
  <2>2. CASE GuestEOF /\ v' = [v EXCEPT !.g = FALSE] /\ guest' = [guest EXCEPT !.pc = "closed"]
    BY <1>5, <2>2 DEF ExecTypeOK, Vsocks, Agents, AgentInv, AcceptRequest, Idle,
       NoGarbage,
       GuestEOF, Piped
  <2> QED
    BY <1>5, <2>1, <2>2 DEF AcceptRequest
<1>6. CASE WaitCommand
  BY <1>6 DEF ExecTypeOK, Agents, AgentInv, WaitCommand, Idle, NoGarbage, Piped
<1>7. CASE WaitTTY
  BY <1>7 DEF ExecTypeOK, Agents, AgentInv, WaitTTY, Idle, NoGarbage, Piped
<1>8. CASE sendExecResponse
  <2>1. PICK f \in EndFrames : v' = Writes(v, f)
    BY <1>8, ResultType DEF sendExecResponse, ExecTypeOK, Processes
  <2>2. guest.pc = "waited" /\ guest'.pc = "answered" /\ UNCHANGED <<guest.w, proc, u, call>>
    BY <1>8 DEF sendExecResponse, Idle, ExecTypeOK, Agents
  <2>3. UNCHANGED <<v.h, v.g, v.up, v.half>> /\ (v.torn => v'.torn)
    BY <2>1, WritesFacts DEF ExecTypeOK
  <2>4. PICK e \in GuestFrames :
          /\ v'.gh = Sent(v.gh, Open(v), e) /\ e.kind \notin Streams
          /\ e.kind = "garbage" => v'.torn
    BY <2>1, WritesFacts, FrameKinds DEF ExecTypeOK
  <2>5. /\ NoGarbage' \/ v'.torn
        /\ HasEnd(v'.gh) <=> HasEnd(v.gh) \/ Open(v)
        /\ OnlyEnds(v'.gh) <=> OnlyEnds(v.gh)
    <3>1. /\ NoGarbage' <=> NoGarbage /\ (Open(v) => e.kind # "garbage")
          /\ HasEnd(v'.gh) <=> HasEnd(v.gh) \/ (Open(v) /\ e.kind \notin Streams)
          /\ OnlyEnds(v'.gh) <=> OnlyEnds(v.gh) /\ (Open(v) => e.kind \notin Streams)
      BY <2>4, SentFacts
    <3>2. NoGarbage \/ v.torn
      BY DEF AgentInv
    <3> QED
      BY <2>3, <2>4, <3>1, <3>2
  <2> QED
    BY <2>2, <2>3, <2>5 DEF AgentInv, Open, Piped
<1>9. CASE sendExitCode
  <2>1. PICK f \in EndFrames : v' = Writes(v, f)
    <3>1. Encoded(proc.code) \in Codes
      BY DEF ExecTypeOK, Processes, Encoded, Codes
    <3> QED
      BY <1>9, <3>1, ExitType DEF sendExitCode
  <2>2. guest.pc = "waited" /\ guest'.pc = "answered" /\ UNCHANGED <<guest.w, proc, u, call>>
    BY <1>9 DEF sendExitCode, Idle, ExecTypeOK, Agents
  <2>3. UNCHANGED <<v.h, v.g, v.up, v.half>> /\ (v.torn => v'.torn)
    BY <2>1, WritesFacts DEF ExecTypeOK
  <2>4. PICK e \in GuestFrames :
          /\ v'.gh = Sent(v.gh, Open(v), e) /\ e.kind \notin Streams
          /\ e.kind = "garbage" => v'.torn
    BY <2>1, WritesFacts, FrameKinds DEF ExecTypeOK
  <2>5. /\ NoGarbage' \/ v'.torn
        /\ HasEnd(v'.gh) <=> HasEnd(v.gh) \/ Open(v)
        /\ OnlyEnds(v'.gh) <=> OnlyEnds(v.gh)
    <3>1. /\ NoGarbage' <=> NoGarbage /\ (Open(v) => e.kind # "garbage")
          /\ HasEnd(v'.gh) <=> HasEnd(v.gh) \/ (Open(v) /\ e.kind \notin Streams)
          /\ OnlyEnds(v'.gh) <=> OnlyEnds(v.gh) /\ (Open(v) => e.kind \notin Streams)
      BY <2>4, SentFacts
    <3>2. NoGarbage \/ v.torn
      BY DEF AgentInv
    <3> QED
      BY <2>3, <2>4, <3>1, <3>2
  <2> QED
    BY <2>2, <2>3, <2>5 DEF AgentInv, Open, Piped
<1>10. CASE CloseConn
  BY <1>10 DEF ExecTypeOK, Vsocks, Agents, AgentInv, CloseConn, Idle, NoGarbage, Piped
<1>11. ASSUME NEW s \in Streams, CopyHeader(s) PROVE AgentInv'
  <2>1. call.mode # "batch" /\ guest.pc \notin {"none", "accept", "start"}
    BY <1>11 DEF AgentInv, CopyHeader
  <2>2. UNCHANGED <<call, u, guest.pc, proc.st, proc.code>>
    BY <1>11 DEF CopyHeader, Idle, ExecTypeOK, Agents, Processes
  <2>3. UNCHANGED <<v.h, v.g, v.up>> /\ (v.torn => v'.torn)
    BY <1>11, CopierWritesFacts DEF CopyHeader, ExecTypeOK
  <2>4. (NoGarbage' \/ v'.torn) /\ (HasEnd(v.gh) => HasEnd(v'.gh))
    <3>1. CASE v.half = "none"
      BY <1>11, <2>3, <3>1, CopierWritesFacts DEF CopyHeader, ExecTypeOK, AgentInv,
         NoGarbage
    <3>2. CASE v.half # "none"
      <4>1. v'.torn /\ v'.gh = Sent(v.gh, Open(v), Frame("garbage", 0))
        BY <1>11, <3>2, CopierWritesFacts DEF CopyHeader, ExecTypeOK
      <4> QED
        BY <4>1, SentFacts, FrameKinds
    <3> QED
      BY <3>1, <3>2
  <2> QED
    BY <2>1, <2>2, <2>3, <2>4 DEF AgentInv, Piped
<1>12. ASSUME NEW s \in Streams, CopyPayload(s) PROVE AgentInv'
  <2>1. call.mode # "batch" /\ guest.pc \notin {"none", "accept", "start"}
    BY <1>12 DEF AgentInv, CopyPayload
  <2>2. UNCHANGED <<call, u, guest.pc, proc.st, proc.code>>
    BY <1>12 DEF CopyPayload, Idle, ExecTypeOK, Agents, Processes
  <2>3. UNCHANGED <<v.h, v.g, v.up>> /\ (v.torn => v'.torn)
    BY <1>12, CopierWritesFacts DEF CopyPayload, ExecTypeOK
  <2>4. (NoGarbage' \/ v'.torn) /\ (HasEnd(v.gh) => HasEnd(v'.gh))
    <3>1. CASE v.half # s
      BY <1>12, <2>3, <3>1, CopierWritesFacts DEF CopyPayload, ExecTypeOK, AgentInv,
         NoGarbage
    <3>2. CASE v.half = s
      <4> DEFINE f == Frame(s, proc.out[s] - proc.pipe[s])
      <4>1. v'.gh = Sent(v.gh, Open(v), f)
        BY <1>12, <3>2, CopierWritesFacts DEF CopyPayload, ExecTypeOK
      <4>2. f \in OutFrames
        BY <1>12, ChunkType DEF CopyPayload, CopierInv, ExecTypeOK, Processes
      <4>3. f \in GuestFrames /\ f.kind # "garbage"
        BY <4>2, FrameKinds
      <4> HIDE DEF f
      <4> QED
        BY <2>3, <4>1, <4>3, SentFacts DEF AgentInv
    <3> QED
      BY <3>1, <3>2
  <2> QED
    BY <2>1, <2>2, <2>3, <2>4 DEF AgentInv, Piped
<1>13. ASSUME NEW s \in Streams, CopyEnd(s) PROVE AgentInv'
  BY <1>13 DEF ExecTypeOK, Agents, AgentInv, CopyEnd, Idle, NoGarbage, Piped
<1>14. CASE RunLauncher
  <2>1. Emit(proc, "stderr") \in Processes
    BY EmitType
  <2>2. \/ proc'.st = "running" /\ proc'.code = proc.code
        \/ proc'.st = "gone" /\ proc'.code = "127"
    BY <1>14, <2>1 DEF RunLauncher, ExecTypeOK, Processes
  <2>3. UNCHANGED <<call, v, guest, u>> /\ proc.st = "launcher" /\ proc.code = "none"
    BY <1>14 DEF RunLauncher, Idle, AgentInv
  <2> QED
    BY <2>2, <2>3, EmitAgent
<1>15. CASE CommandRuns
  <2>1. ASSUME NEW s \in Streams, proc' = Emit(proc, s)
        PROVE  proc'.st = proc.st /\ proc'.code = proc.code
    BY <2>1, EmitType
  <2>2. \/ proc'.st = proc.st /\ proc'.code = proc.code
        \/ proc'.st = "gone" /\ proc'.code \in {"zero", "signal"}
    BY <1>15, <2>1 DEF CommandRuns, ExecTypeOK, Processes
  <2>3. UNCHANGED <<call, v, guest, u>> /\ proc.st = "running" /\ proc.code = "none"
    BY <1>15 DEF CommandRuns, Idle, AgentInv
  <2> QED
    BY <2>2, <2>3, EmitAgent
<1>16. CASE CommandSignalled
  BY <1>16 DEF ExecTypeOK, Processes, AgentInv, CommandSignalled, Idle, NoGarbage, Piped
<1>17. CASE VMDies
  BY <1>17 DEF ExecTypeOK, Vsocks, Agents, Processes, AgentInv, VMDies, NoGarbage, Piped
<1>18. CASE RequestFails
  BY <1>18 DEF ExecTypeOK, Backends, Vsocks, Agents, AgentInv, RequestFails, Requested,
     BackendInv, NoGarbage, Piped
<1>19. CASE TakeOutcome
  BY <1>19 DEF ExecTypeOK, Backends, Vsocks, AgentInv, TakeOutcome, NoGarbage, Piped
<1>20. CASE TakeCancel
  BY <1>20 DEF ExecTypeOK, Backends, Vsocks, AgentInv, TakeCancel, HostWrites, NoGarbage,
     Piped
<1>21. CASE CancelCloses
  BY <1>21 DEF ExecTypeOK, Vsocks, AgentInv, CancelCloses, NoGarbage, Piped
<1>22. CASE ReadOutput
  <2>1. /\ UNCHANGED <<call, guest, proc, v.h, v.g, v.up, v.half, v.torn>>
        /\ v'.gh = Tail(v.gh) /\ v.gh # <<>> /\ v.gh[1].kind \in Streams
    BY <1>22 DEF ReadOutput, ExecTypeOK, Vsocks
  <2>2. (NoGarbage' <=> NoGarbage) /\ (HasEnd(v'.gh) <=> HasEnd(v.gh)) /\ ~OnlyEnds(v.gh)
    BY <2>1, TakenFacts
  <2> QED
    BY <2>1, <2>2 DEF AgentInv, Piped
<1>23. CASE ReceiveFrame
  BY <1>23 DEF ExecTypeOK, Sockets, Callers, AgentInv, ReceiveFrame, Returns, Rest,
     NoGarbage, Piped
<1>24. CASE ReplyResult
  <2>1. u'.rc = Sent(u.rc, u.c, Result(bk.res, bk.out)) /\ UNCHANGED <<call, v, guest, proc>>
    BY <1>24 DEF ReplyResult, Replies, Rest, ExecTypeOK, Sockets
  <2>2. Result(bk.res, bk.out) \in OutFrames \cup EndFrames
    BY ResultType DEF ExecTypeOK, Backends
  <2>3. (\A i \in 1..Len(u.rc) : u.rc[i].kind = "result")
           => \A i \in 1..Len(u'.rc) : u'.rc[i].kind = "result"
    <3>1. CASE u.c
      <4>1. u'.rc = Append(u.rc, Result(bk.res, bk.out)) /\ u.rc \in Seq(OutFrames \cup EndFrames)
        BY <2>1, <3>1 DEF Sent, ExecTypeOK, Sockets
      <4>2. /\ Len(u.rc) \in Nat /\ Len(u'.rc) = Len(u.rc) + 1
            /\ u'.rc[Len(u.rc) + 1].kind = "result"
            /\ \A i \in 1..Len(u.rc) : u'.rc[i] = u.rc[i]
        BY <2>2, <4>1, AppendFacts DEF Result, Frame
      <4> QED
        BY <4>2
    <3>2. CASE ~u.c
      BY <2>1, <3>2 DEF Sent
    <3> QED
      BY <3>1, <3>2
  <2> QED
    BY <2>1, <2>3 DEF AgentInv, NoGarbage, Piped
<1>25. CASE ReplyExit
  BY <1>25 DEF ExecTypeOK, Relays, Sockets, AgentInv, ReplyExit, Replies, Rest,
     NoGarbage, Piped
<1>26. CASE HostDies
  BY <1>26 DEF ExecTypeOK, Relays, Sockets, Backends, Callers, Vsocks, AgentInv,
     HostDies, NoGarbage, Piped
<1>27. CASE UNCHANGED execVars
  BY AgentKept, <1>27 DEF execVars
<1>28. CASE WriteLate
  <2>1. PICK f \in OutFrames : Lates(f)
    BY <1>28, LateEffect
  <2>2. NoGarbage' /\ OnlyEnds(v'.gh)
    BY <2>1 DEF Lates, NoGarbage, OnlyEnds
  <2> QED
    BY <2>1, <2>2 DEF Lates, AgentInv, Piped
<1> QED
  BY <1>1, <1>2, <1>3, <1>4, <1>5, <1>6, <1>7, <1>8, <1>9, <1>10, <1>11, <1>12, <1>13,
     <1>14, <1>15, <1>16, <1>17, <1>18, <1>19, <1>20, <1>21, <1>22, <1>23, <1>24, <1>25,
     <1>26, <1>27, <1>28 DEF ExecNext, Environment, AgentMain, AgentCopier, BackendMain,
     BackendReader, CallerSteps, RelayMain, RelayWatcher, QuietStep, StartStep, HostStep,
     DialStep


-----------------------------------------------------------------------------
(* The copiers.                                                              *)

(* What CopierInv speaks of.                                                 *)
LEMMA CopierKept ==
  ASSUME NEW s \in Streams, CopierInv(s),
         UNCHANGED <<call, v.half, v.up, guest.pc, guest.w[s], proc.st>>,
         UNCHANGED <<proc.out[s], proc.pipe[s]>>,
         Open(v)' => Open(v), Open(v)' /\ NoGarbage' => NoGarbage
  PROVE  CopierInv(s)'
BY DEF CopierInv

(* The command writes a chunk, or not, and may end.                          *)
LEMMA EmitCopier ==
  ASSUME ExecTypeOK, AgentInv, NEW s \in Streams, CopierInv(s),
         UNCHANGED <<call, v, guest>>, proc.st \in {"launcher", "running"},
         NEW d \in {0, 1}, proc'.out[s] = proc.out[s] + d, proc'.pipe[s] = proc.pipe[s] + d
  PROVE  CopierInv(s)'
<1>1. proc.out[s] \in Nat /\ proc.pipe[s] \in Nat
  BY DEF ExecTypeOK, Processes
<1>2. guest.pc \notin {"waited", "answered"}
  BY DEF AgentInv
<1>3. ~(v.up /\ call.mode \in {"stream", "pipe"} /\ guest.w[s] = "done")
  BY DEF CopierInv
<1>4. NoGarbage' = NoGarbage /\ Open(v)' = Open(v)
  BY DEF NoGarbage, Open
<1>5. /\ proc'.pipe[s] <= proc'.out[s]
      /\ guest.w[s] = "half" => proc'.pipe[s] < proc'.out[s]
  BY <1>1 DEF CopierInv
<1> QED
  BY <1>2, <1>3, <1>4, <1>5 DEF CopierInv

(* What a step of the process does to one of its streams.                    *)
LEMMA EmitFacts ==
  ASSUME ExecTypeOK, NEW t \in Streams, proc' = Emit(proc, t), NEW s \in Streams
  PROVE  \E d \in {0, 1} : /\ proc'.out[s] = proc.out[s] + d
                           /\ proc'.pipe[s] = proc.pipe[s] + d
<1>1. proc.out \in [Streams -> Nat] /\ proc.pipe \in [Streams -> Nat]
  BY DEF ExecTypeOK, Processes
<1>2. PICK r \in Streams : /\ proc'.out = [proc.out EXCEPT ![r] = @ + 1]
                           /\ proc'.pipe = [proc.pipe EXCEPT ![r] = @ + 1]
  BY EmitType
<1>3. CASE r = s
  BY <1>1, <1>2, <1>3
<1>4. CASE r # s
  BY <1>1, <1>2, <1>4
<1> QED
  BY <1>3, <1>4

(* What the process does: at most a chunk to one stream.                     *)
LEMMA CommandEffect ==
  ASSUME ExecTypeOK, RunLauncher \/ CommandRuns \/ CommandSignalled, NEW s \in Streams
  PROVE  /\ UNCHANGED <<call, cli, u, relay, bk, v, guest>>
         /\ proc.st \in {"launcher", "running"}
         /\ \E d \in {0, 1} : /\ proc'.out[s] = proc.out[s] + d
                               /\ proc'.pipe[s] = proc.pipe[s] + d
<1>1. /\ UNCHANGED <<call, cli, u, relay, bk, v, guest>>
      /\ proc.st \in {"launcher", "running"}
  BY DEF RunLauncher, CommandRuns, CommandSignalled, Idle
<1>2. proc.out[s] \in Nat /\ proc.pipe[s] \in Nat /\ Emit(proc, "stderr") \in Processes
  BY EmitType DEF ExecTypeOK, Processes
<1>3. ASSUME UNCHANGED <<proc.out, proc.pipe>>
      PROVE  \E d \in {0, 1} : /\ proc'.out[s] = proc.out[s] + d
                               /\ proc'.pipe[s] = proc.pipe[s] + d
  BY <1>2, <1>3
<1>4. CASE RunLauncher
  <2>1. CASE proc' = [proc EXCEPT !.st = "running"]
    BY <1>1, <1>3, <2>1 DEF ExecTypeOK, Processes
  <2>2. CASE proc' = [Emit(proc, "stderr") EXCEPT !.st = "gone", !.code = "127"]
    <3> DEFINE p == Emit(proc, "stderr")
    <3>1. proc'.out = p.out /\ proc'.pipe = p.pipe
      BY <1>2, <2>2 DEF Processes
    <3>2. PICK r \in Streams : /\ p.out = [proc.out EXCEPT ![r] = @ + 1]
                               /\ p.pipe = [proc.pipe EXCEPT ![r] = @ + 1]
      BY EmitType
    <3>3. proc.out \in [Streams -> Nat] /\ proc.pipe \in [Streams -> Nat]
      BY DEF ExecTypeOK, Processes
    <3> HIDE DEF p
    <3>4. CASE r = s
      BY <1>1, <3>1, <3>2, <3>3, <3>4
    <3>5. CASE r # s
      BY <1>1, <3>1, <3>2, <3>3, <3>5
    <3> QED
      BY <3>4, <3>5
  <2> QED
    BY <1>4, <2>1, <2>2 DEF RunLauncher
<1>5. CASE CommandRuns
  <2>1. CASE \E t \in Streams : proc' = Emit(proc, t)
    BY <1>1, <2>1, EmitFacts
  <2>2. CASE ~\E t \in Streams : proc' = Emit(proc, t)
    <3>1. UNCHANGED <<proc.out, proc.pipe>>
      BY <1>5, <2>2 DEF CommandRuns, ExecTypeOK, Processes
    <3> QED
      BY <1>1, <1>3, <3>1
  <2> QED
    BY <2>1, <2>2
<1>6. CASE CommandSignalled
  BY <1>1, <1>3, <1>6 DEF CommandSignalled, ExecTypeOK, Processes
<1> QED
  BY <1>4, <1>5, <1>6

(* The frame the agent answers with.                                         *)
LEMMA AnswerFrame ==
  ASSUME ExecTypeOK
  PROVE  /\ Frame("exit", Encoded(proc.code)) \in EndFrames
         /\ Result(proc.code, IF call.mode = "batch" THEN proc.out ELSE PerStream(0)) \in EndFrames
<1>1. /\ Encoded(proc.code) \in Codes /\ proc.code \in Codes
      /\ (IF call.mode = "batch" THEN proc.out ELSE PerStream(0)) \in [Streams -> Nat]
  BY DEF ExecTypeOK, Processes, Encoded, Codes
<1> QED
  BY <1>1, ExitType, ResultType

(* Every step keeps the copiers' invariant.                                  *)
LEMMA CopierStep ==
  ASSUME ExecInv, [ExecNext]_execVars, NEW s \in Streams
  PROVE  CopierInv(s)'
<1> USE DEF ExecInv
<1>1. CASE QuietStep
  BY <1>1, QuietSteps, CopierKept DEF Quiet, Open, NoGarbage
<1>2. CASE HostStep
  BY <1>2, HostKeeps, CopierKept DEF Open, NoGarbage
<1>3. CASE DialStep
  <2>1. guest.pc = "none" \/ ~v.up
    BY <1>3, DialEffect DEF BackendInv
  <2>2. CASE UNCHANGED <<v, guest>>
    BY <1>3, <2>2, DialEffect, CopierKept DEF Open, NoGarbage
  <2>3. CASE v.up /\ guest'.pc = "accept"
    BY <1>3, <2>1, <2>3, DialEffect DEF CopierInv, AgentInv, NoGarbage, Open
  <2> QED
    BY <1>3, <2>2, <2>3, DialEffect
<1>4. CASE RunLauncher \/ CommandRuns \/ CommandSignalled
  BY <1>4, CommandEffect, EmitCopier
<1>5. CASE StartStep
  <2>1. guest.pc = "start" /\ Idle
    BY <1>5, StartEffect
  <2>2. /\ v.half = "none" /\ guest.w = PerStream("off") /\ proc.out = PerStream(0)
        /\ proc.pipe = PerStream(0)
    BY <2>1, StartFacts
  <2>3. ASSUME NEW w \in [Streams -> {"reading", "done"}], Begun(w) PROVE CopierInv(s)'
    BY <2>1, <2>2, <2>3 DEF Begun, CopierInv, NoGarbage, Open, Idle
  <2>4. ASSUME NEW c \in {"zero", "error", "one"}, Refused(c) PROVE CopierInv(s)'
    BY <2>1, <2>2, <2>4 DEF Refused, CopierInv, Open, Idle
  <2> QED
    BY <1>5, <2>3, <2>4, StartEffect
<1>6. CASE AcceptRequest
  BY <1>6 DEF ExecTypeOK, Vsocks, Agents, CopierInv, AcceptRequest, GuestEOF, Idle,
     NoGarbage, Open
<1>7. CASE WaitCommand
  BY <1>7 DEF ExecTypeOK, Agents, CopierInv, WaitCommand, Idle, NoGarbage, Open
<1>8. CASE WaitTTY
  BY <1>8 DEF ExecTypeOK, Agents, CopierInv, WaitTTY, Idle, NoGarbage, Open
<1>9. CASE sendExecResponse
  <2>1. PICK f \in EndFrames : v' = Writes(v, f)
    BY <1>9, AnswerFrame DEF sendExecResponse
  <2>2. guest.pc = "waited" /\ guest'.pc = "answered" /\ UNCHANGED <<guest.w, proc, call>>
    BY <1>9 DEF sendExecResponse, Idle, ExecTypeOK, Agents
  <2>3. UNCHANGED <<v.h, v.g, v.up, v.half>>
    BY <2>1, WritesFacts DEF ExecTypeOK
  <2>4. PICK e \in GuestFrames : v'.gh = Sent(v.gh, Open(v), e)
    BY <2>1, WritesFacts, FrameKinds DEF ExecTypeOK
  <2>5. NoGarbage' => NoGarbage
    BY <2>4, SentFacts
  <2> QED
    BY <2>2, <2>3, <2>5 DEF CopierInv, Open
<1>10. CASE sendExitCode
  <2>1. PICK f \in EndFrames : v' = Writes(v, f)
    BY <1>10, AnswerFrame DEF sendExitCode
  <2>2. guest.pc = "waited" /\ guest'.pc = "answered" /\ UNCHANGED <<guest.w, proc, call>>
    BY <1>10 DEF sendExitCode, Idle, ExecTypeOK, Agents
  <2>3. UNCHANGED <<v.h, v.g, v.up, v.half>>
    BY <2>1, WritesFacts DEF ExecTypeOK
  <2>4. PICK e \in GuestFrames : v'.gh = Sent(v.gh, Open(v), e)
    BY <2>1, WritesFacts, FrameKinds DEF ExecTypeOK
  <2>5. NoGarbage' => NoGarbage
    BY <2>4, SentFacts
  <2> QED
    BY <2>2, <2>3, <2>5 DEF CopierInv, Open
<1>11. CASE CloseConn
  BY <1>11 DEF ExecTypeOK, Vsocks, Agents, CopierInv, CloseConn, Idle, NoGarbage, Open
<1>12. ASSUME NEW t \in Streams, CopyHeader(t) PROVE CopierInv(s)'
  <2>1. /\ UNCHANGED <<call, guest.pc, proc.st, proc.out>>
        /\ guest'.w = [guest.w EXCEPT ![t] = "half"]
        /\ proc'.pipe = [proc.pipe EXCEPT ![t] = @ - 1]
        /\ guest.w[t] = "reading" /\ proc.pipe[t] > 0
    BY <1>12 DEF CopyHeader, Idle, ExecTypeOK, Agents, Processes
  <2>2. /\ guest.w \in [Streams -> {"off", "reading", "half", "done"}] /\ v \in Vsocks
        /\ proc.pipe \in [Streams -> Nat] /\ proc.out \in [Streams -> Nat]
    BY DEF ExecTypeOK, Agents, Processes
  <2>3. UNCHANGED <<v.h, v.g, v.up>> /\ v'.half = t
    BY <1>12, <2>2, CopierWritesFacts DEF CopyHeader
  <2>4. Open(v)' /\ NoGarbage' => NoGarbage /\ v.half = "none"
    <3>1. CASE v.half = "none"
      <4>1. v'.gh = v.gh
        BY <1>12, <2>2, <3>1, CopierWritesFacts DEF CopyHeader
      <4> QED
        BY <3>1, <4>1 DEF NoGarbage
    <3>2. CASE v.half # "none"
      <4>1. v'.gh = Sent(v.gh, Open(v), Frame("garbage", 0))
        BY <1>12, <2>2, <3>2, CopierWritesFacts DEF CopyHeader
      <4>2. Open(v)' <=> Open(v)
        BY <2>3 DEF Open
      <4> DEFINE f == Frame("garbage", 0)
      <4>3. f \in GuestFrames /\ f.kind = "garbage"
        BY FrameKinds
      <4> HIDE DEF f
      <4>4. v'.gh = Sent(v.gh, Open(v), f)
        BY <4>1 DEF f
      <4>5. NoGarbage' <=> NoGarbage /\ (Open(v) => f.kind # "garbage")
        BY <4>3, <4>4, SentFacts
      <4> QED
        BY <4>2, <4>3, <4>5
    <3> QED
      BY <3>1, <3>2
  <2>5. CASE s = t
    BY <2>1, <2>2, <2>3, <2>5 DEF CopierInv, Open
  <2>6. CASE s # t
    BY <2>1, <2>2, <2>3, <2>4, <2>6 DEF CopierInv, Open
  <2> QED
    BY <2>5, <2>6
<1>13. ASSUME NEW t \in Streams, CopyPayload(t) PROVE CopierInv(s)'
  <2>1. /\ UNCHANGED <<call, guest.pc, proc>>
        /\ guest'.w = [guest.w EXCEPT ![t] = "reading"] /\ guest.w[t] = "half"
    BY <1>13 DEF CopyPayload, Idle, ExecTypeOK, Agents
  <2>2. guest.w \in [Streams -> {"off", "reading", "half", "done"}] /\ v \in Vsocks
    BY DEF ExecTypeOK, Agents
  <2>3. UNCHANGED <<v.h, v.g, v.up>>
    BY <1>13, <2>2, CopierWritesFacts DEF CopyPayload
  <2>4. /\ NoGarbage' => NoGarbage
        /\ v.half = t => v'.half = "none"
        /\ v.half # t => v'.half = v.half
    <3>1. CASE v.half # t
      BY <1>13, <2>2, <3>1, CopierWritesFacts DEF CopyPayload, NoGarbage
    <3>2. CASE v.half = t
      <4> DEFINE f == Frame(t, proc.out[t] - proc.pipe[t])
      <4>1. v'.gh = Sent(v.gh, Open(v), f) /\ v'.half = "none"
        BY <1>13, <2>2, <3>2, CopierWritesFacts DEF CopyPayload
      <4>2. f \in OutFrames
        BY <1>13, ChunkType DEF CopyPayload, CopierInv, ExecTypeOK, Processes
      <4>3. f \in GuestFrames
        BY <4>2, FrameKinds
      <4> HIDE DEF f
      <4> QED
        BY <3>2, <4>1, <4>3, SentFacts
    <3> QED
      BY <3>1, <3>2
  <2>5. Open(v) /\ NoGarbage => v.half = t
    BY <2>1 DEF CopierInv
  <2>6. CASE s = t
    BY <2>1, <2>2, <2>3, <2>4, <2>5, <2>6 DEF CopierInv, Open
  <2>7. CASE s # t
    BY <2>1, <2>2, <2>3, <2>4, <2>5, <2>7 DEF CopierInv, Open
  <2> QED
    BY <2>6, <2>7
<1>14. ASSUME NEW t \in Streams, CopyEnd(t) PROVE CopierInv(s)'
  <2>1. /\ UNCHANGED <<call, guest.pc, proc, v>> /\ guest'.w = [guest.w EXCEPT ![t] = "done"]
        /\ guest.w[t] = "reading" /\ proc.pipe[t] = 0 /\ proc.st = "gone"
    BY <1>14 DEF CopyEnd, Idle, ExecTypeOK, Agents
  <2>2. guest.w \in [Streams -> {"off", "reading", "half", "done"}]
    BY DEF ExecTypeOK, Agents
  <2> QED
    BY <2>1, <2>2 DEF CopierInv, Open, NoGarbage
<1>15. CASE VMDies
  BY <1>15 DEF ExecTypeOK, Vsocks, Agents, Processes, CopierInv, VMDies, NoGarbage, Open
<1>16. CASE RequestFails
  BY <1>16 DEF ExecTypeOK, Backends, Vsocks, Agents, CopierInv, RequestFails, Requested,
     BackendInv, NoGarbage, Open
<1>17. CASE TakeOutcome
  BY <1>17 DEF ExecTypeOK, Backends, Vsocks, CopierInv, TakeOutcome, NoGarbage, Open
<1>18. CASE TakeCancel
  BY <1>18 DEF ExecTypeOK, Backends, Vsocks, CopierInv, TakeCancel, HostWrites,
     NoGarbage, Open
<1>19. CASE CancelCloses
  BY <1>19 DEF ExecTypeOK, Vsocks, CopierInv, CancelCloses, NoGarbage, Open
<1>20. CASE ReadOutput
  <2>1. /\ UNCHANGED <<call, guest, proc, v.h, v.g, v.up, v.half, v.torn>>
        /\ v'.gh = Tail(v.gh) /\ v.gh # <<>> /\ v.gh[1].kind \in Streams
    BY <1>20 DEF ReadOutput, ExecTypeOK, Vsocks
  <2> QED
    BY <2>1, TakenFacts, CopierKept DEF Open
<1>21. CASE ReceiveFrame
  BY <1>21, CopierKept DEF ReceiveFrame, Returns, Rest, NoGarbage, Open
<1>22. CASE ReplyResult
  BY <1>22, CopierKept DEF ReplyResult, Replies, Rest, NoGarbage, Open
<1>23. CASE ReplyExit
  BY <1>23, CopierKept DEF ReplyExit, Replies, Rest, NoGarbage, Open
<1>24. CASE HostDies
  BY <1>24 DEF ExecTypeOK, Relays, Sockets, Backends, Callers, Vsocks, CopierInv,
     HostDies, NoGarbage, Open
<1>25. CASE UNCHANGED execVars
  BY <1>25 DEF CopierInv, execVars, NoGarbage, Open
<1>26. CASE WriteLate
  BY <1>26, LateEffect DEF Lates, CopierInv, Open
<1> QED
  BY <1>1, <1>2, <1>3, <1>4, <1>5, <1>6, <1>7, <1>8, <1>9, <1>10, <1>11, <1>12, <1>13,
     <1>14, <1>15, <1>16, <1>17, <1>18, <1>19, <1>20, <1>21, <1>22, <1>23, <1>24, <1>25,
     <1>26 DEF ExecNext, Environment, AgentMain, AgentCopier, BackendMain, BackendReader,
     CallerSteps, RelayMain, RelayWatcher, QuietStep, StartStep, HostStep, DialStep


-----------------------------------------------------------------------------
(* A call that is lost stays lost, torn frames stay torn.                    *)

(* No step takes back that a call was lost or a frame torn.                  *)
LEMMA LostKept ==
  ASSUME ExecInv, [ExecNext]_execVars
  PROVE  (Lost => Lost') /\ (v.torn => v'.torn) /\ UNCHANGED call
<1> USE DEF ExecInv
<1>1. CASE QuietStep
  BY <1>1, QuietSteps DEF Quiet, Lost
<1>2. CASE AgentMain \/ \E s \in Streams : AgentCopier(s)
  BY <1>2, AgentLink DEF Lost, Idle
<1>3. CASE DialStep
  BY <1>3, DialEffect DEF Lost, BackendInv
<1>4. CASE RunLauncher
  BY <1>4 DEF ExecTypeOK, Processes, Lost, RunLauncher, Idle, BackendInv
<1>5. CASE CommandRuns
  BY <1>5 DEF ExecTypeOK, Processes, Lost, CommandRuns, Idle, BackendInv
<1>6. CASE CommandSignalled
  BY <1>6 DEF ExecTypeOK, Processes, Lost, CommandSignalled, Idle, BackendInv
<1>7. CASE VMDies
  BY <1>7 DEF ExecTypeOK, Vsocks, Agents, Processes, Lost, VMDies, BackendInv
<1>8. CASE RequestFails
  BY <1>8 DEF ExecTypeOK, Backends, Vsocks, Agents, Lost, RequestFails, Requested,
     BackendInv
<1>9. CASE TakeOutcome
  BY <1>9 DEF ExecTypeOK, Backends, Vsocks, Lost, TakeOutcome, BackendInv
<1>10. CASE TakeCancel
  BY <1>10 DEF ExecTypeOK, Backends, Vsocks, Lost, TakeCancel, HostWrites, BackendInv
<1>11. CASE CancelCloses
  BY <1>11 DEF ExecTypeOK, Vsocks, Lost, CancelCloses, BackendInv
<1>12. CASE ReadOutput
  BY <1>12 DEF ExecTypeOK, Vsocks, Sockets, Callers, Lost, ReadOutput, Forward, Sent,
     BackendInv
<1>13. CASE ReadResult
  BY <1>13 DEF ExecTypeOK, Backends, Lost, ReadResult, Ended, LastFrame, BackendInv
<1>14. CASE ReadExit
  BY <1>14 DEF ExecTypeOK, Backends, Lost, ReadExit, Ended, LastFrame, BackendInv
<1>15. CASE ReadGarbage
  BY <1>15 DEF ExecTypeOK, Backends, Lost, ReadGarbage, BackendInv
<1>16. CASE ExecViaRelay
  BY <1>16 DEF ExecTypeOK, Sockets, Callers, Lost, ExecViaRelay, Connected, Rest,
     BackendInv
<1>17. CASE ExecPipeViaRelay
  BY <1>17 DEF ExecTypeOK, Sockets, Callers, Lost, ExecPipeViaRelay, Connected, Rest,
     BackendInv
<1>18. CASE ExecInteractiveViaRelay
  BY <1>18 DEF ExecTypeOK, Sockets, Callers, Lost, ExecInteractiveViaRelay, Connected,
     Rest, BackendInv
<1>19. CASE ReceiveReply
  BY <1>19 DEF ExecTypeOK, Sockets, Callers, Lost, ReceiveReply, Returns, Rest, BackendInv
<1>20. CASE ReceiveFrame
  BY <1>20 DEF ExecTypeOK, Sockets, Callers, Lost, ReceiveFrame, Returns, Rest, BackendInv
<1>21. CASE ReceiveResult
  BY <1>21 DEF ExecTypeOK, Relays, Callers, Lost, ReceiveResult, Rest, BackendInv
<1>22. CASE Disconnect
  BY <1>22 DEF ExecTypeOK, Sockets, Callers, Lost, Disconnect, Rest, BackendInv
<1>23. CASE CancelCall
  BY <1>23 DEF ExecTypeOK, Relays, Callers, Lost, CancelCall, Rest, BackendInv
<1>24. CASE HandleExec
  BY <1>24 DEF ExecTypeOK, Relays, Sockets, Lost, HandleExec, Handles, Rest, BackendInv
<1>25. CASE HandleExecPipe
  BY <1>25 DEF ExecTypeOK, Relays, Sockets, Lost, HandleExecPipe, Handles, Rest,
     BackendInv
<1>26. CASE HandleExecInteractive
  BY <1>26 DEF ExecTypeOK, Relays, Sockets, Lost, HandleExecInteractive, Handles, Rest,
     BackendInv
<1>27. CASE ReplyResult
  BY <1>27 DEF ExecTypeOK, Relays, Sockets, Lost, ReplyResult, Replies, Rest, BackendInv
<1>28. CASE ReplyExit
  BY <1>28 DEF ExecTypeOK, Relays, Sockets, Lost, ReplyExit, Replies, Rest, BackendInv
<1>29. CASE WatchHangup
  BY <1>29 DEF ExecTypeOK, Relays, Lost, WatchHangup, RelayEOF, Rest, BackendInv
<1>30. CASE HostDies
  BY <1>30 DEF ExecTypeOK, Relays, Sockets, Backends, Callers, Vsocks, Lost, HostDies,
     BackendInv
<1>31. CASE UNCHANGED execVars
  BY <1>31 DEF Lost, execVars
<1>32. CASE WriteLate
  BY <1>32, LateEffect DEF Lates, Lost
<1> QED
  BY <1>1, <1>2, <1>3, <1>4, <1>5, <1>6, <1>7, <1>8, <1>9, <1>10, <1>11, <1>12, <1>13,
     <1>14, <1>15, <1>16, <1>17, <1>18, <1>19, <1>20, <1>21, <1>22, <1>23, <1>24, <1>25,
     <1>26, <1>27, <1>28, <1>29, <1>30, <1>31, <1>32 DEF ExecNext, Environment, AgentMain,
     AgentCopier, BackendMain, BackendReader, CallerSteps, RelayMain, RelayWatcher,
     QuietStep, StartStep, HostStep, DialStep


-----------------------------------------------------------------------------
(* A caller that has its answer keeps it, and only a late chunk may follow.  *)
LEMMA AnswerKept ==
  ASSUME ExecInv, [ExecNext]_execVars
  PROVE  cli.pc = "done" => /\ UNCHANGED <<cli.pc, cli.ret>>
                            /\ UNCHANGED cli.out \/ WriteLate
<1> USE DEF ExecInv
<1>1. CASE QuietStep
  BY <1>1, QuietSteps DEF Quiet
<1>2. CASE AgentMain \/ \E s \in Streams : AgentCopier(s)
  BY <1>2, AgentKeeps DEF Idle
<1>3. CASE DialStep
  BY <1>3, DialEffect
<1>4. CASE \/ RunLauncher \/ CommandRuns \/ CommandSignalled \/ VMDies
           \/ RequestFails \/ TakeOutcome \/ TakeCancel \/ CancelCloses
           \/ ReadResult \/ ReadExit \/ ReadGarbage \/ HandleExec
           \/ HandleExecPipe \/ HandleExecInteractive \/ ReplyResult \/ ReplyExit
           \/ WatchHangup
  BY <1>4 DEF CancelCloses, CommandRuns, CommandSignalled, HandleExec,
     HandleExecInteractive, HandleExecPipe, Handles, Idle, ReadExit, ReadGarbage,
     ReadResult, Replies, ReplyExit, ReplyResult, RequestFails, Requested, Rest,
     RunLauncher, TakeCancel, TakeOutcome, VMDies, WatchHangup
<1>5. CASE ReadOutput
  BY <1>5, FirstFrameType, ExecBounds DEF ExecTypeOK, Vsocks, Sockets, Callers,
     CallerInv, ReadOutput, Forward, Sent, CallerInv, BackendInv
<1>6. CASE ExecViaRelay
  BY <1>6 DEF ExecTypeOK, Sockets, Callers, CallerInv, ExecViaRelay, Connected, Rest,
     CallerInv, BackendInv
<1>7. CASE ExecPipeViaRelay
  BY <1>7 DEF ExecTypeOK, Sockets, Callers, CallerInv, ExecPipeViaRelay, Connected, Rest,
     CallerInv, BackendInv
<1>8. CASE ExecInteractiveViaRelay
  BY <1>8 DEF ExecTypeOK, Sockets, Callers, CallerInv, ExecInteractiveViaRelay,
     Connected, Rest, CallerInv, BackendInv
<1>9. CASE ReceiveReply
  BY <1>9 DEF ExecTypeOK, Sockets, Callers, CallerInv, ReceiveReply, Returns, Rest,
     CallerInv, BackendInv
<1>10. CASE ReceiveFrame
  BY <1>10 DEF ExecTypeOK, Sockets, Callers, CallerInv, ReceiveFrame, Returns, Rest,
     CallerInv, BackendInv
<1>11. CASE ReceiveResult
  BY <1>11 DEF ExecTypeOK, Relays, Callers, CallerInv, ReceiveResult, Rest, CallerInv
<1>12. CASE Disconnect
  BY <1>12 DEF ExecTypeOK, Sockets, Callers, CallerInv, Disconnect, Rest, CallerInv,
     BackendInv
<1>13. CASE CancelCall
  BY <1>13 DEF ExecTypeOK, Relays, Callers, CallerInv, CancelCall, Rest, CallerInv,
     BackendInv
<1>14. CASE HostDies
  BY <1>14 DEF ExecTypeOK, Relays, Sockets, Backends, Callers, Vsocks, CallerInv,
     HostDies, CallerInv, BackendInv
<1>15. CASE UNCHANGED execVars
  BY <1>15 DEF CallerInv, execVars
<1>16. CASE WriteLate
  BY <1>16, LateEffect DEF Lates
<1> QED
  BY <1>1, <1>2, <1>3, <1>4, <1>5, <1>6, <1>7, <1>8, <1>9, <1>10, <1>11, <1>12, <1>13,
     <1>14, <1>15, <1>16 DEF ExecNext, Environment, AgentMain, AgentCopier, BackendMain,
     BackendReader, CallerSteps, RelayMain, RelayWatcher, QuietStep, StartStep, HostStep,
     DialStep


-----------------------------------------------------------------------------
(* What a step does to the output and the answer while the caller waits.     *)

(* Nothing moves: the step may close connections, tear frames to the guest,  *)
(* lose the call or end the backend's call with an error.                    *)
Still ==
  /\ UNCHANGED <<u.rc, cli.out, v.gh, proc.out, proc.code, bk.out>>
  /\ v'.h => v.h
  /\ Open(v)' => Open(v)
  /\ \A s \in Streams : Open(v)' /\ NoGarbage => Written(s)' = Written(s)
  /\ \/ UNCHANGED bk.res /\ (relay'.pc = "exec" => relay.pc = "exec" \/ bk.res = "none")
     \/ bk'.res = "error" /\ (relay'.pc = "exec" => Lost' /\ bk.out = PerStream(0))

(* The guest sends a frame.                                                  *)
Pushed(f) ==
  /\ Open(v) /\ v'.gh = Append(v.gh, f)
  /\ UNCHANGED <<u.rc, cli.out, v.h, v.g, proc.out, proc.code, bk.out, bk.res, relay.pc>>

TearsFrame == Pushed(Frame("garbage", 0)) /\ v'.torn

SendsAnswer ==
  \E f \in EndFrames : /\ Pushed(f) /\ GoodFrame(f) /\ UNCHANGED v.torn
                       /\ \A s \in Streams : Written(s)' = Written(s)
                       /\ Framed => \A s \in Streams : Written(s) = proc.out[s]

SendsChunk ==
  \E t \in Streams : /\ Pushed(Frame(t, Written(t) + 1)) /\ UNCHANGED v.torn
                     /\ Written(t) + 1 <= proc.out[t]
                     /\ \A s \in Streams :
                           Written(s)' = IF s = t THEN Written(s) + 1 ELSE Written(s)

(* The command writes or ends.                                               *)
Produces ==
  /\ proc.code = "none" /\ UNCHANGED <<cli, u, relay, bk, v, guest>>
  /\ \A s \in Streams : \E d \in {0, 1} : /\ proc'.out[s] = proc.out[s] + d
                                          /\ proc'.pipe[s] = proc.pipe[s] + d

(* The command cannot be started.                                            *)
Refuses == guest.pc = "start" /\ Idle /\ \E c \in {"zero", "error", "one"} : Refused(c)

(* The backend has its connection.                                           *)
Dials ==
  /\ v.gh = <<>> /\ proc.out = PerStream(0) /\ \A s \in Streams : Written(s)' = 0
  /\ UNCHANGED <<u.rc, cli.out, v.gh, proc.out, proc.code, bk.out, bk.res, relay.pc>>

(* The backend takes a chunk and hands it on.                                *)
Takes(f) ==
  /\ v.h /\ v.gh # <<>> /\ v.gh[1] = f /\ v'.gh = Tail(v.gh)
  /\ f \in OutFrames /\ bk.res = "none"
  /\ UNCHANGED <<v.h, v.g, v.torn, bk, relay, proc, guest>>
  /\ \/ u'.rc = Append(u.rc, f) /\ UNCHANGED cli.out
     \/ /\ u.rc = <<>> /\ u'.rc = <<>>
        /\ cli'.out = [cli.out EXCEPT ![f.kind] = Append(@, f.body)]

(* The backend reads the answer.                                             *)
Concludes ==
  /\ v.h /\ v.gh # <<>> /\ bk.res = "none" /\ UNCHANGED <<cli, u, relay, v, guest, proc>>
  /\ \/ ~Piped /\ v.gh[1].kind = "result" /\ bk'.res = v.gh[1].body.code
               /\ bk'.out = v.gh[1].body.out
     \/ Piped /\ v.gh[1].kind = "exit" /\ bk'.res = v.gh[1].body /\ UNCHANGED bk.out

(* The client takes a chunk.                                                 *)
Receives ==
  /\ u.rc # <<>> /\ u.rc[1] \in OutFrames /\ u'.rc = Tail(u.rc)
  /\ call.mode # "batch"
  /\ cli'.out = [cli.out EXCEPT ![u.rc[1].kind] = Append(@, u.rc[1].body)]
  /\ UNCHANGED <<relay, bk, v, guest, proc>>

(* The relay answers its client.                                             *)
Answers ==
  /\ bk.res # "none" /\ relay.pc = "exec" /\ relay'.pc = "done"
  /\ \/ ~Piped /\ u'.rc = Append(u.rc, Result(bk.res, bk.out))
     \/ /\ Piped
        /\ u'.rc = Append(u.rc, Frame("exit", IF bk.res = "error" THEN "one" ELSE bk.res))
  /\ UNCHANGED <<cli, bk, v, guest, proc>>

Moves == \/ TearsFrame \/ SendsAnswer \/ SendsChunk \/ Produces \/ Refuses
         \/ Dials \/ (\E f \in OutFrames : Takes(f)) \/ Concludes \/ Receives \/ Answers
         \/ (\E f \in OutFrames : Lates(f))

(* The agent's answer: sent whole, torn, or to a closed connection.          *)
LEMMA AnswerMove ==
  ASSUME ExecInv, sendExecResponse \/ sendExitCode
  PROVE  Still \/ TearsFrame \/ SendsAnswer
<1> USE DEF ExecInv
<1> DEFINE f == IF Piped THEN Frame("exit", Encoded(proc.code))
                ELSE Result(proc.code, IF call.mode = "batch" THEN proc.out ELSE PerStream(0))
<1>1. /\ v' = Writes(v, f) /\ guest.pc = "waited" /\ guest'.w = guest.w
      /\ UNCHANGED <<cli, u, relay, bk, proc>> /\ call.mode # "file"
  BY DEF sendExecResponse, sendExitCode, Piped, ExecTypeOK, Agents, Idle
<1>2. f \in EndFrames
  BY AnswerFrame
<1>3. /\ UNCHANGED <<v.h, v.g>>
      /\ v.half = "none" => UNCHANGED v.torn /\ v'.gh = Sent(v.gh, Open(v), f)
      /\ v.half # "none" => v'.torn /\ v'.gh = Sent(v.gh, Open(v), Frame("garbage", 0))
  <2> HIDE DEF f
  <2> QED
    BY <1>1, WritesFacts DEF ExecTypeOK
<1>4. \A s \in Streams : Written(s)' = Written(s)
  BY <1>1 DEF Written
<1>5. CASE ~Open(v)
  BY <1>1, <1>3, <1>4, <1>5 DEF Still, Sent, Open
<1>6. CASE Open(v) /\ v.half # "none"
  BY <1>1, <1>3, <1>6 DEF TearsFrame, Pushed, Sent
<1>7. CASE Open(v) /\ v.half = "none"
  <2>1. proc.code # "none"
    BY <1>1 DEF AgentInv
  <2>2. GoodFrame(f)
    BY <2>1 DEF GoodFrame, Good, ReportedCode, Frame, Result, Piped
  <2>3. ASSUME Framed, NEW s \in Streams PROVE Written(s) = proc.out[s]
    <3>1. call.mode \in {"stream", "pipe"}
      BY <2>3, <1>1, ExecBounds DEF Framed, ExecTypeOK
    <3>2. guest.w[s] = "done" /\ proc.pipe[s] = 0
      BY <1>1, <3>1 DEF CopierInv, AgentInv
    <3> QED
      BY <3>2 DEF Written, ExecTypeOK, Processes
  <2>4. Pushed(f)
    BY <1>1, <1>3, <1>7 DEF Pushed, Sent
  <2> HIDE DEF f
  <2> QED
    BY <1>2, <1>3, <1>4, <1>7, <2>2, <2>3, <2>4 DEF SendsAnswer
<1> QED
  BY <1>5, <1>6, <1>7

(* A copier's header moves nothing, unless it tears another frame.           *)
LEMMA HeaderMove ==
  ASSUME ExecInv, NEW s \in Streams, CopyHeader(s)
  PROVE  Still \/ TearsFrame
<1> USE DEF ExecInv
<1>1. /\ v' = Begins(v, s) /\ UNCHANGED <<cli, u, relay, bk, proc.out, proc.code>>
      /\ guest.w[s] = "reading" /\ proc.pipe[s] > 0
      /\ proc'.pipe = [proc.pipe EXCEPT ![s] = @ - 1]
      /\ guest'.w = [guest.w EXCEPT ![s] = "half"]
  BY DEF CopyHeader, Idle, ExecTypeOK, Processes, Agents
<1>2. /\ UNCHANGED <<v.h, v.g>>
      /\ v.half = "none" => v'.gh = v.gh
      /\ v.half # "none" => v'.torn /\ v'.gh = Sent(v.gh, Open(v), Frame("garbage", 0))
  BY <1>1, CopierWritesFacts DEF ExecTypeOK
<1>3. \A t \in Streams : Written(t)' = Written(t)
  BY <1>1 DEF Written, ExecTypeOK, Processes, Agents
<1>4. CASE Open(v) /\ v.half # "none"
  BY <1>1, <1>2, <1>4 DEF TearsFrame, Pushed, Sent
<1>5. CASE ~Open(v) \/ v.half = "none"
  BY <1>1, <1>2, <1>3, <1>5 DEF Still, Sent, Open
<1> QED
  BY <1>4, <1>5

(* A copier's payload is the next chunk of its stream.                       *)
LEMMA PayloadMove ==
  ASSUME ExecInv, NEW s \in Streams, CopyPayload(s)
  PROVE  Still \/ SendsChunk
<1> USE DEF ExecInv
<1> DEFINE f == Frame(s, proc.out[s] - proc.pipe[s])
<1>1. /\ v' = Ends(v, s, f) /\ UNCHANGED <<cli, u, relay, bk, proc>>
      /\ guest.w[s] = "half" /\ guest'.w = [guest.w EXCEPT ![s] = "reading"]
  BY DEF CopyPayload, Idle, ExecTypeOK, Agents
<1>2. /\ UNCHANGED <<v.h, v.g, v.torn>>
      /\ v.half = s => v'.gh = Sent(v.gh, Open(v), f)
      /\ v.half # s => v' = v
  <2> HIDE DEF f
  <2> QED
    BY <1>1, CopierWritesFacts DEF ExecTypeOK
<1>3. /\ Written(s) + 1 = proc.out[s] - proc.pipe[s] /\ Written(s) + 1 <= proc.out[s]
      /\ \A t \in Streams : Written(t)' = IF t = s THEN Written(t) + 1 ELSE Written(t)
  BY <1>1 DEF Written, ExecTypeOK, Processes, Agents
<1>4. CASE Open(v) /\ v.half = s
  <2>1. Pushed(f)
    BY <1>1, <1>2, <1>4 DEF Pushed, Sent
  <2> QED
    BY <1>2, <1>3, <2>1 DEF SendsChunk
<1>5. CASE ~Open(v)
  BY <1>1, <1>2, <1>5 DEF Still, Sent, Open
<1>6. CASE Open(v) /\ v.half # s
  <2>1. ~NoGarbage
    BY <1>1, <1>6 DEF CopierInv
  <2> QED
    BY <1>1, <1>2, <1>6, <2>1 DEF Still, Open
<1> QED
  BY <1>4, <1>5, <1>6

(* A dial opens an empty connection, or the call is lost.                    *)
LEMMA DialMove ==
  ASSUME ExecInv, cli.pc # "done", DialStep
  PROVE  Still \/ Dials
<1> USE DEF ExecInv
<1>1. bk.res = "none" /\ bk.out = PerStream(0) /\ (guest.pc = "none" \/ ~v.up)
  BY DialEffect DEF BackendInv, AnswerInv
<1>2. CASE bk'.res = "error" /\ UNCHANGED <<v, guest>>
  <2>1. Lost'
    BY <1>1, <1>2, DialEffect DEF Lost
  <2> QED
    BY <1>1, <1>2, <2>1, DialEffect DEF Still, Written, Open
<1>3. CASE v.up /\ UNCHANGED bk.res
  <2>1. /\ v.gh = <<>> /\ proc.out = PerStream(0) /\ proc.pipe = PerStream(0)
        /\ guest.w = PerStream("off")
    BY <1>1, <1>3 DEF AgentInv
  <2> QED
    BY <1>3, <2>1, DialEffect DEF Dials, Written, PerStream
<1> QED
  BY <1>2, <1>3, DialEffect

(* The backend's reader hands a chunk to a relay whose client is there, or   *)
(* to the direct caller.                                                     *)
LEMMA TakeMove ==
  ASSUME ExecInv, cli.pc # "done", ReadOutput
  PROVE  \E f \in OutFrames : Takes(f)
<1> USE DEF ExecInv
<1> DEFINE f == v.gh[1]
<1>1. /\ bk.rd = "reading" /\ v.h /\ v.gh # <<>> /\ f.kind \in Streams
      /\ UNCHANGED <<call, relay, bk, guest, proc>> /\ Forward(f.kind, f.body)
  BY DEF ReadOutput
<1>2. /\ v'.gh = Tail(v.gh) /\ UNCHANGED <<v.h, v.g, v.torn>>
  BY DEF ReadOutput, ExecTypeOK, Vsocks
<1>3. f \in OutFrames /\ f = Frame(f.kind, f.body)
  BY <1>1, FirstFrameType DEF OutFrames, Frame
<1>4. bk.pc = "wait" /\ relay.pc = "exec" /\ bk.res = "none"
  BY <1>1 DEF BackendInv
<1>5. \/ u'.rc = Append(u.rc, f) /\ UNCHANGED cli.out
      \/ /\ u.rc = <<>> /\ u'.rc = <<>>
         /\ cli'.out = [cli.out EXCEPT ![f.kind] = Append(@, f.body)]
  <2> HIDE DEF f
  <2>1. CASE call.via = "relay"
    <3>1. u.c /\ u.r
      BY <2>1, <1>4 DEF CallerInv, ExecTypeOK, Callers
    <3> QED
      BY <3>1, <2>1, <1>1, <1>3 DEF Forward, Sent, ExecTypeOK, Sockets
  <2>2. CASE call.via = "direct"
    BY <2>2, <1>1 DEF Forward, CallerInv, ExecTypeOK, Callers
  <2> QED
    BY <2>1, <2>2, ExecBounds DEF ExecTypeOK
<1> HIDE DEF f
<1> QED
  <2>1. v.gh[1] = f
    BY DEF f
  <2>2. Takes(f)
    BY <1>1, <1>2, <1>3, <1>4, <1>5, <2>1 DEF Takes
  <2> QED
    BY <1>3, <2>2

(* A connection that ends before the answer means a lost call.               *)
LEMMA EndedIsLost ==
  ASSUME ExecInv, cli.pc # "done", bk.pc = "wait", Ended
  PROVE  Lost
<1> USE DEF ExecInv
<1>1. CASE bk.rd = "lost"
  BY <1>1 DEF BackendInv, Lost
<1>2. CASE bk.rd = "reading" /\ ~v.h
  BY <1>2 DEF BackendInv, CallerInv, Lost
<1>3. CASE bk.rd = "reading" /\ v.h /\ v.gh = <<>> /\ ~v.g
  <2>1. ~HasEnd(v.gh) /\ guest.pc # "none"
    BY <1>3 DEF HasEnd, BackendInv
  <2>2. guest.pc = "closed"
    BY <1>3, <2>1 DEF AgentInv, ExecTypeOK, Agents
  <2> QED
    BY <1>3, <2>1, <2>2 DEF AgentInv, Lost
<1> QED
  BY <1>1, <1>2, <1>3 DEF Ended, HostEOF

(* The backend's reader ends with the answer, or with an error of a lost     *)
(* call.                                                                     *)
LEMMA OutcomeMove ==
  ASSUME ExecInv, cli.pc # "done", ReadResult \/ ReadExit
  PROVE  Still \/ Concludes
<1> USE DEF ExecInv
<1>1. UNCHANGED <<call, cli, u, relay, v, guest, proc>>
  BY DEF ReadResult, ReadExit
<1>2. CASE Ended /\ bk' = [bk EXCEPT !.rd = "done", !.res = "error"]
  <2>2. bk'.res = "error" /\ UNCHANGED bk.out
    BY <1>2 DEF ExecTypeOK, Backends
  <2>3. (bk.res = "none" /\ bk.pc = "wait") \/ bk.res = "error"
    BY <1>2 DEF Ended, BackendInv
  <2>1. bk.res = "none" => Lost'
    BY <1>1, <1>2, <2>3, EndedIsLost DEF Lost, BackendInv, ExecTypeOK, Backends
  <2>4. bk.res = "none" => bk.out = PerStream(0)
    BY DEF AnswerInv
  <2> QED
    BY <1>1, <2>1, <2>2, <2>3, <2>4 DEF Still, Written, Open
<1>3. CASE ~Piped /\ LastFrame("result") /\ bk' = [bk EXCEPT !.rd = "done",
              !.res = v.gh[1].body.code, !.out = v.gh[1].body.out]
  BY <1>1, <1>3 DEF Concludes, LastFrame, BackendInv, ExecTypeOK, Backends
<1>4. CASE Piped /\ LastFrame("exit") /\ bk' = [bk EXCEPT !.rd = "done", !.res = v.gh[1].body]
  BY <1>1, <1>4 DEF Concludes, LastFrame, BackendInv, ExecTypeOK, Backends
<1> QED
  BY <1>2, <1>3, <1>4 DEF ReadResult, ReadExit

(* A client that goes on waiting has read a chunk.                           *)
LEMMA ReceiveMove ==
  ASSUME ExecInv, cli'.pc # "done", ReceiveFrame
  PROVE  Receives
<1> USE DEF ExecInv
<1>1. /\ u.rc # <<>> /\ u.rc[1].kind \in Streams
      /\ cli' = [cli EXCEPT !.out[u.rc[1].kind] = Append(@, u.rc[1].body)]
      /\ u' = [u EXCEPT !.rc = Tail(@)]
  BY DEF ReceiveFrame, Returns, ExecTypeOK, Callers
<1>2. u.rc[1] \in OutFrames
  BY <1>1, FirstReplyType DEF EndFrames, Streams
<1>3. Rest /\ UNCHANGED <<relay, bk>> /\ call.mode # "batch"
  BY DEF ReceiveFrame, Piped
<1> QED
  BY <1>1, <1>2, <1>3 DEF Receives, Rest, ExecTypeOK, Callers, Sockets

(* The relay's answer reaches a client that waits.                           *)
LEMMA ReplyMove ==
  ASSUME ExecInv, cli.pc # "done", ReplyResult \/ ReplyExit
  PROVE  Answers
<1> USE DEF ExecInv
<1>1. PICK f : /\ Replies(f)
               /\ \/ ~Piped /\ f = Result(bk.res, bk.out)
                  \/ Piped /\ f = Frame("exit", IF bk.res = "error" THEN "one" ELSE bk.res)
  BY DEF ReplyResult, ReplyExit, Piped
<1>2. bk.res # "none" /\ u.c
  BY <1>1 DEF Replies, BackendInv, CallerInv, ExecTypeOK, Callers
<1>3. /\ relay.pc = "exec" /\ relay'.pc = "done" /\ u'.rc = Append(u.rc, f)
      /\ UNCHANGED <<cli, bk, v, guest, proc>>
  BY <1>1, <1>2 DEF Replies, Rest, Sent, ExecTypeOK, Relays, Sockets
<1> QED
  BY <1>1, <1>2, <1>3 DEF Answers

(* Every step while the caller waits is one of these.                        *)
LEMMA StepMoves ==
  ASSUME ExecInv, [ExecNext]_execVars, cli.pc # "done", cli'.pc # "done"
  PROVE  Still \/ Moves
<1> USE DEF ExecInv
<1>1. CASE QuietStep
  BY <1>1, QuietSteps DEF Quiet, Still, Written, Open
<1>2. CASE RunLauncher \/ CommandRuns \/ CommandSignalled
  BY <1>2, CommandEffect DEF Moves, Produces, AgentInv
<1>3. CASE StartStep
  <2>1. ASSUME NEW w \in [Streams -> {"reading", "done"}], Begun(w), Idle PROVE Still
    <3>1. guest.pc = "start"
      BY <1>3, StartEffect
    <3>2. \A s \in Streams : Written(s)' = Written(s)
      BY <2>1, <3>1, StartFacts DEF Begun, Written, PerStream
    <3> QED
      BY <2>1, <3>2 DEF Still, Begun, Open, Idle
  <2> QED
    BY <2>1, <1>3, StartEffect DEF Moves, Refuses
<1>4. CASE DialStep
  BY <1>4, DialMove DEF Moves
<1>5. CASE AcceptRequest
  BY <1>5 DEF ExecTypeOK, Vsocks, Agents, Still, Written, Open, AcceptRequest, GuestEOF,
     Idle, Still, Written, Open
<1>6. CASE WaitCommand
  BY <1>6 DEF ExecTypeOK, Agents, Still, Written, Open, WaitCommand, Idle, Still,
     Written, Open
<1>7. CASE WaitTTY
  BY <1>7 DEF ExecTypeOK, Agents, Still, Written, Open, WaitTTY, Idle, Still, Written,
     Open
<1>8. CASE sendExecResponse
  BY <1>8, AnswerMove DEF Moves
<1>9. CASE sendExitCode
  BY <1>9, AnswerMove DEF Moves
<1>10. CASE CloseConn
  BY <1>10 DEF ExecTypeOK, Vsocks, Agents, Still, Written, Open, CloseConn, Idle, Still,
     Written, Open
<1>11. ASSUME NEW s \in Streams, CopyHeader(s) PROVE Still \/ Moves
  BY <1>11, HeaderMove DEF Moves
<1>12. ASSUME NEW s \in Streams, CopyPayload(s) PROVE Still \/ Moves
  BY <1>12, PayloadMove DEF Moves
<1>13. ASSUME NEW s \in Streams, CopyEnd(s) PROVE Still \/ Moves
  BY <1>13 DEF ExecTypeOK, Agents, Still, Written, Open, CopyEnd, Idle, Still, Written,
     Open
<1>14. CASE VMDies
  BY <1>14 DEF ExecTypeOK, Vsocks, Agents, Processes, Still, Written, Open, VMDies,
     Still, Written, Open
<1>15. CASE RequestFails
  BY <1>15 DEF ExecTypeOK, Backends, Vsocks, Agents, Still, Written, Open, RequestFails,
     Requested, Still, Written, Open, BackendInv, CallerInv, AnswerInv, Lost
<1>16. CASE TakeOutcome
  BY <1>16 DEF ExecTypeOK, Backends, Vsocks, Still, Written, Open, TakeOutcome, Still,
     Written, Open
<1>17. CASE TakeCancel
  <2>1. /\ bk'.res = "error" /\ UNCHANGED <<cli, u, relay, guest, proc, bk.out, v.gh>>
        /\ ~v'.h /\ relay.ctx /\ bk.pc = "wait" /\ Piped
    BY <1>17 DEF TakeCancel, HostWrites, ExecTypeOK, Backends, Vsocks
  <2>2. relay.pc = "exec" /\ Lost'
    BY <2>1 DEF BackendInv, CallerInv, Lost
  <2>3. bk.out = PerStream(0)
    BY <2>1, <2>2 DEF AnswerInv, Good, Piped
  <2> QED
    BY <2>1, <2>2, <2>3 DEF Still, Open
<1>18. CASE CancelCloses
  BY <1>18 DEF ExecTypeOK, Vsocks, Still, Written, Open, CancelCloses, Still, Written,
     Open
<1>19. CASE ReadOutput
  BY <1>19, TakeMove DEF Moves
<1>20. CASE ReadResult
  BY <1>20, OutcomeMove DEF Moves
<1>21. CASE ReadExit
  BY <1>21, OutcomeMove DEF Moves
<1>22. CASE ReadGarbage
  BY <1>22 DEF ExecTypeOK, Backends, Still, Written, Open, ReadGarbage, Still, Written,
     Open
<1>23. CASE ExecViaRelay
  BY <1>23 DEF ExecTypeOK, Sockets, Callers, Still, Written, Open, ExecViaRelay,
     Connected, Rest, Still, Written, Open, BackendInv, CallerInv
<1>24. CASE ExecPipeViaRelay
  BY <1>24 DEF ExecTypeOK, Sockets, Callers, Still, Written, Open, ExecPipeViaRelay,
     Connected, Rest, Still, Written, Open, BackendInv, CallerInv
<1>25. CASE ExecInteractiveViaRelay
  BY <1>25 DEF ExecTypeOK, Sockets, Callers, Still, Written, Open,
     ExecInteractiveViaRelay, Connected, Rest, Still, Written, Open, BackendInv, CallerInv
<1>26. CASE ReceiveReply
  BY <1>26 DEF ExecTypeOK, Sockets, Callers, Still, Written, Open, ReceiveReply, Returns,
     Rest
<1>27. CASE ReceiveFrame
  BY <1>27, ReceiveMove DEF Moves
<1>28. CASE ReceiveResult
  BY <1>28 DEF ExecTypeOK, Relays, Callers, Still, Written, Open, ReceiveResult, Rest
<1>29. CASE Disconnect
  BY <1>29 DEF ExecTypeOK, Sockets, Callers, Still, Written, Open, Disconnect, Rest,
     Still, Written, Open, BackendInv, CallerInv
<1>30. CASE CancelCall
  BY <1>30 DEF ExecTypeOK, Relays, Callers, Still, Written, Open, CancelCall, Rest,
     Still, Written, Open, BackendInv, CallerInv
<1>31. CASE HandleExec
  BY <1>31 DEF ExecTypeOK, Relays, Sockets, Still, Written, Open, HandleExec, Handles,
     Rest, Still, Written, Open, BackendInv, CallerInv
<1>32. CASE HandleExecPipe
  BY <1>32 DEF ExecTypeOK, Relays, Sockets, Still, Written, Open, HandleExecPipe,
     Handles, Rest, Still, Written, Open, BackendInv, CallerInv
<1>33. CASE HandleExecInteractive
  BY <1>33 DEF ExecTypeOK, Relays, Sockets, Still, Written, Open, HandleExecInteractive,
     Handles, Rest, Still, Written, Open, BackendInv, CallerInv
<1>34. CASE ReplyResult
  BY <1>34, ReplyMove DEF Moves
<1>35. CASE ReplyExit
  BY <1>35, ReplyMove DEF Moves
<1>36. CASE WatchHangup
  BY <1>36 DEF ExecTypeOK, Relays, Still, Written, Open, WatchHangup, RelayEOF, Rest,
     Still, Written, Open
<1>37. CASE HostDies
  BY <1>37 DEF ExecTypeOK, Relays, Sockets, Backends, Callers, Vsocks, Still, Written,
     Open, HostDies, Still, Written, Open, BackendInv, CallerInv
<1>38. CASE UNCHANGED execVars
  BY <1>38 DEF Still, Written, Open, execVars
<1>39. CASE WriteLate
  BY <1>39, LateEffect DEF Moves
<1> QED
  BY <1>1, <1>2, <1>3, <1>4, <1>5, <1>6, <1>7, <1>8, <1>9, <1>10, <1>11, <1>12, <1>13,
     <1>14, <1>15, <1>16, <1>17, <1>18, <1>19, <1>20, <1>21, <1>22, <1>23, <1>24, <1>25,
     <1>26, <1>27, <1>28, <1>29, <1>30, <1>31, <1>32, <1>33, <1>34, <1>35, <1>36, <1>37,
     <1>38, <1>39 DEF ExecNext, Environment, AgentMain, AgentCopier, BackendMain, BackendReader,
     CallerSteps, RelayMain, RelayWatcher, QuietStep, StartStep, HostStep, DialStep


-----------------------------------------------------------------------------
(* The chunks on their way.                                                  *)

(* A step that moves no chunk: it may close connections, tear frames, lose   *)
(* the call or end the backend's call without an outcome.                    *)
LEMMA StreamKept ==
  ASSUME NEW s \in Streams, StreamInv(s),
         UNCHANGED <<u.rc, cli.out[s], proc.out[s], v.gh>>,
         v'.h => v.h, Open(v)' => Open(v),
         Open(v)' /\ NoGarbage => Written(s)' = Written(s),
         Framed' => Framed, Lost => Lost',
         Framed' /\ ~Lost' /\ relay'.pc = "exec" /\ bk'.res # "none"
            => relay.pc = "exec" /\ bk.res # "none"
  PROVE  StreamInv(s)'
<1>1. Delivered(s)' = Delivered(s) /\ NoGarbage' = NoGarbage
  BY DEF Delivered, NoGarbage
<1>2. PICK b \in 0..proc.out[s] :
        /\ Newest(u.rc, Len(u.rc), s, Delivered(s), b)
        /\ v.h => InOrder(v.gh, s, b, proc.out[s])
        /\ Open(v) /\ NoGarbage => Newest(v.gh, Len(v.gh), s, b, Written(s))
        /\ v.h /\ Framed => EndsAfter(v.gh, s, b, proc.out[s])
        /\ Framed /\ ~Lost /\ relay.pc = "exec" /\ bk.res # "none" => b = proc.out[s]
  BY DEF StreamInv
<1> QED
  BY <1>1, <1>2 DEF StreamInv


-----------------------------------------------------------------------------
(* The command writes and ends only while it has not ended.                  *)
Ran ==
  \/ UNCHANGED <<proc.out, proc.code>>
  \/ /\ proc.code = "none"
     /\ \A s \in Streams : proc'.out[s] \in {proc.out[s], proc.out[s] + 1}

(* Every step lets the command write at most a chunk per stream, or end.     *)
LEMMA CommandStep ==
  ASSUME ExecInv, [ExecNext]_execVars
  PROVE  Ran
<1> USE DEF ExecInv
<1>1. CASE QuietStep
  BY <1>1, QuietSteps DEF Quiet, Ran
<1>2. CASE RunLauncher \/ CommandRuns \/ CommandSignalled
  <2>1. "stdout" \in Streams
    BY DEF Streams
  <2>2. proc.code = "none"
    BY <1>2, <2>1, CommandEffect DEF AgentInv
  <2>3. \A s \in Streams : proc'.out[s] \in {proc.out[s], proc.out[s] + 1}
    BY <1>2, CommandEffect DEF ExecTypeOK, Processes
  <2> QED
    BY <2>2, <2>3 DEF Ran
<1>3. CASE StartStep
  BY <1>3, StartEffect, StartFacts DEF Ran, Begun, Refused, PerStream
<1>4. CASE DialStep
  BY <1>4, DialEffect DEF Ran
<1>5. CASE HostStep
  BY <1>5, HostKeeps DEF Ran
<1>6. CASE \/ AcceptRequest \/ WaitCommand \/ WaitTTY \/ sendExecResponse
           \/ sendExitCode \/ CloseConn \/ RequestFails \/ TakeOutcome
           \/ TakeCancel \/ CancelCloses \/ ReadOutput \/ WriteLate
           \/ ReceiveFrame \/ ReplyResult \/ ReplyExit \/ HostDies
  BY <1>6 DEF Ran, WriteLate, AcceptRequest, CancelCloses, CloseConn, HostDies, Idle, ReadOutput,
     ReceiveFrame, Replies, ReplyExit, ReplyResult, RequestFails, Requested, Rest,
     TakeCancel, TakeOutcome, WaitCommand, WaitTTY, sendExecResponse, sendExitCode
<1>7. ASSUME NEW s \in Streams, CopyHeader(s) PROVE Ran
  BY <1>7 DEF ExecTypeOK, Vsocks, Agents, Processes, Ran, CopyHeader, Begins, Idle
<1>8. ASSUME NEW s \in Streams, CopyPayload(s) PROVE Ran
  BY <1>8 DEF ExecTypeOK, Vsocks, Agents, Ran, CopyPayload, Ends, Idle
<1>9. ASSUME NEW s \in Streams, CopyEnd(s) PROVE Ran
  BY <1>9 DEF ExecTypeOK, Agents, Ran, CopyEnd, Idle
<1>10. CASE VMDies
  BY <1>10 DEF ExecTypeOK, Vsocks, Agents, Processes, Ran, VMDies
<1>11. CASE UNCHANGED execVars
  BY <1>11 DEF Ran, execVars
<1> QED
  BY <1>1, <1>2, <1>3, <1>4, <1>5, <1>6, <1>7, <1>8, <1>9, <1>10, <1>11 DEF ExecNext,
     Environment, AgentMain, AgentCopier, BackendMain, BackendReader, CallerSteps,
     RelayMain, RelayWatcher, QuietStep, StartStep, HostStep, DialStep

(* The answers that a caller can get: the call was lost, or it is the status *)
(* of the command and all its output is there.                               *)
Settles ==
  /\ UNCHANGED <<call, proc>>
  /\ \/ Lost' /\ UNCHANGED cli.out
     \/ /\ proc.code # "none" /\ cli'.ret = ReportedCode
        /\ \/ /\ UNCHANGED cli.out
              /\ Whole => \A s \in Streams : Delivered(s) = proc.out[s]
           \/ cli'.out = [s \in Streams |-> FirstN(proc.out[s])]

(* No chunks.                                                                *)
LEMMA FirstNZero == FirstN(0) = <<>>
BY DEF FirstN

(* A client that finds its connection closed has lost the call.              *)
LEMMA EndOfFile ==
  ASSUME ExecInv, cli.pc = "wait", call.via = "relay", ClientEOF
  PROVE  Lost
BY DEF ExecInv, ClientEOF, CallerInv, HasEnd, Lost

(* A batch caller has no output before its answer.                           *)
LEMMA EmptyOutput ==
  ASSUME ExecInv, cli.pc # "done", call.mode = "batch"
  PROVE  [s \in Streams |-> FirstN(PerStream(0)[s])] = cli.out
BY FirstNZero DEF ExecInv, OutInv, ExecTypeOK, Callers, PerStream

(* The first frame of a client that is an exit status or a result.           *)
LEMMA ReplyEnds ==
  ASSUME ExecInv, ReceiveReply
  PROVE  Settles
<1> USE DEF ExecInv
<1>1. /\ UNCHANGED <<call, proc, v, relay, bk, guest>> /\ cli.pc = "wait"
      /\ call.via = "relay" /\ call.mode = "batch"
  BY DEF ReceiveReply, Rest
<1>2. CASE ClientEOF /\ Returns("error")
  <2>1. Lost /\ UNCHANGED <<cli.out, cli.cut>>
    BY <1>1, <1>2, EndOfFile DEF Returns, ExecTypeOK, Callers
  <2> QED
    BY <1>1, <2>1 DEF Settles, Lost
<1>3. CASE /\ u.rc # <<>>
           /\ cli' = [cli EXCEPT !.pc = "done", !.ret = u.rc[1].body.code,
                        !.out = [s \in Streams |-> FirstN(u.rc[1].body.out[s])]]
  <2>1. /\ cli'.ret = u.rc[1].body.code /\ UNCHANGED cli.cut
        /\ cli'.out = [s \in Streams |-> FirstN(u.rc[1].body.out[s])]
    BY <1>3 DEF ExecTypeOK, Callers
  <2>2. u.rc[1].kind = "result" /\ ~Piped
    BY <1>1, <1>3, FirstAnswer DEF Piped
  <2>3. GoodFrame(u.rc[1]) \/ LostFrame(u.rc[1])
    BY <1>1, <1>3, TailFacts DEF AnswerInv, ExecTypeOK, Sockets
  <2>4. CASE GoodFrame(u.rc[1])
    BY <1>1, <2>1, <2>2, <2>4 DEF GoodFrame, Good, Settles
  <2>5. CASE LostFrame(u.rc[1])
    <3>1. u.rc[1].body.out = PerStream(0) /\ Lost'
      BY <1>1, <2>1, <2>2, <2>5 DEF LostFrame, Lost
    <3>2. UNCHANGED cli.out
      BY <1>1, <2>1, <3>1, EmptyOutput
    <3> QED
      BY <1>1, <3>1, <3>2 DEF Settles
  <2> QED
    BY <2>3, <2>4, <2>5
<1> QED
  BY <1>2, <1>3 DEF ReceiveReply

(* A pipe or terminal client returns: at an exit status all output is there. *)
LEMMA FrameEnds ==
  ASSUME ExecInv, ReceiveFrame, cli'.pc = "done"
  PROVE  Settles
<1> USE DEF ExecInv
<1>1. /\ UNCHANGED <<call, proc, v, relay, bk, guest>> /\ cli.pc = "wait"
      /\ call.via = "relay" /\ Piped
  BY DEF ReceiveFrame, Rest
<1>2. CASE ClientEOF /\ Returns("error")
  <2>1. Lost /\ UNCHANGED <<cli.out, cli.cut>>
    BY <1>1, <1>2, EndOfFile DEF Returns, ExecTypeOK, Callers
  <2> QED
    BY <1>1, <2>1 DEF Settles, Lost
<1>3. CASE u.rc # <<>> /\ u.rc[1].kind = "exit" /\ Returns(u.rc[1].body)
  <2>1. cli'.ret = u.rc[1].body /\ UNCHANGED <<cli.out, cli.cut>>
    BY <1>3 DEF Returns, ExecTypeOK, Callers
  <2>2. GoodFrame(u.rc[1]) \/ Lost
    BY <1>1, <1>3, TailFacts DEF AnswerInv, ExecTypeOK, Sockets, LostFrame
  <2>3. CASE Lost
    BY <1>1, <2>1, <2>3 DEF Settles, Lost
  <2>4. CASE GoodFrame(u.rc[1]) /\ ~Lost
    <3>1. proc.code # "none" /\ cli'.ret = ReportedCode
      BY <1>3, <2>1, <2>4 DEF GoodFrame, Good
    <3>2. ASSUME Whole, NEW s \in Streams PROVE Delivered(s) = proc.out[s]
      <4>1. Framed
        BY <1>1, <3>2 DEF Whole, Framed, Piped
      <4>2. EndsAfter(u.rc, s, Delivered(s), proc.out[s])
        BY <1>1, <2>4, <4>1 DEF StreamInv
      <4>3. 1 \in 1..Len(u.rc) /\ Clean(u.rc, 1)
        BY <1>3, TailFacts DEF Clean, ExecTypeOK, Sockets
      <4>4. Newest(u.rc, 0, s, Delivered(s), proc.out[s])
        BY <1>3, <4>2, <4>3 DEF EndsAfter
      <4> QED
        BY <4>4, NewestFirst
    <3> QED
      BY <1>1, <2>1, <3>1, <3>2 DEF Settles
  <2> QED
    BY <2>2, <2>3, <2>4
<1>4. ~(u.rc # <<>> /\ cli' = [cli EXCEPT !.out[u.rc[1].kind] = Append(@, u.rc[1].body)])
  BY <1>1 DEF ExecTypeOK, Callers
<1> QED
  BY <1>2, <1>3, <1>4 DEF ReceiveFrame

(* A direct caller returns.                                                  *)
LEMMA ResultEnds ==
  ASSUME ExecInv, ReceiveResult
  PROVE  Settles
<1> USE DEF ExecInv
<1>1. /\ UNCHANGED <<call, proc, v, bk, guest>> /\ cli.pc = "wait"
      /\ call.via = "direct" /\ bk.pc = "done"
  BY DEF ReceiveResult, Rest
<1>2. /\ cli'.ret = bk.res /\ UNCHANGED cli.cut
      /\ cli'.out = IF call.mode = "batch" THEN [s \in Streams |-> FirstN(bk.out[s])]
                    ELSE cli.out
  BY DEF ReceiveResult, ExecTypeOK, Callers
<1>3. bk.res # "none" /\ relay.pc = "exec" /\ u.rc = <<>>
  BY <1>1 DEF BackendInv, CallerInv
<1>4. CASE Lost /\ bk.out = PerStream(0)
  <2>1. UNCHANGED cli.out
    BY <1>1, <1>2, <1>4, EmptyOutput
  <2> QED
    BY <1>1, <1>2, <1>4, <2>1 DEF Settles, Lost
<1>5. CASE Good(bk.res, bk.out) /\ call.mode = "batch"
  BY <1>1, <1>2, <1>5 DEF Settles, Good
<1>6. CASE Good(bk.res, bk.out) /\ call.mode # "batch" /\ ~Lost
  <2>1. ASSUME Whole, NEW s \in Streams PROVE Delivered(s) = proc.out[s]
    <3>1. Framed
      BY <1>6, <2>1 DEF Framed, Whole
    <3>2. PICK b : /\ Newest(u.rc, Len(u.rc), s, Delivered(s), b)
                   /\ Framed /\ ~Lost /\ relay.pc = "exec" /\ bk.res # "none"
                         => b = proc.out[s]
      BY <1>1 DEF StreamInv
    <3>3. Newest(u.rc, 0, s, Delivered(s), proc.out[s])
      BY <1>3, <1>6, <3>1, <3>2
    <3> QED
      BY <3>3, NewestFirst
  <2> QED
    BY <1>1, <1>2, <1>6, <2>1 DEF Settles, Good
<1>7. CASE Lost /\ call.mode # "batch"
  BY <1>1, <1>2, <1>7 DEF Settles, Lost
<1> QED
  BY <1>1, <1>3, <1>4, <1>5, <1>6, <1>7 DEF AnswerInv

(* Every answer is of one of these two kinds.                                *)
LEMMA StepEnds ==
  ASSUME ExecInv, [ExecNext]_execVars, cli.pc # "done", cli'.pc = "done"
  PROVE  Settles
<1> USE DEF ExecInv
<1>1. CASE QuietStep
  BY <1>1, QuietSteps DEF Quiet
<1>2. CASE AgentMain \/ \E s \in Streams : AgentCopier(s)
  BY <1>2, AgentKeeps DEF Idle
<1>3. CASE DialStep
  BY <1>3, DialEffect
<1>4. CASE \/ RunLauncher \/ CommandRuns \/ CommandSignalled \/ VMDies
           \/ RequestFails \/ TakeOutcome \/ TakeCancel \/ CancelCloses
           \/ ReadResult \/ ReadExit \/ ReadGarbage \/ HandleExec \/ HandleExecPipe
           \/ HandleExecInteractive \/ ReplyResult \/ ReplyExit \/ WatchHangup
  BY <1>4 DEF CancelCloses, CommandRuns, CommandSignalled, HandleExec,
     HandleExecInteractive, HandleExecPipe, Handles, Idle, ReadExit, ReadGarbage,
     ReadResult, Replies, ReplyExit, ReplyResult, RequestFails, Requested, Rest,
     RunLauncher, TakeCancel, TakeOutcome, VMDies, WatchHangup
<1>5. CASE ExecViaRelay
  BY <1>5 DEF ExecTypeOK, Sockets, Callers, Settles, Lost, ExecViaRelay, Connected, Rest
<1>6. CASE ExecPipeViaRelay
  BY <1>6 DEF ExecTypeOK, Sockets, Callers, Settles, Lost, ExecPipeViaRelay, Connected, Rest
<1>7. CASE ExecInteractiveViaRelay
  BY <1>7 DEF ExecTypeOK, Sockets, Callers, Settles, Lost, ExecInteractiveViaRelay,
     Connected, Rest
<1>8. CASE Disconnect
  BY <1>8 DEF ExecTypeOK, Sockets, Callers, Settles, Lost, Disconnect, Rest
<1>9. CASE HostDies
  BY <1>9 DEF ExecTypeOK, Relays, Sockets, Backends, Callers, Vsocks, Settles, Lost, HostDies
<1>10. CASE ReceiveReply
  BY <1>10, ReplyEnds
<1>11. CASE ReceiveFrame
  BY <1>11, FrameEnds
<1>12. CASE ReceiveResult
  BY <1>12, ResultEnds
<1>13. CASE CancelCall
  BY <1>13 DEF ExecTypeOK, Relays, Callers, Settles, Lost, CancelCall, Rest
<1>14. CASE ReadOutput
  BY <1>14, FirstFrameType DEF ExecTypeOK, Vsocks, Sockets, Callers, Settles, Lost,
     ReadOutput, Forward, Sent
<1>15. CASE UNCHANGED execVars
  BY <1>15 DEF Settles, Lost, execVars
<1>16. CASE WriteLate
  BY <1>16, LateEffect DEF Lates
<1> QED
  BY <1>1, <1>2, <1>3, <1>4, <1>5, <1>6, <1>7, <1>8, <1>9, <1>10, <1>11, <1>12, <1>13,
     <1>14, <1>15, <1>16 DEF ExecNext, Environment, AgentMain, AgentCopier, BackendMain,
     BackendReader, CallerSteps, RelayMain, RelayWatcher, QuietStep, StartStep, HostStep,
     DialStep

-----------------------------------------------------------------------------
(* What the caller has.                                                      *)

(* The next chunk.                                                           *)
LEMMA FirstNAppend == \A n \in Nat : Append(FirstN(n), n + 1) = FirstN(n + 1)
<1>1. ASSUME NEW n \in Nat PROVE Append(FirstN(n), n + 1) = FirstN(n + 1)
  <2>1. FirstN(n) \in Seq(Nat) /\ Len(FirstN(n)) = n /\ n + 1 \in Nat
    BY FirstNType
  <2>2. Append(FirstN(n), n + 1) \in Seq(Nat) /\ Len(Append(FirstN(n), n + 1)) = n + 1
    BY <2>1, AppendFacts
  <2>3. FirstN(n + 1) \in Seq(Nat) /\ Len(FirstN(n + 1)) = n + 1
    BY FirstNType
  <2>4. \A i \in 1..n + 1 : Append(FirstN(n), n + 1)[i] = FirstN(n + 1)[i]
    <3> TAKE i \in 1..n + 1
    <3>1. CASE i \in 1..n
      BY <3>1, <2>1, AppendFacts DEF FirstN
    <3>2. CASE i = n + 1
      BY <3>2, <2>1, AppendFacts DEF FirstN
    <3>3. i \in 1..n \/ i = n + 1
      OBVIOUS
    <3> QED
      BY <3>1, <3>2, <3>3
  <2> QED
    BY <2>2, <2>3, <2>4
<1> QED
  BY <1>1

(* More output in the guest takes nothing from the caller.                   *)
LEMMA OutKept ==
  ASSUME ExecInv, UNCHANGED call, Ran, NEW s \in Streams,
         UNCHANGED cli.out[s], cli.pc = "done" => cli'.pc = "done"
  PROVE  OutInv(s)'
BY DEF ExecInv, OutInv, Ran, Delivered, ExecTypeOK, Processes, Callers

(* The next chunk of a stream reaches the caller.                            *)
LEMMA OutGrows ==
  ASSUME ExecInv, UNCHANGED call, Ran, NEW s \in Streams, call.mode # "batch",
         NEW n, cli'.out[s] = Append(cli.out[s], n),
         n = Delivered(s) + 1, n <= proc.out[s]
  PROVE  OutInv(s)' /\ Delivered(s)' = n
<1>1. cli.out[s] \in Seq(Nat) /\ Delivered(s) \in Nat /\ cli.out[s] = FirstN(Delivered(s))
  BY DEF ExecInv, OutInv, Delivered, ExecTypeOK, Callers
<1>2. cli'.out[s] = FirstN(n) /\ n \in Nat
  <2>1. Append(FirstN(Delivered(s)), Delivered(s) + 1) = FirstN(Delivered(s) + 1)
    BY <1>1, FirstNAppend
  <2> QED
    BY <1>1, <2>1
<1>3. Delivered(s)' = n
  BY <1>2, FirstNType DEF Delivered
<1>4. n <= proc'.out[s]
  BY <1>2 DEF Ran, ExecInv, ExecTypeOK, Processes
<1> QED
  BY <1>2, <1>3, <1>4 DEF OutInv

(* A chunk the backend takes is the one after the last that left it.         *)
LEMMA TakenIsNext ==
  ASSUME ExecInv, NEW f \in OutFrames, Takes(f), NEW b \in Nat,
         InOrder(v.gh, f.kind, b, proc.out[f.kind])
  PROVE  f.body = b + 1 /\ f.body <= proc.out[f.kind]
<1>1. /\ v.gh \in Seq(GuestFrames) /\ v.gh # <<>> /\ v.gh[1] = f
      /\ f.kind # "garbage" /\ f.body \in Nat
  BY DEF ExecInv, ExecTypeOK, Vsocks, Takes, OutFrames, Streams
<1>2. v.gh[1].kind = f.kind /\ v.gh[1].body \in Nat
  BY <1>1
<1> QED
  BY <1>1, <1>2, InOrderFirst

(* The first chunk the client reads is the one after the last it has.        *)
LEMMA ReceivedIsNext ==
  ASSUME ExecInv, cli.pc # "done", Receives
  PROVE  /\ u.rc[1].kind \in Streams /\ u.rc[1].body = Delivered(u.rc[1].kind) + 1
         /\ u.rc[1].body <= proc.out[u.rc[1].kind]
<1>1. /\ u.rc \in Seq(OutFrames \cup EndFrames) /\ u.rc # <<>> /\ u.rc[1].kind \in Streams
      /\ u.rc[1].kind # "garbage" /\ u.rc[1].body \in Nat
  BY DEF ExecInv, ExecTypeOK, Sockets, Receives, OutFrames, Streams
<1>2. InOrder(u.rc, u.rc[1].kind, Delivered(u.rc[1].kind), proc.out[u.rc[1].kind])
  BY <1>1 DEF ExecInv, StreamInv
<1>3. Delivered(u.rc[1].kind) \in Nat
  BY <1>1 DEF Delivered, ExecInv, ExecTypeOK, Callers
<1> QED
  BY <1>1, <1>2, <1>3, InOrderFirst

(* A late chunk of a direct call is the next one.                            *)
LEMMA LateIsNext ==
  ASSUME ExecInv, UNCHANGED call, Ran, NEW f \in OutFrames, Lates(f), NEW s \in Streams,
         cli.pc # "done" \/ call.via = "direct"
  PROVE  /\ UNCHANGED cli.out[s] \/ (f.kind = s /\ OutInv(s)' /\ Delivered(s)' = f.body)
         /\ f.kind = s => /\ f.body \in 1..proc.out[s]
                          /\ Newest(u.rc, Len(u.rc), s, Delivered(s), f.body - 1)
<1>1. f.kind \in Streams /\ f.body \in Nat /\ v.gh[1] = f /\ call.mode # "batch"
  BY DEF Lates, OutFrames
<1>2. ASSUME f.kind = s
      PROVE  f.body <= proc.out[s] /\ Newest(u.rc, Len(u.rc), s, Delivered(s), f.body - 1)
  BY <1>1, <1>2 DEF ExecInv, LateInv, Lates
<1>3. ASSUME f.kind = s PROVE f.body # 0
  <2>1. Delivered(s) \in Nat /\ u.rc \in Seq(OutFrames \cup EndFrames)
    BY DEF ExecInv, ExecTypeOK, Callers, Sockets, Delivered
  <2>2. ASSUME NEW j \in 1..Len(u.rc), u.rc[j].kind = s PROVE u.rc[j].body \in Nat
    <3>1. u.rc[j] \in OutFrames \cup EndFrames
      BY <2>1
    <3> QED
      BY <2>2, <3>1 DEF OutFrames, EndFrames, Streams
  <2> QED
    BY <1>1, <1>2, <1>3, <2>1, <2>2 DEF Newest
<1>4. CASE UNCHANGED cli.out
  BY <1>1, <1>2, <1>3, <1>4 DEF ExecInv, ExecTypeOK, Processes
<1>5. CASE /\ u.rc = <<>>
           /\ cli'.out = [cli.out EXCEPT ![f.kind] = Append(@, f.body)]
  <2>1. CASE f.kind = s
    <3>1. cli'.out[s] = Append(cli.out[s], f.body)
      BY <1>5, <2>1 DEF ExecInv, ExecTypeOK, Callers
    <3>2. f.body - 1 = Delivered(s) /\ f.body <= proc.out[s]
      BY <1>2, <1>5, <2>1, NewestFirst
    <3>3. f.body = Delivered(s) + 1
      BY <1>1, <3>2
    <3>4. OutInv(s)' /\ Delivered(s)' = f.body
      BY <1>1, <3>1, <3>2, <3>3, OutGrows
    <3> QED
      BY <1>1, <1>2, <1>3, <2>1, <3>4 DEF ExecInv, ExecTypeOK, Processes
  <2>2. CASE f.kind # s
    BY <1>5, <2>2 DEF ExecInv, ExecTypeOK, Callers
  <2> QED
    BY <2>1, <2>2
<1> QED
  BY <1>4, <1>5 DEF Lates

(* A batch call has no output frames.                                        *)
LEMMA NotBatchTaken ==
  ASSUME ExecInv, NEW f \in OutFrames, Takes(f)
  PROVE  call.mode # "batch" /\ f.kind \in Streams
<1>1. v.gh # <<>> /\ v.gh[1].kind \in Streams /\ f.kind \in Streams
  BY DEF Takes, OutFrames
<1>2. ~OnlyEnds(v.gh)
  BY <1>1, TailFacts DEF OnlyEnds, ExecInv, ExecTypeOK, Vsocks
<1> QED
  BY <1>1, <1>2 DEF ExecInv, AgentInv

(* Every step keeps the caller's output in order.                            *)
LEMMA OutStep ==
  ASSUME ExecInv, [ExecNext]_execVars, NEW s \in Streams
  PROVE  OutInv(s)'
<1>0. UNCHANGED call /\ Ran
  BY LostKept, CommandStep
<1>1. CASE cli.pc = "done"
  <2>1. CASE UNCHANGED cli.out[s]
    BY <1>0, <1>1, <2>1, AnswerKept, OutKept
  <2>2. ASSUME NEW f \in OutFrames, Lates(f), cli'.out[s] # cli.out[s] PROVE OutInv(s)'
    <3>1. call.via = "direct"
      BY <2>2 DEF Lates
    <3> QED
      BY <1>0, <2>2, <3>1, LateIsNext
  <2> QED
    BY <1>1, <2>1, <2>2, AnswerKept, LateEffect
<1>2. CASE cli.pc # "done" /\ cli'.pc = "done"
  <2>1. Settles
    BY <1>2, StepEnds
  <2>2. CASE UNCHANGED cli.out
    BY <1>0, <1>2, <2>2, OutKept
  <2>3. CASE cli'.out = [t \in Streams |-> FirstN(proc.out[t])] /\ UNCHANGED proc
    <3>1. cli'.out[s] = FirstN(proc.out[s]) /\ proc'.out[s] = proc.out[s]
      BY <2>3
    <3>2. proc.out[s] \in Nat
      BY DEF ExecInv, ExecTypeOK, Processes
    <3> QED
      BY <1>2, <3>1, <3>2, FirstNType DEF OutInv, Delivered
  <2> QED
    BY <2>1, <2>2, <2>3 DEF Settles
<1>3. CASE cli.pc # "done" /\ cli'.pc # "done"
  <2>1. CASE UNCHANGED cli.out[s]
    BY <1>0, <1>3, <2>1, OutKept
  <2>2. ASSUME NEW f \in OutFrames, Takes(f), cli'.out[s] # cli.out[s] PROVE OutInv(s)'
    <3>1. /\ u.rc = <<>> /\ f.kind = s
          /\ cli'.out[s] = Append(cli.out[s], f.body)
      BY <2>2, NotBatchTaken DEF Takes, ExecInv, ExecTypeOK, Callers
    <3>2. PICK b \in 0..proc.out[s] :
                  /\ Newest(u.rc, Len(u.rc), s, Delivered(s), b)
                  /\ InOrder(v.gh, s, b, proc.out[s])
      BY <1>3, <2>2 DEF ExecInv, StreamInv, Takes
    <3>3. b \in Nat /\ b = Delivered(s)
      BY <3>1, <3>2, NewestFirst DEF ExecInv, ExecTypeOK, Processes
    <3>4. f.body = b + 1 /\ f.body <= proc.out[s]
      BY <2>2, <3>1, <3>2, <3>3, TakenIsNext
    <3> QED
      BY <1>0, <2>2, <3>1, <3>3, <3>4, NotBatchTaken, OutGrows
  <2>3. CASE Receives /\ cli'.out[s] # cli.out[s]
    <3>1. u.rc[1].kind = s /\ cli'.out[s] = Append(cli.out[s], u.rc[1].body)
      BY <2>3, <1>3, ReceivedIsNext DEF Receives, ExecInv, ExecTypeOK, Callers
    <3> QED
      BY <1>0, <1>3, <2>3, <3>1, ReceivedIsNext, OutGrows DEF Receives
  <2>4. Still \/ Moves
    BY <1>3, StepMoves
  <2>5. ASSUME NEW f \in OutFrames, Lates(f), cli'.out[s] # cli.out[s] PROVE OutInv(s)'
    BY <1>0, <1>3, <2>5, LateIsNext
  <2> QED
    BY <2>1, <2>2, <2>3, <2>4, <2>5 DEF Still, Moves, TearsFrame, SendsAnswer, SendsChunk, Pushed,
       Produces, Refuses, Idle, Dials, Concludes, Answers
<1> QED
  BY <1>1, <1>2, <1>3

-----------------------------------------------------------------------------
(* The answers on their way, while the caller waits.                         *)

(* The parts of AnswerInv: the frames from the guest, those to the client,   *)
(* and the backend's outcome.                                                *)
GuestAnswers == \A i \in 1..Len(v.gh) : Clean(v.gh, i) => GoodFrame(v.gh[i])
ClientAnswers == \A i \in 1..Len(u.rc) : GoodFrame(u.rc[i]) \/ LostFrame(u.rc[i])
Outcome ==
  /\ bk.res # "none" /\ relay.pc = "exec" =>
        \/ Good(bk.res, bk.out)
        \/ Lost /\ bk.res = "error" /\ bk.out = PerStream(0)
  /\ bk.res = "none" => bk.out = PerStream(0)

(* AnswerInv is its parts, before and after a step.                          *)
LEMMA AnswerParts ==
  /\ AnswerInv <=> GuestAnswers /\ ClientAnswers /\ Outcome
  /\ AnswerInv' <=> (GuestAnswers /\ ClientAnswers /\ Outcome)'
BY DEF AnswerInv, GuestAnswers, ClientAnswers, Outcome

(* The guest's frames stay good: the command ends only once.                 *)
LEMMA GuestAnswersKept ==
  ASSUME GuestAnswers, UNCHANGED <<call, v.gh>>,
         UNCHANGED <<proc.out, proc.code>> \/ proc.code = "none"
  PROVE  GuestAnswers'
BY DEF GuestAnswers, GoodFrame, Good, ReportedCode, Piped, Clean

(* So do those to the client.                                                *)
LEMMA ClientAnswersKept ==
  ASSUME ClientAnswers, UNCHANGED <<call, u.rc>>, Lost => Lost',
         UNCHANGED <<proc.out, proc.code>> \/ proc.code = "none"
  PROVE  ClientAnswers'
BY DEF ClientAnswers, GoodFrame, LostFrame, Good, ReportedCode, Piped

(* So does the outcome.                                                      *)
LEMMA OutcomeKept ==
  ASSUME Outcome, UNCHANGED <<call, bk.res, bk.out>>, Lost => Lost',
         relay'.pc = "exec" => relay.pc = "exec" \/ bk.res = "none",
         UNCHANGED <<proc.out, proc.code>> \/ proc.code = "none"
  PROVE  Outcome'
BY DEF Outcome, Good, ReportedCode, Piped

(* A good frame, or garbage, behind the others.                              *)
LEMMA GuestAnswersPush ==
  ASSUME ExecTypeOK, GuestAnswers, UNCHANGED <<call, proc.out, proc.code>>,
         NEW CONSTANT f \in GuestFrames, v'.gh = Append(v.gh, f),
         f.kind = "garbage" \/ GoodFrame(f)
  PROVE  GuestAnswers'
<1>1. /\ Len(v.gh) \in Nat /\ Len(v'.gh) = Len(v.gh) + 1 /\ v'.gh[Len(v.gh) + 1] = f
      /\ \A i \in 1..Len(v.gh) : v'.gh[i] = v.gh[i]
  BY AppendFacts DEF ExecTypeOK, Vsocks
<1>2. ASSUME NEW CONSTANT g, GoodFrame(g) PROVE GoodFrame(g)'
  BY <1>2 DEF GoodFrame, Good, ReportedCode, Piped
<1>3. ASSUME NEW CONSTANT i \in 1..Len(v'.gh), Clean(v'.gh, i) PROVE GoodFrame(v.gh[i])'
  <2>1. CASE i \in 1..Len(v.gh)
    <3>1. GoodFrame(v.gh[i])
      BY <1>1, <1>3, <2>1 DEF Clean, GuestAnswers
    <3> QED
      BY <1>1, <2>1, <3>1 DEF GoodFrame, Good, ReportedCode, Piped
  <2>2. CASE i = Len(v.gh) + 1
    <3>1. v'.gh[i] = f /\ f.kind # "garbage"
      BY <1>1, <1>3, <2>2 DEF Clean
    <3>2. GoodFrame(f)'
      BY <1>2, <3>1
    <3> QED
      BY <3>1, <3>2 DEF GoodFrame
  <2> QED
    BY <1>1, <2>1, <2>2
<1> QED
  BY <1>3 DEF GuestAnswers

(* A good frame, or one of a lost call, behind the others.                   *)
LEMMA ClientAnswersPush ==
  ASSUME ExecTypeOK, ClientAnswers, UNCHANGED <<call, proc.out, proc.code>>, Lost => Lost',
         NEW f \in OutFrames \cup EndFrames, u'.rc = Append(u.rc, f),
         GoodFrame(f) \/ LostFrame(f)
  PROVE  ClientAnswers'
<1>1. /\ Len(u.rc) \in Nat /\ Len(u'.rc) = Len(u.rc) + 1 /\ u'.rc[Len(u.rc) + 1] = f
      /\ \A i \in 1..Len(u.rc) : u'.rc[i] = u.rc[i]
  BY AppendFacts DEF ExecTypeOK, Sockets
<1>3. ASSUME NEW CONSTANT i \in 1..Len(u'.rc) PROVE (GoodFrame(u.rc[i]) \/ LostFrame(u.rc[i]))'
  <2>1. CASE i \in 1..Len(u.rc)
    <3>1. GoodFrame(u.rc[i]) \/ LostFrame(u.rc[i])
      BY <2>1 DEF ClientAnswers
    <3> QED
      BY <1>1, <2>1, <3>1 DEF GoodFrame, LostFrame, Good, ReportedCode, Piped
  <2>2. CASE i = Len(u.rc) + 1
    BY <1>1, <2>2 DEF GoodFrame, LostFrame, Good, ReportedCode, Piped
  <2> QED
    BY <1>1, <2>1, <2>2
<1> QED
  BY <1>3 DEF ClientAnswers

(* A chunk is not an answer.                                                 *)
LEMMA ChunksAreNoAnswers ==
  \A f \in OutFrames \cup {Frame("garbage", 0)} : GoodFrame(f)
BY DEF OutFrames, Streams, GoodFrame, Frame

(* A command that cannot be started: the handler's answer is its status.     *)
LEMMA RefusedAnswers ==
  ASSUME ExecInv, UNCHANGED call, Lost => Lost', AnswerInv, Refuses
  PROVE  AnswerInv'
<1> USE DEF ExecInv
<1>1. PICK c \in {"zero", "error", "one"} : Refused(c)
  BY DEF Refuses
<1>2. proc.code = "none" /\ UNCHANGED <<cli, u, relay, bk>>
  BY StartFacts DEF Refuses, Idle
<1>3. ClientAnswers' /\ Outcome'
  BY <1>2, AnswerParts, ClientAnswersKept, OutcomeKept
<1>4. /\ Answer(c).kind \in {"exit", "result"} /\ (Answer(c).kind = "exit" <=> Piped)
      /\ Piped => Answer(c).body = c
      /\ ~Piped => Answer(c).body = [code |-> c, out |-> PerStream(0)]
  BY DEF Answer, Frame, Result
<1>5. GuestAnswers'
  <2>1. proc'.code = c /\ (call.mode # "pipe" => proc'.out = PerStream(0))
    BY <1>1 DEF Refused
  <2>2. \A i \in 1..Len(v'.gh) : v'.gh[i] = Answer(c) \/ v'.gh[i] = Frame("stderr", 1)
    BY <1>1 DEF Refused
  <2>3. ReportedCode' = c
    BY <1>1, <2>1 DEF ReportedCode, Encoded, Piped
  <2>4. ASSUME NEW CONSTANT i \in 1..Len(v'.gh) PROVE GoodFrame(v.gh[i])'
    <3>1. CASE v'.gh[i] = Answer(c)
      BY <1>4, <2>1, <2>3, <3>1 DEF GoodFrame, Good, Piped
    <3>2. CASE v'.gh[i] = Frame("stderr", 1)
      BY <3>2 DEF GoodFrame, Frame
    <3> QED
      BY <2>2, <2>4, <3>1, <3>2
  <2> QED
    BY <2>4 DEF GuestAnswers
<1> QED
  BY <1>3, <1>5, AnswerParts

(* A chunk moves on.                                                         *)
LEMMA TakenAnswers ==
  ASSUME ExecInv, UNCHANGED call, Lost => Lost', AnswerInv, NEW f \in OutFrames, Takes(f)
  PROVE  AnswerInv'
<1> USE DEF ExecInv
<1>1. UNCHANGED <<bk, relay, proc>> /\ v.gh # <<>> /\ v.gh[1] = f /\ v'.gh = Tail(v.gh)
  BY DEF Takes
<1>2. Outcome'
  BY <1>1, AnswerParts, OutcomeKept
<1>3. ClientAnswers'
  <2>1. CASE u'.rc = Append(u.rc, f)
    BY <1>1, <2>1, AnswerParts, ClientAnswersPush, ChunksAreNoAnswers
  <2>2. CASE u'.rc = u.rc
    BY <1>1, <2>2, AnswerParts, ClientAnswersKept
  <2> QED
    BY <2>1, <2>2 DEF Takes
<1>4. GuestAnswers'
  <2>1. v.gh \in Seq(GuestFrames) /\ v.gh[1].kind # "garbage"
    BY <1>1 DEF ExecTypeOK, Vsocks, OutFrames, Streams
  <2>2. Len(v'.gh) = Len(v.gh) - 1 /\ \A i \in 1..Len(v.gh) - 1 : v'.gh[i] = v.gh[i + 1]
    BY <1>1, <2>1, TailFacts
  <2>3. ASSUME NEW CONSTANT i \in 1..Len(v'.gh), Clean(v'.gh, i) PROVE GoodFrame(v.gh[i])'
    <3>1. Clean(v.gh, i + 1)
      BY <1>1, <2>1, <2>2, <2>3, CleanTail
    <3>2. GoodFrame(v.gh[i + 1])
      BY <2>1, <2>2, <2>3, <3>1, AnswerParts DEF GuestAnswers
    <3> QED
      BY <1>1, <2>2, <2>3, <3>2 DEF GoodFrame, Good, ReportedCode, Piped
  <2> QED
    BY <2>3 DEF GuestAnswers
<1> QED
  BY <1>2, <1>3, <1>4, AnswerParts

(* A late chunk moves on.                                                    *)
LEMMA LateAnswers ==
  ASSUME ExecInv, UNCHANGED call, Lost => Lost', AnswerInv, NEW f \in OutFrames, Lates(f)
  PROVE  AnswerInv'
<1> USE DEF ExecInv
<1>1. UNCHANGED <<bk, relay, proc>> /\ v'.gh = <<>>
  BY DEF Lates
<1>2. Outcome'
  BY <1>1, AnswerParts, OutcomeKept
<1>3. ClientAnswers'
  <2>1. CASE u'.rc = Append(u.rc, f)
    BY <1>1, <2>1, AnswerParts, ClientAnswersPush, ChunksAreNoAnswers
  <2>2. CASE u'.rc = u.rc
    BY <1>1, <2>2, AnswerParts, ClientAnswersKept
  <2> QED
    BY <2>1, <2>2 DEF Lates
<1>4. GuestAnswers'
  BY <1>1 DEF GuestAnswers
<1> QED
  BY <1>2, <1>3, <1>4, AnswerParts

(* The backend's outcome is the answer it read.                              *)
LEMMA ConcludedAnswers ==
  ASSUME ExecInv, UNCHANGED call, Lost => Lost', AnswerInv, Concludes
  PROVE  AnswerInv' /\ bk'.res # "none"
<1> USE DEF ExecInv
<1>1. UNCHANGED <<cli, u, relay, v, guest, proc>> /\ v.gh # <<>> /\ bk.res = "none"
  BY DEF Concludes
<1>2. GuestAnswers' /\ ClientAnswers'
  BY <1>1, AnswerParts, GuestAnswersKept, ClientAnswersKept
<1>3. 1 \in 1..Len(v.gh) /\ (v.gh[1].kind # "garbage" => Clean(v.gh, 1))
  BY <1>1, TailFacts DEF Clean, ExecTypeOK, Vsocks
<1>4. v.gh[1].kind # "garbage" => GoodFrame(v.gh[1])
  BY <1>3, AnswerParts DEF GuestAnswers
<1>5. bk.out = PerStream(0)
  BY <1>1 DEF AnswerInv
<1>6. Good(bk'.res, bk'.out)
  BY <1>4, <1>5 DEF Concludes, GoodFrame, Good, Piped
<1>7. bk'.res # "none"
  BY <1>6 DEF Good, ReportedCode, Encoded
<1>8. Good(bk.res, bk.out)'
  BY <1>1, <1>6 DEF Good, ReportedCode, Piped
<1> QED
  BY <1>2, <1>7, <1>8, AnswerParts DEF Outcome

(* A chunk reaches the client.                                               *)
LEMMA ReceivedAnswers ==
  ASSUME ExecInv, UNCHANGED call, Lost => Lost', AnswerInv, Receives
  PROVE  AnswerInv'
<1> USE DEF ExecInv
<1>1. UNCHANGED <<bk, relay, proc, v>> /\ u.rc # <<>> /\ u'.rc = Tail(u.rc)
  BY DEF Receives
<1>2. Outcome' /\ GuestAnswers'
  BY <1>1, AnswerParts, OutcomeKept, GuestAnswersKept
<1>3. ClientAnswers'
  <2>1. Len(u'.rc) = Len(u.rc) - 1 /\ Len(u.rc) \in Nat
        /\ \A i \in 1..Len(u.rc) - 1 : u'.rc[i] = u.rc[i + 1]
    BY <1>1, TailFacts DEF ExecTypeOK, Sockets
  <2>2. ASSUME NEW CONSTANT i \in 1..Len(u'.rc)
        PROVE  (GoodFrame(u.rc[i]) \/ LostFrame(u.rc[i]))'
    <3>1. GoodFrame(u.rc[i + 1]) \/ LostFrame(u.rc[i + 1])
      BY <2>1, <2>2, AnswerParts DEF ClientAnswers
    <3> QED
      BY <1>1, <2>1, <2>2, <3>1 DEF GoodFrame, LostFrame, Good, ReportedCode, Piped
  <2> QED
    BY <2>2 DEF ClientAnswers
<1> QED
  BY <1>2, <1>3, AnswerParts

(* The relay passes the outcome on; an error it calls status 1 is of a lost  *)
(* call.                                                                     *)
LEMMA AnsweredAnswers ==
  ASSUME ExecInv, UNCHANGED call, Lost => Lost', AnswerInv, Answers
  PROVE  AnswerInv'
<1> USE DEF ExecInv
<1>1. /\ UNCHANGED <<cli, bk, proc, v>> /\ relay.pc = "exec" /\ relay'.pc = "done"
      /\ bk.res # "none"
  BY DEF Answers
<1>2. Outcome' /\ GuestAnswers'
  BY <1>1, AnswerParts, OutcomeKept, GuestAnswersKept
<1>3. Good(bk.res, bk.out) \/ (Lost /\ bk.res = "error" /\ bk.out = PerStream(0))
  BY <1>1 DEF AnswerInv
<1>4. CASE ~Piped /\ u'.rc = Append(u.rc, Result(bk.res, bk.out))
  <2> DEFINE f == Result(bk.res, bk.out)
  <2>1. f \in EndFrames
    BY ResultType DEF ExecTypeOK, Backends
  <2>2. f.kind = "result" /\ f.body.code = bk.res /\ f.body.out = bk.out
    BY DEF Result, Frame
  <2>3. GoodFrame(f) \/ LostFrame(f)
    <3> HIDE DEF f
    <3> QED
      BY <1>1, <1>3, <1>4, <2>2 DEF GoodFrame, LostFrame
  <2>4. u'.rc = Append(u.rc, f)
    BY <1>4
  <2> HIDE DEF f
  <2> QED
    BY <1>1, <1>2, <2>1, <2>3, <2>4, AnswerParts, ClientAnswersPush
<1>5. CASE Piped /\ u'.rc = Append(u.rc, Frame("exit", IF bk.res = "error" THEN "one" ELSE bk.res))
  <2> DEFINE f == Frame("exit", IF bk.res = "error" THEN "one" ELSE bk.res)
  <2>1. f \in EndFrames
    BY ExitType DEF ExecTypeOK, Backends, Codes
  <2>2. f.kind = "exit" /\ f.body = IF bk.res = "error" THEN "one" ELSE bk.res
    BY DEF Frame
  <2>3. GoodFrame(f) \/ LostFrame(f)
    <3> HIDE DEF f
    <3>1. CASE bk.res = "error"
      <4>1. Lost
        BY <1>3, <1>5, <3>1 DEF Good, ReportedCode, Encoded, AgentInv
      <4> QED
        BY <1>5, <2>2, <3>1, <4>1 DEF LostFrame
    <3>2. CASE bk.res # "error"
      BY <1>3, <1>5, <2>2, <3>2 DEF GoodFrame, Good, Piped
    <3> QED
      BY <3>1, <3>2
  <2>4. u'.rc = Append(u.rc, f)
    BY <1>5
  <2> HIDE DEF f
  <2> QED
    BY <1>1, <1>2, <2>1, <2>3, <2>4, AnswerParts, ClientAnswersPush
<1> QED
  BY <1>4, <1>5 DEF Answers

(* Every step keeps the answers on their way good, or the call is lost.      *)
LEMMA AnswerStep ==
  ASSUME ExecInv, [ExecNext]_execVars, cli.pc # "done", cli'.pc # "done"
  PROVE  AnswerInv'
<1>0. UNCHANGED call /\ (Lost => Lost') /\ ExecTypeOK /\ AnswerInv
  BY LostKept DEF ExecInv
<1>1. CASE Still
  <2>1. GuestAnswers' /\ ClientAnswers'
    BY <1>0, <1>1, AnswerParts, GuestAnswersKept, ClientAnswersKept DEF Still
  <2>2. CASE UNCHANGED bk.res
    <3>1. relay'.pc = "exec" => \/ relay.pc = "exec" \/ bk.res = "none"
                                \/ Lost' /\ bk.res = "error" /\ bk.out = PerStream(0)
      BY <1>1, <2>2 DEF Still
    <3>2. Outcome'
      BY <1>0, <1>1, <2>2, <3>1, AnswerParts DEF Still, Outcome, Good, ReportedCode, Piped
    <3> QED
      BY <2>1, <3>2, AnswerParts
  <2>3. CASE bk'.res = "error" /\ (relay'.pc = "exec" => Lost' /\ bk.out = PerStream(0))
    BY <1>1, <2>1, <2>3, AnswerParts DEF Still, Outcome
  <2> QED
    BY <1>1, <2>2, <2>3 DEF Still
<1>2. ASSUME NEW f \in GuestFrames, Pushed(f), f.kind = "garbage" \/ GoodFrame(f)
      PROVE AnswerInv'
  BY <1>0, <1>2, AnswerParts, GuestAnswersPush, ClientAnswersKept, OutcomeKept DEF Pushed
<1>3. CASE TearsFrame
  BY <1>2, <1>3, FrameKinds DEF TearsFrame
<1>4. CASE SendsAnswer
  BY <1>2, <1>4, FrameKinds DEF SendsAnswer
<1>5. CASE SendsChunk
  <2>1. PICK t \in Streams : Pushed(Frame(t, Written(t) + 1))
    BY <1>5 DEF SendsChunk
  <2> DEFINE f == Frame(t, Written(t) + 1)
  <2>2. f \in OutFrames
    <3>1. Written(t) + 1 \in Nat
      BY <1>0, <2>1 DEF Written, ExecTypeOK, Processes, ExecInv, CopierInv
    <3> QED
      BY <3>1, ChunkType
  <2>3. f \in GuestFrames /\ GoodFrame(f)
    BY <2>2, FrameKinds, ChunksAreNoAnswers
  <2> QED
    BY <1>2, <2>1, <2>3
<1>6. CASE Produces
  BY <1>0, <1>6, AnswerParts, GuestAnswersKept, ClientAnswersKept, OutcomeKept DEF Produces
<1>7. CASE Dials
  BY <1>0, <1>7, AnswerParts, GuestAnswersKept, ClientAnswersKept, OutcomeKept DEF Dials
<1>8. CASE Refuses
  BY <1>0, <1>8, RefusedAnswers
<1>9. CASE \E f \in OutFrames : Takes(f)
  BY <1>0, <1>9, TakenAnswers
<1>10. CASE Concludes
  BY <1>0, <1>10, ConcludedAnswers
<1>11. CASE Receives
  BY <1>0, <1>11, ReceivedAnswers
<1>12. CASE Answers
  BY <1>0, <1>12, AnsweredAnswers
<1>13. Still \/ Moves
  BY StepMoves
<1>14. CASE \E f \in OutFrames : Lates(f)
  BY <1>0, <1>14, LateAnswers
<1> QED
  BY <1>1, <1>3, <1>4, <1>5, <1>6, <1>7, <1>8, <1>9, <1>10, <1>11, <1>12, <1>13, <1>14
     DEF Moves

-----------------------------------------------------------------------------
(* The chunks on their way, while the caller waits.                          *)

(* The parts of StreamInv: what the client will read, and what the backend   *)
(* will, b being the last chunk that has left it.                            *)
ToClient(s) ==
  /\ InOrder(u.rc, s, Delivered(s), proc.out[s])
  /\ Framed /\ ~Lost => EndsAfter(u.rc, s, Delivered(s), proc.out[s])
ToBackend(s, b) ==
  /\ v.h => InOrder(v.gh, s, b, proc.out[s])
  /\ Open(v) /\ NoGarbage => Newest(v.gh, Len(v.gh), s, b, Written(s))
  /\ v.h /\ Framed => EndsAfter(v.gh, s, b, proc.out[s])
Told(s, b) == Framed /\ ~Lost /\ relay.pc = "exec" /\ bk.res # "none" => b = proc.out[s]

(* StreamInv is its parts, before and after a step.                          *)
LEMMA StreamParts ==
  ASSUME NEW s
  PROVE  /\ StreamInv(s) <=>
              ToClient(s) /\ \E b \in 0..proc.out[s] :
                                /\ Newest(u.rc, Len(u.rc), s, Delivered(s), b)
                                /\ ToBackend(s, b) /\ Told(s, b)
         /\ StreamInv(s)' <=>
              ToClient(s)' /\ \E b \in 0..proc'.out[s] :
                                /\ Newest(u.rc, Len(u.rc), s, Delivered(s), b)'
                                /\ ToBackend(s, b)' /\ Told(s, b)'
BY DEF StreamInv, ToClient, ToBackend, Told

(* What ToClient speaks of.                                                  *)
LEMMA ToClientKept ==
  ASSUME NEW s \in Streams, ToClient(s), UNCHANGED <<u.rc, cli.out, proc.out>>,
         Framed' => Framed, Lost => Lost'
  PROVE  ToClient(s)'
BY DEF ToClient, Delivered

(* The guest sends a frame: the next chunk, or an answer after the last one. *)
LEMMA StreamPush ==
  ASSUME ExecTypeOK, NEW s \in Streams, StreamInv(s), Framed' => Framed, Lost => Lost',
         NEW f \in GuestFrames, Pushed(f),
         \/ f.kind = "garbage"
         \/ /\ f.kind = s => /\ f.body = Written(s) + 1 /\ f.body <= proc.out[s]
                             /\ Written(s)' = f.body
            /\ f.kind # s => Written(s)' = Written(s)
            /\ f.kind \in {"exit", "result"} /\ Framed => Written(s) = proc.out[s]
  PROVE  StreamInv(s)'
<1>1. PICK b \in 0..proc.out[s] : /\ Newest(u.rc, Len(u.rc), s, Delivered(s), b)
                                  /\ ToBackend(s, b) /\ Told(s, b)
  BY StreamParts
<1>2. /\ Open(v) /\ v'.gh = Append(v.gh, f) /\ v.h /\ v'.h
      /\ UNCHANGED <<u.rc, cli.out, proc.out, bk.res, relay.pc, Delivered(s)>>
  BY DEF Pushed, Open, Delivered
<1>3. ToClient(s)' /\ Told(s, b)'
  BY <1>1, <1>2, StreamParts, ToClientKept DEF Told
<1>4. v.gh \in Seq(GuestFrames) /\ s # "garbage" /\ Written(s) \in Int
  BY DEF ExecTypeOK, Vsocks, Processes, Streams, Written
<1>5. Clean(v.gh, Len(v.gh)) <=> NoGarbage
  BY DEF Clean, NoGarbage
<1>6. NoGarbage' <=> NoGarbage /\ f.kind # "garbage"
  BY <1>2, SentFacts DEF Sent
<1>7. Len(v'.gh) = Len(v.gh) + 1
  BY <1>2, <1>4, AppendFacts
<1>8. InOrder(v'.gh, s, b, proc.out[s])
  <2>1. Clean(v.gh, Len(v.gh)) /\ f.kind = s
           => f.body <= proc.out[s] /\ Newest(v.gh, Len(v.gh), s, b, f.body - 1)
    <3>1. ASSUME NoGarbage, f.kind = s
          PROVE  f.body <= proc.out[s] /\ Newest(v.gh, Len(v.gh), s, b, f.body - 1)
      <4>1. f.body = Written(s) + 1 /\ f.body <= proc.out[s]
        BY <1>4, <3>1
      <4>2. f.body - 1 = Written(s)
        BY <1>4, <4>1
      <4>3. Newest(v.gh, Len(v.gh), s, b, Written(s))
        BY <1>1, <1>2, <3>1 DEF ToBackend
      <4> QED
        BY <4>1, <4>2, <4>3
    <3> QED
      BY <1>5, <3>1
  <2>2. InOrder(v.gh, s, b, proc.out[s])
    BY <1>1, <1>2 DEF ToBackend
  <2>3. InOrder(Append(v.gh, f), s, b, proc.out[s])
    BY <1>4, <2>1, <2>2, InOrderAppend
  <2> QED
    BY <1>2, <2>3
<1>9. NoGarbage' => Newest(v'.gh, Len(v'.gh), s, b, Written(s)')
  BY <1>1, <1>2, <1>4, <1>6, <1>7, NewestAppend DEF ToBackend
<1>10. Framed' => EndsAfter(v'.gh, s, b, proc.out[s])
  <2>1. ASSUME Framed PROVE EndsAfter(v'.gh, s, b, proc.out[s])
    <3>1. Clean(v.gh, Len(v.gh)) /\ f.kind \in {"exit", "result"}
             => Newest(v.gh, Len(v.gh), s, b, proc.out[s])
      BY <1>1, <1>2, <1>5, <2>1 DEF ToBackend
    <3> QED
      BY <1>1, <1>2, <1>4, <2>1, <3>1, EndsAfterAppend DEF ToBackend
  <2> QED
    BY <2>1
<1>11. ToBackend(s, b)'
  BY <1>2, <1>8, <1>9, <1>10 DEF ToBackend
<1> QED
  BY <1>1, <1>2, <1>3, <1>11, StreamParts

(* While the command has not ended there is no answer on the way, and more   *)
(* output keeps what is there in order.                                      *)
LEMMA InOrderMore ==
  ASSUME NEW q \in Seq(GuestFrames), NEW s \in Streams, NEW n, NEW max \in Nat,
         NEW more \in Nat, max <= more, InOrder(q, s, n, max)
  PROVE  InOrder(q, s, n, more)
<1>1. ASSUME NEW i \in 1..Len(q), q[i].kind = s PROVE q[i].body \in Nat
  BY <1>1 DEF GuestFrames, OutFrames, EndFrames, Streams
<1> QED
  BY <1>1 DEF InOrder

(* A command that has not ended has no answer on the way.                    *)
LEMMA NoAnswerYet ==
  ASSUME ExecTypeOK, AnswerInv, proc.code = "none", NEW s, NEW n, NEW m
  PROVE  /\ EndsAfter(v.gh, s, n, m)
         /\ ~Lost => EndsAfter(u.rc, s, n, m)
         /\ relay.pc = "exec" /\ bk.res # "none" => Lost
BY DEF AnswerInv, GoodFrame, LostFrame, Good, EndsAfter

(* More output keeps the client's frames in order.                           *)
LEMMA ToClientMore ==
  ASSUME ExecTypeOK, AnswerInv, proc.code = "none", NEW s \in Streams, ToClient(s),
         UNCHANGED <<u.rc, cli.out>>, proc'.out[s] \in Nat, proc.out[s] <= proc'.out[s],
         Lost => Lost'
  PROVE  ToClient(s)'
<1>1. Delivered(s)' = Delivered(s)
  BY DEF Delivered
<1>2. u.rc \in Seq(GuestFrames) /\ proc.out[s] \in Nat
  <2>1. u.rc \in Seq(OutFrames \cup EndFrames)
    BY DEF ExecTypeOK, Sockets
  <2>2. OutFrames \cup EndFrames \subseteq GuestFrames
    BY DEF GuestFrames
  <2> QED
    BY <2>1, <2>2 DEF ExecTypeOK, Processes
<1>3. InOrder(u.rc, s, Delivered(s), proc'.out[s])
  BY <1>2, InOrderMore DEF ToClient
<1> QED
  BY <1>1, <1>3, NoAnswerYet DEF ToClient

(* The command writes or ends.                                               *)
LEMMA StreamProduces ==
  ASSUME ExecInv, AnswerInv, UNCHANGED call, NEW s \in Streams, StreamInv(s), Lost => Lost',
         Produces
  PROVE  StreamInv(s)'
<1> USE DEF ExecInv
<1>1. PICK b \in 0..proc.out[s] : /\ Newest(u.rc, Len(u.rc), s, Delivered(s), b)
                                  /\ ToBackend(s, b) /\ Told(s, b)
  BY StreamParts
<1>2. PICK d \in {0, 1} : /\ proc'.out[s] = proc.out[s] + d
                          /\ proc'.pipe[s] = proc.pipe[s] + d
  BY DEF Produces
<1>3. proc.code = "none" /\ UNCHANGED <<cli, u, relay, bk, v, guest, Delivered(s)>>
  BY DEF Produces, Delivered
<1>4. /\ v.gh \in Seq(GuestFrames) /\ proc.out[s] \in Nat /\ proc.pipe[s] \in Nat
      /\ proc'.out[s] \in Nat /\ proc.out[s] <= proc'.out[s]
  BY <1>2 DEF ExecTypeOK, Processes, Vsocks
<1>5. ToClient(s)'
  BY <1>3, <1>4, ToClientMore, StreamParts
<1>6. Written(s)' = Written(s) /\ (NoGarbage' <=> NoGarbage)
  BY <1>2, <1>3, <1>4 DEF Written, NoGarbage
<1>7. ToBackend(s, b)'
  <2>1. v.h => InOrder(v.gh, s, b, proc'.out[s])
    BY <1>1, <1>4, InOrderMore DEF ToBackend
  <2>2. EndsAfter(v.gh, s, b, proc'.out[s])
    BY <1>3, NoAnswerYet
  <2> QED
    BY <1>1, <1>3, <1>6, <2>1, <2>2 DEF ToBackend
<1>8. Told(s, b)'
  BY <1>3, NoAnswerYet DEF Told
<1> QED
  BY <1>1, <1>3, <1>4, <1>5, <1>7, <1>8, StreamParts

(* The command cannot be started; pipe mode sends a message before the       *)
(* status.                                                                   *)
LEMMA StreamRefused ==
  ASSUME ExecInv, AnswerInv, UNCHANGED call, NEW s \in Streams, StreamInv(s), Lost => Lost',
         Refuses
  PROVE  StreamInv(s)'
<1> USE DEF ExecInv
<1>1. PICK b \in 0..proc.out[s] : /\ Newest(u.rc, Len(u.rc), s, Delivered(s), b)
                                  /\ ToBackend(s, b) /\ Told(s, b)
  BY StreamParts
<1>2. PICK c \in {"zero", "error", "one"} : Refused(c)
  BY DEF Refuses
<1>3. /\ proc.code = "none" /\ proc.out = PerStream(0) /\ v.gh = <<>>
      /\ UNCHANGED <<cli, u, relay, bk, Delivered(s)>>
  BY StartFacts DEF Refuses, Idle, Delivered
<1>4. proc.out[s] = 0 /\ b = 0
  BY <1>1, <1>3 DEF PerStream
<1>5. proc'.out[s] = IF call.mode = "pipe" /\ s = "stderr" THEN 1 ELSE 0
  BY <1>2 DEF Refused, PerStream
<1>6. ToClient(s)'
  BY <1>3, <1>4, <1>5, ToClientMore, StreamParts
<1>7. Answer(c).kind \in {"exit", "result"}
  BY DEF Answer, Frame, Result
<1>8. InOrder(v'.gh, s, 0, proc'.out[s]) /\ EndsAfter(v'.gh, s, 0, proc'.out[s])
  <2>1. CASE v'.gh = <<>>
    BY <2>1 DEF InOrder, EndsAfter
  <2>2. CASE call.mode # "pipe" /\ v'.gh = <<Answer(c)>>
    <3>1. proc'.out[s] = 0 /\ Len(v'.gh) = 1 /\ v'.gh[1] = Answer(c)
      BY <1>5, <2>2
    <3>2. v'.gh[1].kind # s
      BY <1>7, <3>1 DEF Streams
    <3>3. Newest(v'.gh, 0, s, 0, 0)
      BY NewestFirst
    <3> QED
      BY <3>1, <3>2, <3>3 DEF InOrder, EndsAfter
  <2>3. CASE call.mode = "pipe" /\ v'.gh = <<Frame("stderr", 1), Answer(c)>>
    <3>1. /\ Len(v'.gh) = 2 /\ v'.gh[2] = Answer(c)
          /\ v'.gh[1].kind = "stderr" /\ v'.gh[1].body = 1
      BY <2>3 DEF Frame
    <3>2. v'.gh[2].kind # s /\ v'.gh[1].kind \notin {"exit", "result"}
      BY <1>7, <3>1 DEF Streams
    <3>3. CASE s = "stderr"
      <4>1. proc'.out[s] = 1
        BY <1>5, <2>3, <3>3
      <4>2. Newest(v'.gh, 0, s, 0, 0)
        BY NewestFirst
      <4>3. Newest(v'.gh, 1, s, 0, 1)
        BY <3>1, <3>3 DEF Newest
      <4>4. InOrder(v'.gh, s, 0, 1)
        BY <3>1, <3>2, <4>2 DEF InOrder
      <4>5. EndsAfter(v'.gh, s, 0, 1)
        BY <3>1, <3>2, <4>3 DEF EndsAfter
      <4> QED
        BY <4>1, <4>4, <4>5
    <3>4. CASE s = "stdout"
      <4>1. proc'.out[s] = 0
        BY <1>5, <3>4
      <4>2. v'.gh[1].kind # s
        BY <3>1, <3>4
      <4>3. Newest(v'.gh, 1, s, 0, 0)
        BY <4>2 DEF Newest
      <4>4. InOrder(v'.gh, s, 0, 0)
        BY <3>1, <3>2, <4>2 DEF InOrder
      <4>5. EndsAfter(v'.gh, s, 0, 0)
        BY <3>1, <3>2, <4>3 DEF EndsAfter
      <4> QED
        BY <4>1, <4>4, <4>5
    <3> QED
      BY <3>3, <3>4 DEF Streams
  <2> QED
    BY <1>2, <2>1, <2>2, <2>3 DEF Refused
<1>9. ToBackend(s, 0)'
  BY <1>2, <1>8 DEF ToBackend, Refused, Open
<1>10. Told(s, 0)'
  BY <1>3, NoAnswerYet DEF Told
<1> QED
  BY <1>1, <1>3, <1>4, <1>5, <1>6, <1>9, <1>10, StreamParts

(* A new connection is empty.                                                *)
LEMMA StreamDials ==
  ASSUME ExecInv, NEW s \in Streams, StreamInv(s), Framed' => Framed, Lost => Lost', Dials
  PROVE  StreamInv(s)'
<1>1. PICK b \in 0..proc.out[s] : /\ Newest(u.rc, Len(u.rc), s, Delivered(s), b)
                                  /\ ToBackend(s, b) /\ Told(s, b)
  BY StreamParts
<1>2. /\ v.gh = <<>> /\ v'.gh = <<>> /\ Written(s)' = 0 /\ proc.out = PerStream(0)
      /\ UNCHANGED <<u.rc, cli.out, Delivered(s), proc.out, bk.res, relay.pc>>
  BY DEF Dials, Delivered
<1>3. b = 0 /\ proc'.out[s] = 0
  BY <1>1, <1>2 DEF PerStream
<1>4. InOrder(v'.gh, s, 0, 0) /\ EndsAfter(v'.gh, s, 0, 0) /\ Newest(v'.gh, Len(v'.gh), s, 0, 0)
  BY <1>2 DEF InOrder, EndsAfter, Newest
<1>5. ToBackend(s, b)' /\ Told(s, b)' /\ ToClient(s)'
  BY <1>1, <1>2, <1>3, <1>4, StreamParts, ToClientKept DEF ToBackend, Told
<1> QED
  BY <1>1, <1>2, <1>5, StreamParts

(* The backend takes the next chunk and hands it on.                         *)
LEMMA StreamTakes ==
  ASSUME ExecInv, NEW s \in Streams, StreamInv(s), OutInv(s), Framed' => Framed, Lost => Lost',
         UNCHANGED call, cli.pc # "done", NEW f \in OutFrames, Takes(f)
  PROVE  StreamInv(s)'
<1>1. PICK b \in 0..proc.out[s] : /\ Newest(u.rc, Len(u.rc), s, Delivered(s), b)
                                  /\ ToBackend(s, b) /\ Told(s, b)
  BY StreamParts
<1> DEFINE c == IF f.kind = s THEN f.body ELSE b
<1>2. /\ v.h /\ v.gh # <<>> /\ v.gh[1] = f /\ v'.gh = Tail(v.gh) /\ bk.res = "none"
      /\ UNCHANGED <<v.h, v.g, v.torn, bk, relay, proc, guest>>
  BY DEF Takes
<1>3. /\ v.gh \in Seq(GuestFrames) /\ f.kind # "garbage" /\ proc.out[s] \in Nat /\ b \in Nat
      /\ f \in OutFrames \cup EndFrames /\ s # "garbage" /\ f.kind \notin {"exit", "result"}
      /\ u.rc \in Seq(OutFrames \cup EndFrames)
  BY <1>1 DEF ExecInv, ExecTypeOK, Vsocks, Sockets, Processes, OutFrames, Streams
<1>4. InOrder(v.gh, s, b, proc.out[s])
  BY <1>1, <1>2 DEF ToBackend
<1>5. f.kind = s => f.body = b + 1 /\ f.body <= proc.out[s]
  BY <1>3, <1>4, TakenIsNext
<1>6. c \in 0..proc'.out[s]
  BY <1>1, <1>2, <1>3, <1>5
<1>7. InOrder(v'.gh, s, c, proc'.out[s])
  BY <1>2, <1>3, <1>4, InOrderTail
<1>8. Open(v)' /\ NoGarbage' => Newest(v'.gh, Len(v'.gh), s, c, Written(s)')
  <2>1. NoGarbage' <=> NoGarbage
    BY <1>2, <1>3, TakenFacts DEF ExecInv, OutFrames
  <2>2. Open(v)' = Open(v) /\ Written(s)' = Written(s)
    BY <1>2 DEF Open, Written
  <2>3. Len(v.gh) \in 1..Len(v.gh) /\ Len(v'.gh) = Len(v.gh) - 1
    BY <1>2, <1>3, TailFacts
  <2>4. ASSUME Open(v), NoGarbage PROVE Newest(v'.gh, Len(v'.gh), s, c, Written(s))
    <3>1. Newest(v.gh, Len(v.gh), s, b, Written(s))
      BY <1>1, <2>4 DEF ToBackend
    <3> QED
      BY <1>2, <1>3, <2>3, <3>1, NewestTail
  <2> HIDE DEF c
  <2> QED
    BY <2>1, <2>2, <2>4
<1>9. Framed' => EndsAfter(v'.gh, s, c, proc'.out[s])
  <2>1. ASSUME Framed PROVE EndsAfter(v'.gh, s, c, proc'.out[s])
    <3>1. EndsAfter(v.gh, s, b, proc.out[s])
      BY <1>1, <1>2, <2>1 DEF ToBackend
    <3> QED
      BY <1>2, <1>3, <3>1, EndsAfterTail
  <2> QED
    BY <2>1
<1>10. Told(s, b)' /\ ~(bk'.res # "none")
  BY <1>2 DEF Told
<1>11. CASE u'.rc = Append(u.rc, f) /\ UNCHANGED cli.out
  <2>1. Delivered(s)' = Delivered(s) /\ Len(u'.rc) = Len(u.rc) + 1
    BY <1>3, <1>11, AppendFacts DEF Delivered
  <2>2. InOrder(u'.rc, s, Delivered(s), proc.out[s])
    <3>1. f.kind = s => f.body <= proc.out[s] /\ Newest(u.rc, Len(u.rc), s, Delivered(s), f.body - 1)
      BY <1>1, <1>3, <1>5
    <3>2. InOrder(u.rc, s, Delivered(s), proc.out[s])
      BY StreamParts DEF ToClient
    <3> QED
      BY <1>3, <1>11, <3>1, <3>2, InOrderAppend
  <2>3. Framed' /\ ~Lost' => EndsAfter(u'.rc, s, Delivered(s), proc.out[s])
    <3>1. ASSUME Framed, ~Lost PROVE EndsAfter(u'.rc, s, Delivered(s), proc.out[s])
      <4>1. EndsAfter(u.rc, s, Delivered(s), proc.out[s])
        BY <3>1, StreamParts DEF ToClient
      <4> QED
        BY <1>3, <1>11, <4>1, EndsAfterAppend
    <3> QED
      BY <3>1
  <2>4. Newest(u'.rc, Len(u'.rc), s, Delivered(s), c)
    BY <1>1, <1>3, <1>11, <2>1, NewestAppend
  <2> HIDE DEF c
  <2>5. ToClient(s)' /\ ToBackend(s, c)' /\ Told(s, c)'
    BY <1>2, <1>7, <1>8, <1>9, <1>10, <2>1, <2>2, <2>3 DEF ToClient, ToBackend, Told
  <2> QED
    BY <1>6, <2>1, <2>4, <2>5, StreamParts
<1>12. CASE /\ u.rc = <<>> /\ u'.rc = <<>>
            /\ cli'.out = [cli.out EXCEPT ![f.kind] = Append(@, f.body)]
  <2>1. b = Delivered(s)
    BY <1>1, <1>12, NewestFirst
  <2>2. Delivered(s)' = c
    <3>1. CASE f.kind = s
      <4>1. cli'.out[s] = Append(cli.out[s], f.body)
        BY <1>12, <3>1 DEF ExecInv, ExecTypeOK, Callers
      <4>2. Ran /\ call.mode # "batch"
        BY <1>2, NotBatchTaken DEF Ran
      <4> QED
        BY <1>5, <2>1, <3>1, <4>1, <4>2, OutGrows
    <3>2. CASE f.kind # s
      BY <1>12, <2>1, <3>2 DEF Delivered, ExecInv, ExecTypeOK, Callers
    <3> QED
      BY <3>1, <3>2
  <2>3. Newest(u'.rc, Len(u'.rc), s, c, c)
    BY <1>12, NewestFirst
  <2> HIDE DEF c
  <2>4. ToClient(s)' /\ ToBackend(s, c)' /\ Told(s, c)'
    <3>1. ToClient(s)'
      BY <1>12 DEF ToClient, InOrder, EndsAfter
    <3> QED
      BY <1>2, <1>7, <1>8, <1>9, <1>10, <3>1 DEF ToBackend, Told
  <2> QED
    BY <1>6, <2>2, <2>3, <2>4, StreamParts
<1> QED
  BY <1>11, <1>12 DEF Takes

(* The last chunk after the connection was closed: what the guest still had  *)
(* for the backend is gone.                                                  *)
LEMMA StreamLates ==
  ASSUME ExecInv, NEW s \in Streams, StreamInv(s), Framed' => Framed, Lost => Lost',
         UNCHANGED call, cli.pc # "done", NEW f \in OutFrames, Lates(f)
  PROVE  StreamInv(s)'
<1>1. PICK b \in 0..proc.out[s] : /\ Newest(u.rc, Len(u.rc), s, Delivered(s), b)
                                  /\ Told(s, b)
  BY StreamParts
<1>2. /\ ~v'.h /\ UNCHANGED <<bk, relay, proc>> /\ (relay.pc = "exec" => Lost)
      /\ Ran
  BY DEF Lates, Ran
<1>3. /\ f \in OutFrames \cup EndFrames /\ s # "garbage" /\ f.kind \notin {"exit", "result"}
      /\ u.rc \in Seq(OutFrames \cup EndFrames) /\ proc.out[s] \in Nat
  BY DEF ExecInv, ExecTypeOK, Sockets, Processes, OutFrames, Streams
<1>4. \A c : ToBackend(s, c)' /\ Told(s, c)'
  BY <1>2 DEF ToBackend, Told, Open
<1>5. CASE UNCHANGED <<u.rc, cli.out>>
  <2>1. ToClient(s)' /\ Delivered(s)' = Delivered(s)
    BY <1>2, <1>5, StreamParts, ToClientKept DEF Delivered
  <2> QED
    BY <1>1, <1>2, <1>4, <1>5, <2>1, StreamParts
<1>6. CASE u'.rc = Append(u.rc, f) /\ UNCHANGED cli.out
  <2> DEFINE c == IF f.kind = s THEN f.body ELSE b
  <2>1. Delivered(s)' = Delivered(s) /\ Len(u'.rc) = Len(u.rc) + 1
    BY <1>3, <1>6, AppendFacts DEF Delivered
  <2>2. f.kind = s => /\ f.body \in 1..proc.out[s]
                      /\ Newest(u.rc, Len(u.rc), s, Delivered(s), f.body - 1)
    BY <1>2, LateIsNext
  <2>3. InOrder(u'.rc, s, Delivered(s), proc.out[s])
    <3>1. InOrder(u.rc, s, Delivered(s), proc.out[s])
      BY StreamParts DEF ToClient
    <3>2. f.kind = s => f.body <= proc.out[s]
      BY <1>3, <2>2
    <3> QED
      BY <1>3, <1>6, <2>2, <3>1, <3>2, InOrderAppend
  <2>4. Framed' /\ ~Lost' => EndsAfter(u'.rc, s, Delivered(s), proc.out[s])
    <3>1. ASSUME Framed, ~Lost PROVE EndsAfter(u'.rc, s, Delivered(s), proc.out[s])
      <4>1. EndsAfter(u.rc, s, Delivered(s), proc.out[s])
        BY <3>1, StreamParts DEF ToClient
      <4> QED
        BY <1>3, <1>6, <4>1, EndsAfterAppend
    <3> QED
      BY <3>1
  <2>5. Newest(u'.rc, Len(u'.rc), s, Delivered(s), c) /\ c \in 0..proc'.out[s]
    <3>1. c \in 0..proc'.out[s]
      BY <1>1, <1>2, <1>3, <2>2
    <3>2. Newest(Append(u.rc, f), Len(u.rc) + 1, s, Delivered(s), c)
      BY <1>1, <1>3, NewestAppend
    <3> QED
      BY <1>6, <2>1, <3>1, <3>2
  <2> HIDE DEF c
  <2>6. ToClient(s)'
    BY <1>2, <2>1, <2>3, <2>4 DEF ToClient
  <2> QED
    BY <1>4, <2>1, <2>5, <2>6, StreamParts
<1>7. CASE /\ u.rc = <<>> /\ u'.rc = <<>>
           /\ cli'.out = [cli.out EXCEPT ![f.kind] = Append(@, f.body)]
  <2>1. ToClient(s)'
    BY <1>7 DEF ToClient, InOrder, EndsAfter
  <2>2. Delivered(s)' \in 0..proc'.out[s]
    <3>1. CASE UNCHANGED cli.out[s]
      BY <1>2, <1>3, <3>1 DEF Delivered, ExecInv, OutInv, ExecTypeOK, Callers
    <3>2. CASE cli'.out[s] # cli.out[s]
      <4>1. Delivered(s)' = f.body /\ f.body \in 1..proc.out[s]
        BY <1>2, <3>2, LateIsNext
      <4> QED
        BY <1>2, <1>3, <4>1
    <3> QED
      BY <3>1, <3>2
  <2>3. Newest(u'.rc, Len(u'.rc), s, Delivered(s)', Delivered(s)')
    BY <1>7, NewestFirst
  <2> QED
    BY <1>4, <2>1, <2>2, <2>3, StreamParts
<1> QED
  BY <1>5, <1>6, <1>7 DEF Lates

(* The backend reads the answer: every chunk has left the backend.           *)
LEMMA StreamConcludes ==
  ASSUME ExecInv, NEW s \in Streams, StreamInv(s), Framed' => Framed, Lost => Lost', Concludes
  PROVE  StreamInv(s)'
<1>1. PICK b \in 0..proc.out[s] : /\ Newest(u.rc, Len(u.rc), s, Delivered(s), b)
                                  /\ ToBackend(s, b) /\ Told(s, b)
  BY StreamParts
<1>2. /\ v.h /\ v.gh # <<>> /\ v.gh[1].kind \in {"exit", "result"}
      /\ UNCHANGED <<cli, u, relay, v, guest, proc>>
  BY DEF Concludes
<1>3. 1 \in 1..Len(v.gh) /\ Clean(v.gh, 1)
  BY <1>2, TailFacts DEF Clean, ExecInv, ExecTypeOK, Vsocks
<1>4. Framed => b = proc.out[s]
  <2>1. ASSUME Framed PROVE b = proc.out[s]
    <3>1. EndsAfter(v.gh, s, b, proc.out[s])
      BY <1>1, <1>2, <2>1 DEF ToBackend
    <3>2. Newest(v.gh, 0, s, b, proc.out[s])
      BY <1>2, <1>3, <3>1 DEF EndsAfter
    <3> QED
      BY <3>2, NewestFirst
  <2> QED
    BY <2>1
<1>5. Delivered(s)' = Delivered(s) /\ Written(s)' = Written(s) /\ (NoGarbage' <=> NoGarbage)
  BY <1>2 DEF Delivered, Written, NoGarbage
<1>6. ToClient(s)' /\ Told(s, b)' /\ ToBackend(s, b)'
  BY <1>1, <1>2, <1>4, <1>5, StreamParts, ToClientKept DEF ToBackend, Told
<1> QED
  BY <1>1, <1>2, <1>5, <1>6, StreamParts

(* The client takes the next chunk.                                          *)
LEMMA StreamReceives ==
  ASSUME ExecInv, NEW s \in Streams, StreamInv(s), Framed' => Framed, Lost => Lost',
         UNCHANGED call, cli.pc # "done", Receives
  PROVE  StreamInv(s)'
<1>1. PICK b \in 0..proc.out[s] : /\ Newest(u.rc, Len(u.rc), s, Delivered(s), b)
                                  /\ ToBackend(s, b) /\ Told(s, b)
  BY StreamParts
<1> DEFINE d == IF u.rc[1].kind = s THEN u.rc[1].body ELSE Delivered(s)
<1>2. /\ u.rc # <<>> /\ u'.rc = Tail(u.rc) /\ call.mode # "batch"
      /\ UNCHANGED <<relay, bk, v, guest, proc>>
      /\ cli'.out = [cli.out EXCEPT ![u.rc[1].kind] = Append(@, u.rc[1].body)]
  BY DEF Receives
<1>3. u.rc \in Seq(OutFrames \cup EndFrames) /\ u.rc[1].kind # "garbage"
  BY DEF ExecInv, ExecTypeOK, Sockets, Receives, OutFrames, Streams
<1>4. Delivered(s)' = d
  <2>1. CASE u.rc[1].kind = s
    <3>1. cli'.out[s] = Append(cli.out[s], u.rc[1].body) /\ Ran
      BY <1>2, <2>1 DEF ExecInv, ExecTypeOK, Callers, Ran
    <3> QED
      BY <1>2, <2>1, <3>1, ReceivedIsNext, OutGrows
  <2>2. CASE u.rc[1].kind # s
    BY <1>2, <2>2 DEF Delivered, ExecInv, ExecTypeOK, Callers
  <2> QED
    BY <2>1, <2>2
<1>5. InOrder(u'.rc, s, d, proc.out[s])
  BY <1>2, <1>3, StreamParts, InOrderTail DEF ToClient
<1>6. Framed' /\ ~Lost' => EndsAfter(u'.rc, s, d, proc.out[s])
  <2>1. ASSUME Framed, ~Lost PROVE EndsAfter(u'.rc, s, d, proc.out[s])
    <3>1. EndsAfter(u.rc, s, Delivered(s), proc.out[s])
      BY <2>1, StreamParts DEF ToClient
    <3> QED
      BY <1>2, <1>3, <3>1, EndsAfterTail
  <2> QED
    BY <2>1
<1>7. Newest(u'.rc, Len(u'.rc), s, d, b)
  <2>1. Len(u.rc) \in 1..Len(u.rc) /\ Len(u'.rc) = Len(u.rc) - 1
    BY <1>2, <1>3, TailFacts
  <2> QED
    BY <1>1, <1>2, <1>3, <2>1, NewestTail
<1> HIDE DEF d
<1>8. Written(s)' = Written(s) /\ (NoGarbage' <=> NoGarbage)
  BY <1>2 DEF Written, NoGarbage
<1>9. ToClient(s)' /\ ToBackend(s, b)' /\ Told(s, b)'
  BY <1>1, <1>2, <1>4, <1>5, <1>6, <1>8 DEF ToClient, ToBackend, Told
<1> QED
  BY <1>1, <1>2, <1>4, <1>7, <1>9, StreamParts

(* The relay answers behind every chunk.                                     *)
LEMMA StreamAnswers ==
  ASSUME ExecInv, NEW s \in Streams, StreamInv(s), Framed' => Framed, Lost => Lost', Answers
  PROVE  StreamInv(s)'
<1>1. PICK b \in 0..proc.out[s] : /\ Newest(u.rc, Len(u.rc), s, Delivered(s), b)
                                  /\ ToBackend(s, b) /\ Told(s, b)
  BY StreamParts
<1>2. /\ bk.res # "none" /\ relay.pc = "exec" /\ relay'.pc = "done"
      /\ UNCHANGED <<cli, bk, v, guest, proc>>
  BY DEF Answers
<1>3. PICK f \in EndFrames : u'.rc = Append(u.rc, f)
  BY ResultType, ExitType DEF Answers, ExecInv, ExecTypeOK, Backends, Codes
<1>4. /\ f \in OutFrames \cup EndFrames /\ f.kind # s /\ s # "garbage"
      /\ u.rc \in Seq(OutFrames \cup EndFrames)
  BY FrameKinds DEF ExecInv, ExecTypeOK, Sockets, Streams
<1>5. /\ Delivered(s)' = Delivered(s) /\ Written(s)' = Written(s) /\ (NoGarbage' <=> NoGarbage)
      /\ Len(u'.rc) = Len(u.rc) + 1
  BY <1>2, <1>3, <1>4, AppendFacts DEF Delivered, Written, NoGarbage
<1>6. InOrder(u'.rc, s, Delivered(s), proc.out[s])
  BY <1>3, <1>4, StreamParts, InOrderAppend DEF ToClient
<1>7. Framed' /\ ~Lost' => EndsAfter(u'.rc, s, Delivered(s), proc.out[s])
  <2>1. ASSUME Framed, ~Lost PROVE EndsAfter(u'.rc, s, Delivered(s), proc.out[s])
    <3>1. Newest(u.rc, Len(u.rc), s, Delivered(s), proc.out[s])
      BY <1>1, <1>2, <2>1 DEF Told
    <3>2. EndsAfter(u.rc, s, Delivered(s), proc.out[s])
      BY <2>1, StreamParts DEF ToClient
    <3> QED
      BY <1>3, <1>4, <3>1, <3>2, EndsAfterAppend
  <2> QED
    BY <2>1
<1>8. Newest(u'.rc, Len(u'.rc), s, Delivered(s), b)
  BY <1>1, <1>3, <1>4, <1>5, NewestAppend
<1>9. ToClient(s)' /\ ToBackend(s, b)' /\ Told(s, b)'
  BY <1>1, <1>2, <1>5, <1>6, <1>7 DEF ToClient, ToBackend, Told
<1> QED
  BY <1>1, <1>2, <1>5, <1>8, <1>9, StreamParts

(* Every step keeps every stream in order.                                   *)
LEMMA StreamStep ==
  ASSUME ExecInv, [ExecNext]_execVars, cli.pc # "done", cli'.pc # "done",
         NEW s \in Streams
  PROVE  StreamInv(s)'
<1>0. /\ UNCHANGED call /\ (Lost => Lost') /\ (Framed' => Framed)
      /\ ExecTypeOK /\ AnswerInv /\ StreamInv(s) /\ OutInv(s)
  BY LostKept DEF ExecInv, Framed
<1>1. CASE Still
  BY <1>0, <1>1, StreamKept DEF Still
<1>2. CASE TearsFrame
  BY <1>0, <1>2, FrameKinds, StreamPush DEF TearsFrame
<1>3. CASE SendsAnswer
  <2>1. PICK f \in EndFrames : /\ Pushed(f)
                               /\ Written(s)' = Written(s)
                               /\ Framed => Written(s) = proc.out[s]
    BY <1>3 DEF SendsAnswer
  <2>2. f \in GuestFrames /\ f.kind # s
    BY FrameKinds DEF Streams
  <2> QED
    BY <1>0, <2>1, <2>2, StreamPush
<1>4. CASE SendsChunk
  <2>1. PICK t \in Streams :
              /\ Pushed(Frame(t, Written(t) + 1)) /\ Written(t) + 1 <= proc.out[t]
              /\ Written(s)' = IF s = t THEN Written(s) + 1 ELSE Written(s)
    BY <1>4 DEF SendsChunk
  <2> DEFINE f == Frame(t, Written(t) + 1)
  <2>2. f \in OutFrames
    <3>1. Written(t) + 1 \in Nat
      BY <1>0, <2>1 DEF Written, ExecTypeOK, Processes, ExecInv, CopierInv
    <3> QED
      BY <3>1, ChunkType
  <2>3. f \in GuestFrames /\ f.kind = t /\ f.body = Written(t) + 1
    BY <2>2, FrameKinds DEF Frame
  <2>4. Pushed(f)
    BY <2>1
  <2>5. f.kind \notin {"exit", "result"}
    BY <2>3 DEF Streams
  <2> HIDE DEF f
  <2> QED
    BY <1>0, <2>1, <2>3, <2>4, <2>5, StreamPush
<1>5. CASE Produces
  BY <1>0, <1>5, StreamProduces
<1>6. CASE Refuses
  BY <1>0, <1>6, StreamRefused
<1>7. CASE Dials
  BY <1>0, <1>7, StreamDials
<1>8. CASE \E f \in OutFrames : Takes(f)
  BY <1>0, <1>8, StreamTakes
<1>9. CASE Concludes
  BY <1>0, <1>9, StreamConcludes
<1>10. CASE Receives
  BY <1>0, <1>10, StreamReceives
<1>11. CASE Answers
  BY <1>0, <1>11, StreamAnswers
<1>12. Still \/ Moves
  BY StepMoves
<1>13. CASE \E f \in OutFrames : Lates(f)
  BY <1>0, <1>13, StreamLates
<1> QED
  BY <1>1, <1>2, <1>3, <1>4, <1>5, <1>6, <1>7, <1>8, <1>9, <1>10, <1>11, <1>12, <1>13
     DEF Moves

-----------------------------------------------------------------------------
(* The chunk that may still be written.                                      *)

(* A reader whose connection is closed was there before, and what waits for  *)
(* it does not change, except that it goes.                                  *)
LEMMA LateLink ==
  ASSUME ExecInv, [ExecNext]_execVars
  PROVE  /\ bk'.rd = "reading" /\ ~v'.h => bk.rd = "reading"
         /\ ~v.h => v'.gh \in {v.gh, <<>>}
<1> USE DEF ExecInv
<1>0. bk \in Backends /\ v \in Vsocks
  BY DEF ExecTypeOK
<1>1. CASE QuietStep
  BY <1>1, QuietSteps DEF Quiet
<1>2. CASE AgentMain \/ \E s \in Streams : AgentCopier(s)
  BY <1>2, AgentLink DEF Idle
<1>3. CASE DialStep
  BY <1>3, DialEffect
<1>4. CASE \/ RunLauncher \/ CommandRuns \/ CommandSignalled \/ UNCHANGED execVars
  BY <1>4 DEF RunLauncher, CommandRuns, CommandSignalled, Idle, execVars
<1>5. CASE VMDies
  BY <1>0, <1>5 DEF Vsocks, VMDies
<1>6. CASE RequestFails
  BY <1>0, <1>6 DEF Backends, Vsocks, RequestFails
<1>7. CASE TakeOutcome
  BY <1>0, <1>7 DEF Backends, Vsocks, TakeOutcome
<1>8. CASE TakeCancel
  BY <1>0, <1>8 DEF Backends, Vsocks, TakeCancel, HostWrites
<1>9. CASE CancelCloses
  BY <1>0, <1>9 DEF Vsocks, CancelCloses
<1>10. CASE ReadOutput
  BY <1>10 DEF ReadOutput
<1>11. CASE WriteLate
  BY <1>11, LateEffect DEF Lates
<1>12. CASE ReadResult
  BY <1>0, <1>12 DEF Backends, ReadResult
<1>13. CASE ReadExit
  BY <1>0, <1>13 DEF Backends, ReadExit
<1>14. CASE ReadGarbage
  BY <1>0, <1>14 DEF Backends, ReadGarbage
<1>15. CASE \/ ExecViaRelay \/ ExecPipeViaRelay \/ ExecInteractiveViaRelay
            \/ ReceiveReply \/ ReceiveFrame \/ ReceiveResult \/ Disconnect \/ CancelCall
            \/ HandleExec \/ HandleExecPipe \/ HandleExecInteractive \/ ReplyResult
            \/ ReplyExit \/ WatchHangup
  BY <1>15 DEF ExecViaRelay, ExecPipeViaRelay, ExecInteractiveViaRelay, Connected,
     ReceiveReply, ReceiveFrame, ReceiveResult, Disconnect, CancelCall, HandleExec,
     HandleExecPipe, HandleExecInteractive, Handles, ReplyResult, ReplyExit, Replies,
     WatchHangup, Rest
<1>16. CASE HostDies
  BY <1>0, <1>16 DEF Backends, Vsocks, HostDies
<1> QED
  BY <1>1, <1>2, <1>3, <1>4, <1>5, <1>6, <1>7, <1>8, <1>9, <1>10, <1>11, <1>12, <1>13,
     <1>14, <1>15, <1>16 DEF ExecNext, Environment, BackendMain, BackendReader, CallerSteps,
     RelayMain, RelayWatcher, QuietStep, DialStep

(* A direct caller returns from the backend, or dies.                        *)
LEMMA DirectEnds ==
  ASSUME ExecInv, [ExecNext]_execVars, call.via = "direct",
         cli.pc # "done", cli'.pc = "done"
  PROVE  ReceiveResult \/ bk'.rd # "reading"
<1> USE DEF ExecInv
<1>1. CASE QuietStep
  BY <1>1, QuietSteps DEF Quiet
<1>2. CASE AgentMain \/ \E s \in Streams : AgentCopier(s)
  BY <1>2, AgentKeeps DEF Idle
<1>3. CASE DialStep
  BY <1>3, DialEffect
<1>4. CASE \/ RunLauncher \/ CommandRuns \/ CommandSignalled \/ VMDies
           \/ RequestFails \/ TakeOutcome \/ TakeCancel \/ CancelCloses
           \/ ReadResult \/ ReadExit \/ ReadGarbage \/ HandleExec \/ HandleExecPipe
           \/ HandleExecInteractive \/ ReplyResult \/ ReplyExit \/ WatchHangup
           \/ UNCHANGED execVars
  BY <1>4 DEF CancelCloses, CommandRuns, CommandSignalled, HandleExec,
     HandleExecInteractive, HandleExecPipe, Handles, Idle, ReadExit, ReadGarbage,
     ReadResult, Replies, ReplyExit, ReplyResult, RequestFails, Requested, Rest,
     RunLauncher, TakeCancel, TakeOutcome, VMDies, WatchHangup, execVars
<1>5. CASE \/ ExecViaRelay \/ ExecPipeViaRelay \/ ExecInteractiveViaRelay
           \/ ReceiveReply \/ ReceiveFrame \/ Disconnect
  BY <1>5 DEF ExecViaRelay, ExecPipeViaRelay, ExecInteractiveViaRelay, Connected,
     ReceiveReply, ReceiveFrame, Disconnect, CallerInv
<1>6. CASE HostDies
  BY <1>6 DEF ExecTypeOK, Backends, HostDies
<1>7. CASE CancelCall
  BY <1>7 DEF ExecTypeOK, Callers, CancelCall
<1>8. CASE ReadOutput
  BY <1>8, FirstFrameType DEF ExecTypeOK, Callers, ReadOutput, Forward
<1>9. CASE WriteLate
  BY <1>9, LateEffect DEF Lates
<1> QED
  BY <1>1, <1>2, <1>3, <1>4, <1>5, <1>6, <1>7, <1>8, <1>9 DEF ExecNext, Environment,
     BackendMain, BackendReader, CallerSteps, RelayMain, RelayWatcher, QuietStep, DialStep

(* Every step keeps the late chunk the next one.                             *)
LEMMA LateStep ==
  ASSUME ExecInv, [ExecNext]_execVars, CallerInv', NEW s \in Streams
  PROVE  LateInv(s)'
<1> SUFFICES ASSUME cli'.pc # "done" \/ call'.via = "direct", bk'.rd = "reading", ~v'.h,
                    v'.gh # <<>>, v'.gh[1].kind = s
             PROVE  /\ v'.gh[1].body <= proc'.out[s]
                    /\ Newest(u'.rc, Len(u'.rc), s, Delivered(s)', v'.gh[1].body - 1)
  BY DEF LateInv
<1>0. /\ UNCHANGED call /\ Ran /\ bk.rd = "reading"
      /\ ~v.h => UNCHANGED v.gh
      /\ cli.pc = "done" => cli'.pc = "done" /\ (UNCHANGED cli.out \/ WriteLate)
  BY LostKept, CommandStep, LateLink, AnswerKept
<1>1. ~WriteLate
  BY LateEffect DEF Lates
<1>2. proc.out[s] \in Nat /\ proc'.out[s] \in Nat /\ proc.out[s] <= proc'.out[s]
  BY <1>0 DEF Ran, ExecInv, ExecTypeOK, Processes
<1>3. /\ v.gh \in Seq(GuestFrames) /\ u.rc \in Seq(OutFrames \cup EndFrames)
      /\ Delivered(s) \in Nat
  BY DEF ExecInv, ExecTypeOK, Vsocks, Sockets, Delivered, Callers
<1>4. ASSUME UNCHANGED v.gh PROVE v.gh # <<>> /\ v.gh[1].kind = s /\ v.gh[1].body \in Nat
                                  /\ v'.gh[1] = v.gh[1]
  BY <1>4, FirstFrameType DEF OutFrames, ExecInv
<1>5. ASSUME ~v.h, cli.pc # "done" \/ call.via = "direct"
      PROVE  /\ v'.gh[1].body <= proc'.out[s]
             /\ Newest(u.rc, Len(u.rc), s, Delivered(s), v'.gh[1].body - 1)
  BY <1>0, <1>2, <1>4, <1>5 DEF ExecInv, LateInv
<1>6. CASE cli.pc = "done"
  <2>1. call.via = "direct" /\ UNCHANGED cli.out /\ u.rc = <<>> /\ u'.rc = <<>>
    BY <1>0, <1>1, <1>6 DEF ExecInv, CallerInv
  <2>2. ~v.h
    BY <1>6, <2>1 DEF ExecInv, BackendInv, CallerInv
  <2> QED
    BY <1>5, <2>1, <2>2 DEF Delivered
<1>7. CASE cli.pc # "done" /\ cli'.pc = "done"
  <2>1. ReceiveResult
    BY <1>0, <1>7, DirectEnds
  <2>2. UNCHANGED <<v, u>> /\ (call.mode = "batch" \/ UNCHANGED cli.out)
    BY <2>1 DEF ReceiveResult, Rest, ExecInv, ExecTypeOK, Callers
  <2>3. call.mode # "batch"
    <3>1. ~OnlyEnds(v.gh)
      BY <1>3, <1>4, <2>2, TailFacts DEF OnlyEnds
    <3> QED
      BY <3>1 DEF ExecInv, AgentInv
  <2> QED
    BY <1>5, <1>7, <2>2, <2>3 DEF Delivered
<1>8. CASE cli.pc # "done" /\ cli'.pc # "done"
  <2>1. Still \/ Moves
    BY <1>8, StepMoves
  <2>2. CASE v.h
    <3>1. Still
      BY <1>1, <2>1, <2>2 DEF Moves, TearsFrame, SendsAnswer, SendsChunk, Pushed, Produces,
         Refuses, Refused, Dials, Takes, Concludes, Receives, Answers, Lates
    <3>2. UNCHANGED <<u.rc, cli.out, v.gh, proc.out>>
      BY <3>1 DEF Still
    <3>3. PICK b \in 0..proc.out[s] : /\ Newest(u.rc, Len(u.rc), s, Delivered(s), b)
                                      /\ InOrder(v.gh, s, b, proc.out[s])
      BY <1>8, <2>2 DEF ExecInv, StreamInv
    <3>4. v.gh[1].body = b + 1 /\ v.gh[1].body <= proc.out[s] /\ b \in Nat
      <4>1. b \in Nat /\ s # "garbage"
        BY <1>2, <3>3 DEF Streams
      <4> QED
        BY <1>3, <1>4, <3>2, <3>3, <4>1, InOrderFirst
    <3>5. v.gh[1].body - 1 = b
      BY <3>4
    <3> QED
      BY <1>4, <3>2, <3>3, <3>4, <3>5 DEF Delivered
  <2>3. CASE ~v.h
    <3>1. /\ v'.gh[1].body <= proc'.out[s]
          /\ Newest(u.rc, Len(u.rc), s, Delivered(s), v'.gh[1].body - 1)
      BY <1>5, <1>8, <2>3
    <3>2. CASE UNCHANGED <<u.rc, cli.out>>
      BY <3>1, <3>2 DEF Delivered
    <3>3. CASE Receives
      <4>1. u.rc # <<>> /\ u'.rc = Tail(u.rc) /\ Ran /\ call.mode # "batch"
        BY <1>0, <3>3 DEF Receives
      <4>2. Delivered(s)' = IF u.rc[1].kind = s THEN u.rc[1].body ELSE Delivered(s)
        <5>1. CASE u.rc[1].kind = s
          <6>1. cli'.out[s] = Append(cli.out[s], u.rc[1].body)
            BY <3>3, <5>1 DEF Receives, ExecInv, ExecTypeOK, Callers
          <6> QED
            BY <1>0, <1>8, <3>3, <4>1, <5>1, <6>1, ReceivedIsNext, OutGrows
        <5>2. CASE u.rc[1].kind # s
          BY <3>3, <5>2 DEF Receives, Delivered, ExecInv, ExecTypeOK, Callers
        <5> QED
          BY <5>1, <5>2
      <4>3. Len(u.rc) \in 1..Len(u.rc) /\ Len(u'.rc) = Len(u.rc) - 1
        BY <1>3, <4>1, TailFacts
      <4>4. Newest(Tail(u.rc), Len(u.rc) - 1, s,
                   IF u.rc[1].kind = s THEN u.rc[1].body ELSE Delivered(s),
                   v'.gh[1].body - 1)
        BY <1>3, <3>1, <4>1, <4>3, NewestTail
      <4> QED
        BY <3>1, <4>1, <4>2, <4>3, <4>4
    <3>4. CASE Answers
      <4>1. PICK f \in EndFrames : u'.rc = Append(u.rc, f)
        <5>1. Result(bk.res, bk.out) \in EndFrames
          BY ResultType DEF ExecInv, ExecTypeOK, Backends
        <5>2. Frame("exit", IF bk.res = "error" THEN "one" ELSE bk.res) \in EndFrames
          BY ExitType DEF ExecInv, ExecTypeOK, Backends, Codes
        <5> QED
          BY <3>4, <5>1, <5>2 DEF Answers
      <4>2. f \in OutFrames \cup EndFrames /\ f.kind # s
        BY FrameKinds DEF Streams
      <4>3. Len(u'.rc) = Len(u.rc) + 1 /\ Delivered(s)' = Delivered(s)
        BY <1>3, <3>4, <4>1, <4>2, AppendFacts DEF Answers, Delivered
      <4>4. Newest(Append(u.rc, f), Len(u.rc) + 1, s, Delivered(s), v'.gh[1].body - 1)
        BY <1>3, <3>1, <4>2, NewestAppend
      <4> QED
        BY <3>1, <4>1, <4>3, <4>4
    <3> QED
      BY <1>1, <2>1, <2>3, <3>2, <3>3, <3>4 DEF Still, Moves, TearsFrame, SendsAnswer,
         SendsChunk, Pushed, Open, Produces, Refuses, Idle, Dials, Takes, Concludes, Lates
  <2> QED
    BY <2>2, <2>3
<1> QED
  BY <1>6, <1>7, <1>8

-----------------------------------------------------------------------------
(* The theorems.                                                             *)

(* The invariant holds at the start,                                         *)
LEMMA ExecInvInit ==
  ASSUME ExecInit
  PROVE  ExecInv
<1> USE DEF ExecInit, PerStream
<1>1. ExecTypeOK
  <2>1. call.ins \in Nat
    BY ExecBounds
  <2>2. cli \in Callers
    BY <2>1 DEF Callers, Codes
  <2>3. u \in Sockets
    BY DEF Sockets
  <2>4. relay \in Relays
    BY DEF Relays
  <2>5. bk \in Backends
    BY DEF Backends, Codes
  <2>6. v \in Vsocks
    BY DEF Vsocks
  <2>7. guest \in Agents
    BY DEF Agents
  <2>8. proc \in Processes
    BY DEF Processes, Codes
  <2> QED
    BY <2>2, <2>3, <2>4, <2>5, <2>6, <2>7, <2>8 DEF ExecTypeOK
<1>2. CallerInv
  BY ExecBounds DEF CallerInv
<1>3. BackendInv
  BY DEF BackendInv
<1>4. AgentInv
  BY DEF AgentInv, NoGarbage, OnlyEnds
<1>5. ASSUME NEW s \in Streams PROVE CopierInv(s)
  BY DEF CopierInv, Open
<1>6. ASSUME NEW s \in Streams PROVE OutInv(s)
  BY FirstNZero DEF OutInv, Delivered
<1>7. AnswerInv
  BY DEF AnswerInv
<1>8. ASSUME NEW s \in Streams PROVE StreamInv(s)
  <2>1. u.rc = <<>> /\ Delivered(s) = 0 /\ proc.out[s] = 0 /\ ~v.h /\ bk.res = "none"
    BY DEF Delivered
  <2>2. ToClient(s) /\ ToBackend(s, 0) /\ Told(s, 0)
    BY <2>1 DEF ToClient, ToBackend, Told, InOrder, EndsAfter, Open
  <2>3. Newest(u.rc, Len(u.rc), s, Delivered(s), 0)
    BY <2>1, NewestFirst
  <2> QED
    BY <2>1, <2>2, <2>3, StreamParts
<1>9. ASSUME NEW s \in Streams PROVE LateInv(s)
  BY DEF LateInv
<1> QED
  BY <1>1, <1>2, <1>3, <1>4, <1>5, <1>6, <1>7, <1>8, <1>9 DEF ExecInv

(* and every step keeps it.                                                  *)
LEMMA ExecInvStep ==
  ASSUME ExecInv, [ExecNext]_execVars
  PROVE  ExecInv'
<1>1. ExecTypeOK'
  BY ExecTypeStep DEF ExecInv
<1>2. CallerInv' /\ BackendInv' /\ AgentInv'
  BY CallerStep, BackendStep, AgentStep
<1>3. \A s \in Streams : CopierInv(s)' /\ OutInv(s)' /\ LateInv(s)'
  BY <1>2, CopierStep, OutStep, LateStep
<1>4. ASSUME cli'.pc # "done" PROVE AnswerInv' /\ \A s \in Streams : StreamInv(s)'
  BY <1>4, AnswerKept, AnswerStep, StreamStep
<1> QED
  BY <1>1, <1>2, <1>3, <1>4 DEF ExecInv

(* The records of the exec path keep their types: the frames of the two      *)
(* connections, the states of every goroutine (ExecLink to ExecSession).     *)
THEOREM ExecTypeCorrect == ExecSpec => []ExecTypeOK
<1>1. ExecInv => ExecTypeOK
  BY DEF ExecInv
<1> QED
  BY <1>1, ExecInvInit, ExecInvStep, PTL DEF ExecSpec

(* A step of the exec path is a step of ExecCall, or changes nothing of it.  *)
LEMMA CallStep ==
  ASSUME ExecInv, ExecInv', [ExecNext]_execVars
  PROVE  [Call!CallNext /\ Call!FlagsKept]_Call!callVars
<1>1. Call!FlagsKept
  BY LostKept DEF Call!FlagsKept, Whole
<1>2. UNCHANGED call /\ Ran
  BY LostKept, CommandStep
<1>3. /\ cli.pc = "done" <=> cli.ret # "none"
      /\ cli'.pc = "done" <=> cli'.ret # "none"
  BY DEF ExecInv, CallerInv
<1>4. ReportedCode = "none" <=> proc.code = "none"
  BY DEF ReportedCode, Encoded
<1>5. CASE UNCHANGED <<cli.out, cli.ret>>
  <2>1. CASE UNCHANGED <<proc.out, proc.code>>
    <3>1. UNCHANGED ReportedCode
      BY <1>2, <2>1 DEF ReportedCode, Piped
    <3>2. \A s \in Streams : proc'.out[s] \in {proc.out[s], proc.out[s] + 1}
      BY <2>1
    <3>3. Call!Run
      BY <1>5, <2>1, <3>1, <3>2 DEF Call!Run
    <3> QED
      BY <1>1, <3>3 DEF Call!CallNext
  <2>2. CASE proc.code = "none" /\ \A s \in Streams : proc'.out[s] \in {proc.out[s], proc.out[s] + 1}
    <3>1. Call!Run
      BY <1>4, <1>5, <2>2 DEF Call!Run
    <3> QED
      BY <1>1, <3>1 DEF Call!CallNext
  <2> QED
    BY <1>2, <2>1, <2>2 DEF Ran
<1> DEFINE Longer == \A s \in Streams : \/ cli'.out[s] = cli.out[s]
                                         \/ \E n : cli'.out[s] = Append(cli.out[s], n)
<1>9. /\ UNCHANGED cli.out => Longer
      /\ \A t, n : cli'.out = [cli.out EXCEPT ![t] = Append(@, n)] => Longer
  <2>1. cli.out \in [Streams -> Seq(Nat)]
    BY DEF ExecInv, ExecTypeOK, Callers
  <2>2. ASSUME NEW t, NEW n, cli'.out = [cli.out EXCEPT ![t] = Append(@, n)],
               NEW s \in Streams
        PROVE  cli'.out[s] \in {cli.out[s], Append(cli.out[s], n)}
    BY <2>1, <2>2
  <2> QED
    BY <2>2
<1> HIDE DEF Longer
<1>10. ASSUME Longer, UNCHANGED <<proc, cli.ret>>, cli.ret = "none" \/ Lost
       PROVE  Call!CallNext /\ Call!FlagsKept
  <2>1. UNCHANGED ReportedCode
    BY <1>2, <1>10 DEF ReportedCode, Piped
  <2>2. ASSUME NEW s \in Streams
        PROVE  \E n \in Len(cli.out[s])..proc.out[s] : cli'.out[s] = Call!FirstChunks(n)
    <3>1. cli.out[s] \in Seq(Nat) /\ cli'.out[s] \in Seq(Nat) /\ proc.out[s] \in Nat
      BY DEF ExecInv, ExecTypeOK, Callers, Processes
    <3>2. Delivered(s) \in Nat /\ Delivered(s)' \in Nat /\ Delivered(s) <= Delivered(s)'
      BY <1>10, <3>1 DEF Delivered, Longer
    <3>3. cli'.out[s] = FirstN(Delivered(s)') /\ Delivered(s)' <= proc.out[s]
      BY <1>10 DEF ExecInv, OutInv
    <3>4. Delivered(s)' \in Len(cli.out[s])..proc.out[s]
      BY <3>1, <3>2, <3>3 DEF Delivered
    <3> QED
      BY <3>3, <3>4 DEF Call!FirstChunks, FirstN
  <2>3. Call!Deliver /\ UNCHANGED cli.ret
    BY <1>10, <2>1, <2>2 DEF Call!Deliver
  <2> QED
    BY <1>1, <2>3 DEF Call!CallNext
<1>11. ASSUME NEW f, \/ UNCHANGED cli.out
                      \/ cli'.out = [cli.out EXCEPT ![f.kind] = Append(@, f.body)]
       PROVE  Longer
  <2> DEFINE t == f.kind
             n == f.body
  <2>1. UNCHANGED cli.out \/ cli'.out = [cli.out EXCEPT ![t] = Append(@, n)]
    BY <1>11
  <2> HIDE DEF t, n
  <2> QED
    BY <1>9, <2>1
<1>6. CASE cli.pc = "done"
  <2>1. CASE UNCHANGED cli.out
    BY <1>5, <1>6, <2>1, AnswerKept
  <2>2. CASE WriteLate /\ cli'.out # cli.out
    <3>1. PICK f \in OutFrames : Lates(f)
      BY <2>2, LateEffect
    <3>2. /\ Lost /\ UNCHANGED <<proc, cli.ret>>
          /\ cli'.out = [cli.out EXCEPT ![f.kind] = Append(@, f.body)]
      BY <2>2, <3>1 DEF Lates
    <3>3. Longer
      BY <1>11, <3>2
    <3> QED
      BY <1>10, <3>2, <3>3
  <2> QED
    BY <1>6, <2>1, <2>2, AnswerKept
<1>7. CASE cli.pc # "done" /\ cli'.pc = "done"
  <2>1. Settles /\ cli.ret = "none" /\ cli'.ret # "none"
    BY <1>3, <1>7, StepEnds
  <2>2. UNCHANGED <<proc.out, ReportedCode>>
    BY <2>1 DEF Settles, ReportedCode, Piped
  <2>3. CASE Lost' /\ UNCHANGED cli.out
    <3>1. Call!AnswerLost
      BY <2>1, <2>2, <2>3 DEF Call!AnswerLost
    <3> QED
      BY <1>1, <3>1 DEF Call!CallNext
  <2>4. CASE /\ proc.code # "none" /\ cli'.ret = ReportedCode
             /\ \/ /\ UNCHANGED cli.out
                   /\ Whole => \A s \in Streams : Delivered(s) = proc.out[s]
                \/ cli'.out = [s \in Streams |-> FirstN(proc.out[s])]
    <3>1. Whole => \A s \in Streams : cli'.out[s] = FirstN(proc.out[s])
      BY <2>4 DEF ExecInv, OutInv
    <3>2. \A n : Call!FirstChunks(n) = FirstN(n)
      BY DEF Call!FirstChunks, FirstN
    <3>3. Call!AnswerStatus
      BY <1>4, <2>1, <2>2, <2>4, <3>1, <3>2 DEF Call!AnswerStatus
    <3> QED
      BY <1>1, <3>3 DEF Call!CallNext
  <2> QED
    BY <2>1, <2>3, <2>4 DEF Settles
<1>8. CASE cli.pc # "done" /\ cli'.pc # "done"
  <2>1. cli.ret = "none" /\ cli'.ret = "none"
    BY <1>3, <1>8
  <2>2. CASE UNCHANGED cli.out
    BY <1>5, <2>1, <2>2
  <2>3. CASE (\E f \in OutFrames : Takes(f) \/ Lates(f)) \/ Receives
    <3>1. UNCHANGED proc /\ Longer
      <4>1. CASE Receives
        BY <4>1, <1>9 DEF Receives
      <4>2. ASSUME NEW f \in OutFrames, Takes(f) PROVE UNCHANGED proc /\ Longer
        BY <4>2, <1>11 DEF Takes
      <4>3. ASSUME NEW f \in OutFrames, Lates(f) PROVE UNCHANGED proc /\ Longer
        BY <4>3, <1>11 DEF Lates
      <4> QED
        BY <2>3, <4>1, <4>2, <4>3
    <3> QED
      BY <1>10, <2>1, <3>1
  <2>4. Still \/ Moves
    BY <1>8, StepMoves
  <2> QED
    BY <2>2, <2>3, <2>4 DEF Still, Moves, TearsFrame, SendsAnswer, SendsChunk, Pushed,
       Produces, Refuses, Idle, Dials, Concludes, Answers
<1> QED
  BY <1>6, <1>7, <1>8

(* The exec path keeps the promise of ExecCall (ImplementsCall of            *)
(* ExecSession): through the relay or from the host process, in every mode,  *)
(* with any number of chunks, whenever the client disconnects, the call is   *)
(* cancelled, the VM or the host process dies, the caller has every stream   *)
(* in order, all of it before the command's own status, and another answer   *)
(* only if the call was lost.                                                *)
THEOREM ExecKeepsPromise == ExecSpec => ImplementsCall
<1>1. ASSUME ExecInit PROVE Call!CallInit
  BY <1>1 DEF ExecInit, Call!CallInit, PerStream, ReportedCode, Encoded
<1>2. ExecInv /\ ExecInv' /\ [ExecNext]_execVars
         => [Call!CallNext /\ Call!FlagsKept]_Call!callVars
  BY CallStep
<1> QED
  BY <1>1, <1>2, ExecInvInit, ExecInvStep, PTL DEF ExecSpec, ImplementsCall, Call!CallSpec
==============================================================================
