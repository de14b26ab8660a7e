------------------------------ MODULE ExecCall ------------------------------
(***************************************************************************)
(* What running a command in a sandbox promises its caller, whatever       *)
(* transport carries it.  The command writes chunks to its streams and     *)
(* exits; the caller receives the chunks of every stream in the order they *)
(* were written, without loss, duplication or reordering, and gets one     *)
(* answer.  A normal answer is the command's own exit status and comes     *)
(* after everything the command wrote (when the transport keeps the whole  *)
(* output: a terminal does not).  Any other answer is given only when the  *)
(* call was lost: cancelled, or cut off from the command; then more chunks *)
(* may follow it, still in order.                                          *)
(***************************************************************************)
EXTENDS Naturals, Sequences

CONSTANT OutStreams

VARIABLES produced,   \* per stream, how many chunks the command has written
          delivered,  \* per stream, the chunks the caller has, in order
          exited,     \* the status the command ended with, or "none"
          answer,     \* what the call returned, or "none"
          lost,       \* the call was cancelled or cut off from the command
          whole       \* the transport delivers all output before the status

callVars == <<produced, delivered, exited, answer, lost, whole>>

CallInit == /\ produced = [s \in OutStreams |-> 0]
            /\ delivered = [s \in OutStreams |-> <<>>]
            /\ exited = "none"
            /\ answer = "none"

FirstChunks(n) == [i \in 1..n |-> i]

\* The command runs: it writes a chunk, or ends, or does both at once (a
\* command that cannot be started ends with the agent's own message).
Run == /\ \/ exited = "none"
          \/ UNCHANGED <<produced, exited>>
       /\ \A s \in OutStreams : produced'[s] \in {produced[s], produced[s] + 1}
       /\ UNCHANGED <<delivered, answer>>

\* More of a stream reaches the caller, of a lost call also after the answer.
Deliver == /\ answer = "none" \/ lost
           /\ \A s \in OutStreams :
                 \E n \in Len(delivered[s])..produced[s] :
                     delivered'[s] = FirstChunks(n)
           /\ UNCHANGED <<produced, exited>>

AnswerStatus == /\ answer = "none"
                /\ exited # "none"
                /\ answer' = exited
                /\ whole => \A s \in OutStreams :
                                delivered'[s] = FirstChunks(produced[s])
                /\ UNCHANGED <<produced, exited>>

AnswerLost == /\ answer = "none"
              /\ lost \/ lost'
              /\ answer' # "none"
              /\ UNCHANGED <<produced, delivered, exited>>

CallNext == \/ Run
            \/ Deliver /\ UNCHANGED answer
            \/ AnswerStatus
            \/ AnswerLost

\* A lost call stays lost, and a transport that has torn its frames does not
\* become whole again.
FlagsKept == /\ lost => lost'
             /\ whole' => whole

CallSpec == CallInit /\ [][CallNext /\ FlagsKept]_callVars
=============================================================================
