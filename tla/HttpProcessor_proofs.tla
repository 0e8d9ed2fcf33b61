------------------------ MODULE HttpProcessor_proofs ------------------------
(***************************************************************************)
(* Proofs about the load generator, for any finite set of requests and any *)
(* depth of nested calls: started counts the requests without an answer,   *)
(* and none is without one when the loop has returned.                     *)
(***************************************************************************)
EXTENDS HttpProcessor, FiniteSetTheorems, SequenceTheorems, TLAPS

Frames == [at : Places, of : Requests \cup {TIMEOUT}]

\* The places of a call that has read the message of a request.
Leaving == {"remove", "complete"}

\* A socket is watched of each transfer that has one (socket_cb).
SocketsOpen == sockets = {r \in Requests : transfer[r] = "open"}

\* What is answered was removed from curl.
AnsweredRemoved == \A r \in Requests : completed[r] = 1 => transfer[r] = "removed"

\* Each request whose message was read and that is not answered has one call
\* that will answer it, and no other request has.
LeavingOnce ==
  /\ \A i \in 1..Len(stack) : stack[i].at \in Leaving =>
       /\ stack[i].of \in Requests
       /\ transfer[stack[i].of] = "removed" /\ completed[stack[i].of] = 0
  /\ \A i, j \in 1..Len(stack) :
       stack[i].at \in Leaving /\ stack[j].at \in Leaving /\ stack[i].of = stack[j].of
         => i = j

RemovedLeaving ==
  \A r \in Requests : transfer[r] = "removed" /\ completed[r] = 0 =>
    \E i \in 1..Len(stack) : stack[i].at \in Leaving /\ stack[i].of = r

\* A transfer without a socket has a timer, or a call that will see to one.
WaitingTimed ==
  Waiting # {} => timer \/ \E i \in 1..Len(stack) : stack[i].at \in {"add", "act", "acted"}

\* A message has a call that will look for messages.
MessagesChecked ==
  (\E r \in Requests : transfer[r] = "done") =>
    \E i \in 1..Len(stack) : stack[i].at \in {"act", "acted", "returned", "check"}

LoopOnward ==
  /\ loop # "before" => \A r \in Requests : transfer[r] # "none"
  /\ loop = "unloop" => Unanswered = {}
  /\ loop = "ended" => stack = <<>>
  /\ AnsweredAtEnd

CallsInv == LeavingOnce /\ RemovedLeaving /\ WaitingTimed /\ MessagesChecked

IInv == TypeOK /\ StartedCounts /\ SocketsOpen /\ AnsweredRemoved /\ CallsInv /\ LoopOnward

-----------------------------------------------------------------------------
(* The stack of calls.                                                     *)

(***************************************************************************)
(* Return takes the innermost call away and leaves the others.             *)
(***************************************************************************)
LEMMA ReturnIs ==
  ASSUME stack \in Seq(Frames), stack # <<>>
  PROVE  /\ Len(stack) \in Nat /\ Len(stack) > 0
         /\ Return \in Seq(Frames)
         /\ Len(Return) = Len(stack) - 1
         /\ \A i \in 1..(Len(stack) - 1) : Return[i] = stack[i]
<1>1. Len(stack) \in Nat /\ Len(stack) > 0
  OBVIOUS
<1>2. \A i \in 1..(Len(stack) - 1) : stack[i] \in Frames
  OBVIOUS
<1>3. /\ SubSeq(stack, 1, Len(stack) - 1) \in Seq(Frames)
      /\ Len(SubSeq(stack, 1, Len(stack) - 1)) =
           IF 1 <= Len(stack) - 1 THEN Len(stack) - 1 - 1 + 1 ELSE 0
      /\ \A i \in 1..(Len(stack) - 1 - 1 + 1) :
           SubSeq(stack, 1, Len(stack) - 1)[i] = stack[1 + i - 1]
  BY <1>1, <1>2, SubSeqProperties
<1>4. Len(SubSeq(stack, 1, Len(stack) - 1)) = Len(stack) - 1
  <2>1. CASE Len(stack) > 1
    <3>1. 1 <= Len(stack) - 1 /\ Len(stack) - 1 - 1 + 1 = Len(stack) - 1
      BY <1>1, <2>1
    <3> QED BY <1>3, <3>1
  <2>2. CASE Len(stack) = 1
    <3>1. ~ (1 <= Len(stack) - 1) /\ Len(stack) - 1 = 0
      BY <2>2
    <3> QED BY <1>3, <3>1
  <2>3. Len(stack) > 1 \/ Len(stack) = 1
    <3>1. \A n \in Nat : n > 0 => n > 1 \/ n = 1
      OBVIOUS
    <3> QED BY <1>1, <3>1, Zenon
  <2> QED BY <2>1, <2>2, <2>3, Zenon
<1>5. \A i \in 1..(Len(stack) - 1) : i \in 1..(Len(stack) - 1 - 1 + 1) /\ 1 + i - 1 = i
  BY <1>1
<1>6. \A i \in 1..(Len(stack) - 1) : SubSeq(stack, 1, Len(stack) - 1)[i] = stack[i]
  BY <1>3, <1>5
<1> QED BY <1>1, <1>3, <1>4, <1>6, Zenon DEF Return

(***************************************************************************)
(* Becomes moves the innermost call on and leaves the others.              *)
(***************************************************************************)
LEMMA BecomesIs ==
  ASSUME stack \in Seq(Frames), stack # <<>>, NEW at \in Places
  PROVE  /\ Becomes(at) \in Seq(Frames)
         /\ Len(Becomes(at)) = Len(stack)
         /\ \A i \in 1..Len(stack) : Becomes(at)[i] =
              IF i = Len(stack) THEN Frame(at, stack[Len(stack)].of) ELSE stack[i]
<1>1. /\ Len(stack) \in Nat /\ Len(stack) > 0
      /\ Return \in Seq(Frames) /\ Len(Return) = Len(stack) - 1
      /\ \A i \in 1..(Len(stack) - 1) : Return[i] = stack[i]
  BY ReturnIs
<1>2. Frame(at, stack[Len(stack)].of) \in Frames
  <2>1. stack[Len(stack)] \in Frames
    BY <1>1
  <2> QED BY <2>1 DEF Frame, Frames
<1> DEFINE top == Frame(at, stack[Len(stack)].of)
<1>3. Becomes(at) = Append(Return, top)
  BY DEF Becomes
<1> HIDE DEF top
<1>4. /\ Append(Return, top) \in Seq(Frames)
      /\ Len(Append(Return, top)) = Len(stack)
      /\ \A i \in 1..Len(stack) :
           Append(Return, top)[i] = IF i = Len(stack) THEN top ELSE Return[i]
  <2>1. top \in Frames
    BY <1>2 DEF top
  <2> QED BY <1>1, <2>1, AppendProperties
<1> QED BY <1>1, <1>3, <1>4 DEF top

(***************************************************************************)
(* When a call of curl ends, the calls around it go on as next says, a     *)
(* nested call of the timeout may be on top of them, and a transfer that   *)
(* waits has a timer or that call (http_processor_timer_cb).               *)
(***************************************************************************)
LEMMA UpdateTimerIs ==
  ASSUME NEW next \in Seq(Frames), timer \in BOOLEAN, UpdateTimer(next)
  PROVE  /\ timer' \in BOOLEAN /\ fault' \in {fault, "exit"}
         /\ timer => timer'
         /\ stack' \in Seq(Frames)
         /\ Len(next) \in Nat /\ Len(stack') \in {Len(next), Len(next) + 1}
         /\ \A i \in 1..Len(next) : stack'[i] = next[i]
         /\ \A i \in 1..Len(stack') : i <= Len(next) \/ stack'[i].at = "act"
         /\ Waiting # {} => timer' \/ Len(stack') = Len(next) + 1
<1> DEFINE call == Frame("act", TIMEOUT)
<1>1. call \in Frames /\ call.at = "act"
  BY DEF Frame, Frames, Places
<1> HIDE DEF call
<1>2. Len(next) \in Nat
  OBVIOUS
<1>3. /\ Append(next, call) \in Seq(Frames)
      /\ Len(Append(next, call)) = Len(next) + 1
      /\ \A i \in 1..Len(next) : Append(next, call)[i] = next[i]
      /\ Append(next, call)[Len(next) + 1] = call
  BY <1>1, AppendProperties
<1>4. CASE stack' = Append(next, call) /\ timer' = timer /\ fault' = fault
  BY <1>1, <1>2, <1>3, <1>4
<1>5. CASE stack' = next /\ timer' = TRUE /\ fault' = fault
  BY <1>2, <1>5
<1>6. CASE Waiting = {} /\ stack' = next /\ timer' = timer /\ fault' \in {fault, "exit"}
  BY <1>2, <1>6
<1> QED BY <1>4, <1>5, <1>6 DEF UpdateTimer, TimerCb, call

-----------------------------------------------------------------------------
(* The requests without an answer.                                         *)

\* There are finitely many.
LEMMA UnansweredFinite == IsFiniteSet(Unanswered) /\ Cardinality(Unanswered) \in Nat
<1>1. Unanswered \in SUBSET Requests
  BY DEF Unanswered
<1>2. IsFiniteSet(Unanswered)
  BY <1>1, RequestsAssumption, FS_Subset
<1> QED BY <1>2, FS_CardinalityType

\* A step that leaves them as they are keeps the count.
LEMMA CountKept ==
  ASSUME StartedCounts, started' = started, Unanswered' = Unanswered
  PROVE  StartedCounts'
BY DEF StartedCounts

(***************************************************************************)
(* The calls in progress keep their promises if they stay, those of the    *)
(* requests apart, where they are, and transfers, answers and the timer    *)
(* too: the step of a call that ends a call of curl.                       *)
(***************************************************************************)
LEMMA UpdateKeepsCalls ==
  ASSUME TypeOK, CallsInv, NEW next \in Seq(Frames), UpdateTimer(next),
         stack # <<>>,
         transfer' = transfer, completed' = completed,
         Len(next) \in {Len(stack), Len(stack) - 1},
         \A i \in 1..(Len(stack) - 1) : next[i] = stack[i],
         Len(next) = Len(stack) - 1 => stack[Len(stack)].at = "add",
         Len(next) = Len(stack) =>
           /\ next[Len(stack)].of = stack[Len(stack)].of
           /\ \/ stack[Len(stack)].at = "acted" /\ next[Len(stack)].at = "returned"
              \/ stack[Len(stack)].at = "remove" /\ next[Len(stack)].at = "complete"
  PROVE  CallsInv'
<1>1. /\ timer \in BOOLEAN /\ stack \in Seq(Frames)
      /\ Len(stack) \in Nat /\ Len(stack) > 0
  BY DEF TypeOK, Frames
<1>2. /\ timer' \in BOOLEAN /\ timer => timer'
      /\ stack' \in Seq(Frames)
      /\ Len(next) \in Nat /\ Len(stack') \in {Len(next), Len(next) + 1}
      /\ \A i \in 1..Len(next) : stack'[i] = next[i]
      /\ \A i \in 1..Len(stack') : i <= Len(next) \/ stack'[i].at = "act"
      /\ Waiting # {} => timer' \/ Len(stack') = Len(next) + 1
  BY <1>1, UpdateTimerIs
<1>3. \A i \in 1..Len(stack') : stack'[i].at \in Leaving =>
        /\ i \in 1..Len(stack) /\ stack[i].at \in Leaving
        /\ stack'[i].of = stack[i].of
  BY <1>1, <1>2 DEF Leaving
<1>4. \A i \in 1..Len(stack) : stack[i].at \in Leaving =>
        /\ i \in 1..Len(stack') /\ stack'[i].at \in Leaving
        /\ stack'[i].of = stack[i].of
  BY <1>1, <1>2 DEF Leaving
<1>5. LeavingOnce'
  BY <1>3 DEF CallsInv, LeavingOnce
<1>6. RemovedLeaving'
  BY <1>4 DEF CallsInv, RemovedLeaving
<1>7. WaitingTimed'
  <2>1. Waiting' = Waiting
    BY DEF Waiting
  <2>2. CASE Waiting # {} /\ ~ timer'
    <3>1. Len(stack') \in 1..Len(stack') /\ stack'[Len(stack')].at = "act"
      BY <1>2, <2>2
    <3> QED BY <3>1 DEF WaitingTimed
  <2> QED BY <2>1, <2>2 DEF WaitingTimed
<1>8. MessagesChecked'
  <2>1. \A i \in 1..Len(stack) : stack[i].at \in {"act", "acted", "returned", "check"} =>
          /\ i \in 1..Len(stack')
          /\ stack'[i].at \in {"act", "acted", "returned", "check"}
    BY <1>1, <1>2
  <2> QED BY <2>1 DEF CallsInv, MessagesChecked
<1> QED BY <1>5, <1>6, <1>7, <1>8 DEF CallsInv

-----------------------------------------------------------------------------
(* The steps, one lemma per action.                                        *)

\* At the start no request is added and no call in progress.
LEMMA InitInv == Init => IInv
<1> SUFFICES ASSUME Init PROVE IInv
  OBVIOUS
<1>1. Unanswered = {}
  BY DEF Init, Unanswered
<1>2. StartedCounts
  BY <1>1, FS_EmptySet DEF Init, StartedCounts
<1>3. stack \in Seq(Frames) /\ Len(stack) = 0
  BY DEF Init
<1>4. TypeOK
  <2>1. /\ transfer \in [Requests -> Stages] /\ completed \in [Requests -> 0..1]
        /\ running \in Nat /\ started \in Nat /\ sockets \in SUBSET Requests
    BY DEF Init, Stages
  <2>2. stack \in Seq([at : Places, of : Requests \cup {TIMEOUT}])
    BY <1>3, Zenon DEF Frames
  <2>3. timer \in BOOLEAN /\ loop \in {"before", "in", "unloop", "ended"}
        /\ fault \in {"none", "freed", "exit"}
    BY DEF Init
  <2> QED BY <2>1, <2>2, <2>3, Zenon DEF TypeOK
<1>5. SocketsOpen /\ AnsweredRemoved /\ LoopOnward
  BY DEF Init, SocketsOpen, AnsweredRemoved, LoopOnward, AnsweredAtEnd
<1>6. CallsInv
  BY <1>3 DEF Init, CallsInv, LeavingOnce, RemovedLeaving, WaitingTimed, Waiting, MessagesChecked
<1> QED BY <1>2, <1>4, <1>5, <1>6 DEF IInv

\* A step that leaves transfers, answers, calls and the loop as they are.
LEMMA KeepsCalls ==
  ASSUME CallsInv, transfer' = transfer, completed' = completed, stack' = stack, timer' = timer
  PROVE  CallsInv'
BY DEF CallsInv, LeavingOnce, RemovedLeaving, WaitingTimed, Waiting, MessagesChecked

(***************************************************************************)
(* A request that main adds is counted; its call will see to its timeout.  *)
(***************************************************************************)
LEMMA AddRequestInv ==
  ASSUME IInv, NEW r \in Requests, AddRequest(r)
  PROVE  IInv'
<1>1. /\ stack' = <<Frame("add", r)>> /\ stack' \in Seq(Frames) /\ Len(stack') = 1
      /\ stack'[1].at = "add"
  <2>1. Frame("add", r) \in Frames
    BY DEF Frame, Frames, Places
  <2> QED BY <2>1 DEF AddRequest, Frame
<1>2. /\ loop = "before" /\ transfer[r] = "none" /\ stack = <<>> /\ Len(stack) = 0
      /\ transfer' = [transfer EXCEPT ![r] = "waiting"]
      /\ started' = started + 1
      /\ UNCHANGED <<running, sockets, timer, completed, loop, fault>>
  BY DEF AddRequest
<1>3. TypeOK /\ transfer \in [Requests -> Stages] /\ completed[r] \in 0..1
  BY DEF IInv, TypeOK
<1>4. TypeOK'
  BY <1>1, <1>2, <1>3 DEF TypeOK, Stages, Frames
<1>5. completed[r] = 0
  BY <1>2, <1>3 DEF IInv, AnsweredRemoved
<1>6. StartedCounts'
  <2>1. Unanswered' = Unanswered \cup {r} /\ r \notin Unanswered
    BY <1>2, <1>3, <1>5 DEF Unanswered
  <2>2. Cardinality(Unanswered') = Cardinality(Unanswered) + 1
    BY <2>1, UnansweredFinite, FS_AddElement
  <2> QED BY <1>2, <2>2 DEF IInv, StartedCounts
<1>7. SocketsOpen' /\ AnsweredRemoved'
  BY <1>2, <1>3 DEF IInv, SocketsOpen, AnsweredRemoved
<1>8. CallsInv'
  <2>1. LeavingOnce'
    BY <1>1 DEF LeavingOnce, Leaving
  <2>2. RemovedLeaving' /\ MessagesChecked'
    BY <1>2, <1>3 DEF IInv, CallsInv, RemovedLeaving, MessagesChecked
  <2>3. WaitingTimed'
    BY <1>1 DEF WaitingTimed
  <2> QED BY <2>1, <2>2, <2>3 DEF CallsInv
<1>9. LoopOnward'
  BY <1>2 DEF LoopOnward, AnsweredAtEnd
<1> QED BY <1>4, <1>6, <1>7, <1>8, <1>9 DEF IInv

(***************************************************************************)
(* A request that curl refuses is counted all the same.                    *)
(***************************************************************************)
LEMMA AddRefusedInv ==
  ASSUME IInv, NEW r \in Requests, AddRefused(r)
  PROVE  IInv'
<1>2. /\ loop = "before" /\ transfer[r] = "none"
      /\ transfer' = [transfer EXCEPT ![r] = "refused"]
      /\ started' = started + 1
      /\ UNCHANGED <<running, sockets, timer, completed, stack, loop, fault>>
  BY DEF AddRefused
<1>3. TypeOK /\ transfer \in [Requests -> Stages] /\ completed[r] \in 0..1
  BY DEF IInv, TypeOK
<1>4. TypeOK'
  BY <1>2, <1>3 DEF TypeOK, Stages
<1>5. completed[r] = 0
  BY <1>2, <1>3 DEF IInv, AnsweredRemoved
<1>6. StartedCounts'
  <2>1. Unanswered' = Unanswered \cup {r} /\ r \notin Unanswered
    BY <1>2, <1>3, <1>5 DEF Unanswered
  <2>2. Cardinality(Unanswered') = Cardinality(Unanswered) + 1
    BY <2>1, UnansweredFinite, FS_AddElement
  <2> QED BY <1>2, <2>2 DEF IInv, StartedCounts
<1>7. SocketsOpen' /\ AnsweredRemoved'
  BY <1>2, <1>3 DEF IInv, SocketsOpen, AnsweredRemoved
<1>8. CallsInv'
  <2>1. Waiting' = Waiting
    BY <1>2, <1>3 DEF Waiting
  <2>2. \A q \in Requests : transfer'[q] \in {"removed", "done"} => transfer'[q] = transfer[q]
    BY <1>2, <1>3
  <2>3. \A q \in Requests : transfer[q] = "removed" => transfer'[q] = "removed"
    BY <1>2, <1>3
  <2>4. LeavingOnce'
    BY <1>2, <2>3 DEF IInv, CallsInv, LeavingOnce
  <2>5. RemovedLeaving' /\ MessagesChecked'
    BY <1>2, <2>2 DEF IInv, CallsInv, RemovedLeaving, MessagesChecked
  <2>6. WaitingTimed'
    BY <1>2, <2>1 DEF IInv, CallsInv, WaitingTimed
  <2> QED BY <2>4, <2>5, <2>6 DEF CallsInv
<1>9. LoopOnward'
  BY <1>2 DEF LoopOnward, AnsweredAtEnd
<1> QED BY <1>4, <1>6, <1>7, <1>8, <1>9 DEF IInv

(***************************************************************************)
(* The loop begins once every request is added.                            *)
(***************************************************************************)
LEMMA EvLoopInv ==
  ASSUME IInv, EvLoop
  PROVE  IInv'
<1>1. /\ UNCHANGED <<running, started, transfer, sockets, timer, completed, stack, fault>>
      /\ loop' = "in" /\ \A r \in Requests : transfer[r] # "none"
  BY DEF EvLoop
<1>2. TypeOK' /\ StartedCounts' /\ SocketsOpen' /\ AnsweredRemoved'
  BY <1>1 DEF IInv, TypeOK, StartedCounts, Unanswered, SocketsOpen, AnsweredRemoved
<1>3. CallsInv'
  BY <1>1, KeepsCalls DEF IInv
<1>4. LoopOnward'
  BY <1>1 DEF LoopOnward, AnsweredAtEnd
<1> QED BY <1>2, <1>3, <1>4 DEF IInv

(***************************************************************************)
(* When the loop returns, because it was told to or watches nothing, no    *)
(* request is left without an answer.                                      *)
(***************************************************************************)
LEMMA EvLoopReturnsInv ==
  ASSUME IInv, EvLoopReturns
  PROVE  IInv'
<1>1. /\ UNCHANGED <<running, started, transfer, sockets, timer, completed, stack, fault>>
      /\ loop' = "ended" /\ stack = <<>> /\ Len(stack) = 0
      /\ loop = "unloop" \/ (loop = "in" /\ sockets = {} /\ ~ timer)
  BY DEF EvLoopReturns
<1>2. TypeOK' /\ StartedCounts' /\ SocketsOpen' /\ AnsweredRemoved'
  BY <1>1 DEF IInv, TypeOK, StartedCounts, Unanswered, SocketsOpen, AnsweredRemoved
<1>3. CallsInv'
  BY <1>1, KeepsCalls DEF IInv
<1>4. \A r \in Requests : transfer[r] \in Stages /\ transfer[r] # "none" /\ completed[r] \in 0..1
  BY <1>1 DEF IInv, TypeOK, LoopOnward
<1>5. \A r \in Requests : transfer[r] # "refused" => completed[r] = 1
  <2>1. CASE loop = "unloop"
    BY <1>4, <2>1 DEF IInv, LoopOnward, Unanswered
  <2>2. CASE loop = "in" /\ sockets = {} /\ ~ timer
    <3>1. \A r \in Requests : transfer[r] # "open"
      BY <2>2 DEF IInv, SocketsOpen
    <3>2. \A r \in Requests : transfer[r] # "waiting"
      BY <1>1, <2>2 DEF IInv, CallsInv, WaitingTimed, Waiting
    <3>3. \A r \in Requests : transfer[r] # "done"
      BY <1>1 DEF IInv, CallsInv, MessagesChecked
    <3>4. \A r \in Requests : transfer[r] = "removed" => completed[r] # 0
      BY <1>1 DEF IInv, CallsInv, RemovedLeaving
    <3> QED BY <1>4, <3>1, <3>2, <3>3, <3>4 DEF Stages
  <2> QED BY <1>1, <2>1, <2>2
<1>6. LoopOnward'
  BY <1>1, <1>4, <1>5 DEF LoopOnward, AnsweredAtEnd
<1> QED BY <1>2, <1>3, <1>6 DEF IInv

(***************************************************************************)
(* What a step within a call has: a stack that is not empty, and a loop    *)
(* that has not ended.                                                     *)
(***************************************************************************)
LEMMA InACall ==
  ASSUME IInv, NEW at, At(at)
  PROVE  /\ TypeOK /\ stack \in Seq(Frames) /\ stack # <<>>
         /\ Len(stack) \in Nat /\ Len(stack) > 0
         /\ stack[Len(stack)].at = at /\ stack[Len(stack)] \in Frames
         /\ loop # "ended"
         /\ transfer \in [Requests -> Stages] /\ completed \in [Requests -> 0..1]
         /\ timer \in BOOLEAN
<1>1. TypeOK /\ stack \in Seq(Frames) /\ stack # <<>> /\ stack[Len(stack)].at = at
  BY DEF IInv, TypeOK, Frames, At
<1>2. Len(stack) \in Nat /\ Len(stack) > 0
  BY <1>1
<1>3. stack[Len(stack)] \in Frames
  BY <1>1, <1>2
<1>4. loop # "ended"
  BY <1>1 DEF IInv, LoopOnward
<1> QED BY <1>1, <1>2, <1>3, <1>4 DEF TypeOK

(***************************************************************************)
(* A step that changes the calls in progress and the timer only.           *)
(***************************************************************************)
LEMMA CallStepInv ==
  ASSUME IInv, stack' \in Seq(Frames), timer' \in BOOLEAN, loop # "ended",
         UNCHANGED <<running, started, transfer, sockets, completed, loop>>,
         fault' \in {"none", "freed", "exit"},
         CallsInv'
  PROVE  IInv'
<1>1. TypeOK'
  <2>1. stack' \in Seq([at : Places, of : Requests \cup {TIMEOUT}])
    BY Zenon DEF Frames
  <2>2. /\ running' \in Nat /\ started' \in Nat /\ transfer' \in [Requests -> Stages]
        /\ sockets' \in SUBSET Requests /\ completed' \in [Requests -> 0..1]
        /\ loop' \in {"before", "in", "unloop", "ended"}
    BY DEF IInv, TypeOK
  <2> QED BY <2>1, <2>2, Zenon DEF TypeOK
<1>2. StartedCounts' /\ SocketsOpen' /\ AnsweredRemoved'
  BY DEF IInv, StartedCounts, Unanswered, SocketsOpen, AnsweredRemoved
<1>3. LoopOnward'
  BY DEF IInv, LoopOnward, AnsweredAtEnd, Unanswered
<1> QED BY <1>1, <1>2, <1>3 DEF IInv

\* curl_multi_add_handle ends.
LEMMA AddReturnsInv ==
  ASSUME IInv, AddReturns
  PROVE  IInv'
<1>1. /\ At("add") /\ UpdateTimer(Return)
      /\ UNCHANGED <<running, started, transfer, sockets, completed, loop>>
  BY DEF AddReturns
<1>2. /\ TypeOK /\ stack \in Seq(Frames) /\ stack # <<>> /\ Len(stack) \in Nat
      /\ Len(stack) > 0 /\ stack[Len(stack)].at = "add" /\ loop # "ended"
      /\ timer \in BOOLEAN
  BY <1>1, InACall
<1>3. /\ Return \in Seq(Frames) /\ Len(Return) = Len(stack) - 1
      /\ \A i \in 1..(Len(stack) - 1) : Return[i] = stack[i]
  BY <1>2, ReturnIs
<1>4. stack' \in Seq(Frames) /\ timer' \in BOOLEAN /\ fault' \in {fault, "exit"}
  BY <1>1, <1>2, <1>3, UpdateTimerIs
<1>5. CallsInv'
  <2>1. CallsInv /\ Len(Return) # Len(stack)
    BY <1>2, <1>3 DEF IInv
  <2> HIDE DEF Return
  <2> QED BY <1>1, <1>2, <1>3, <2>1, UpdateKeepsCalls
<1> QED BY <1>1, <1>2, <1>4, <1>5, CallStepInv DEF IInv, TypeOK

\* curl_multi_socket_action ends.
LEMMA ActionReturnsInv ==
  ASSUME IInv, ActionReturns
  PROVE  IInv'
<1>1. /\ At("acted") /\ UpdateTimer(Becomes("returned"))
      /\ UNCHANGED <<running, started, transfer, sockets, completed, loop>>
  BY DEF ActionReturns
<1>2. /\ TypeOK /\ stack \in Seq(Frames) /\ stack # <<>> /\ Len(stack) \in Nat
      /\ Len(stack) > 0 /\ stack[Len(stack)].at = "acted" /\ loop # "ended"
      /\ timer \in BOOLEAN
  BY <1>1, InACall
<1> DEFINE next == Becomes("returned")
<1>3. /\ next \in Seq(Frames) /\ Len(next) = Len(stack)
      /\ \A i \in 1..Len(stack) : next[i] =
           IF i = Len(stack) THEN Frame("returned", stack[Len(stack)].of) ELSE stack[i]
  BY <1>2, BecomesIs DEF Places
<1> HIDE DEF next
<1>4. /\ \A i \in 1..(Len(stack) - 1) : next[i] = stack[i]
      /\ next[Len(stack)].of = stack[Len(stack)].of /\ next[Len(stack)].at = "returned"
      /\ Len(next) # Len(stack) - 1
  BY <1>2, <1>3 DEF Frame
<1>5. UpdateTimer(next)
  BY <1>1 DEF next
<1>6. stack' \in Seq(Frames) /\ timer' \in BOOLEAN /\ fault' \in {fault, "exit"}
  BY <1>2, <1>3, <1>5, UpdateTimerIs
<1>7. CallsInv'
  BY <1>1, <1>2, <1>3, <1>4, <1>5, UpdateKeepsCalls DEF IInv
<1> QED BY <1>1, <1>2, <1>6, <1>7, CallStepInv DEF IInv, TypeOK

\* curl_multi_remove_handle ends.
LEMMA RemoveReturnsInv ==
  ASSUME IInv, RemoveReturns
  PROVE  IInv'
<1>1. /\ At("remove") /\ UpdateTimer(Becomes("complete"))
      /\ UNCHANGED <<running, started, transfer, sockets, completed, loop>>
  BY DEF RemoveReturns
<1>2. /\ TypeOK /\ stack \in Seq(Frames) /\ stack # <<>> /\ Len(stack) \in Nat
      /\ Len(stack) > 0 /\ stack[Len(stack)].at = "remove" /\ loop # "ended"
      /\ timer \in BOOLEAN
  BY <1>1, InACall
<1> DEFINE next == Becomes("complete")
<1>3. /\ next \in Seq(Frames) /\ Len(next) = Len(stack)
      /\ \A i \in 1..Len(stack) : next[i] =
           IF i = Len(stack) THEN Frame("complete", stack[Len(stack)].of) ELSE stack[i]
  BY <1>2, BecomesIs DEF Places
<1> HIDE DEF next
<1>4. /\ \A i \in 1..(Len(stack) - 1) : next[i] = stack[i]
      /\ next[Len(stack)].of = stack[Len(stack)].of /\ next[Len(stack)].at = "complete"
      /\ Len(next) # Len(stack) - 1
  BY <1>2, <1>3 DEF Frame
<1>5. UpdateTimer(next)
  BY <1>1 DEF next
<1>6. stack' \in Seq(Frames) /\ timer' \in BOOLEAN /\ fault' \in {fault, "exit"}
  BY <1>2, <1>3, <1>5, UpdateTimerIs
<1>7. CallsInv'
  BY <1>1, <1>2, <1>3, <1>4, <1>5, UpdateKeepsCalls DEF IInv
<1> QED BY <1>1, <1>2, <1>6, <1>7, CallStepInv DEF IInv, TypeOK

(***************************************************************************)
(* The loop calls back, with no other call in progress.                    *)
(***************************************************************************)
LEMMA DispatchInv ==
  ASSUME IInv, NEW of \in Requests \cup {TIMEOUT}, Dispatch(of)
  PROVE  IInv'
<1>1. /\ stack = <<>> /\ Len(stack) = 0 /\ stack' = <<Frame("act", of)>> /\ loop = "in"
      /\ UNCHANGED <<running, started, transfer, sockets, timer, completed, loop, fault>>
  BY DEF Dispatch
<1>2. stack' \in Seq(Frames) /\ Len(stack') = 1 /\ stack'[1].at = "act"
  <2>1. Frame("act", of) \in Frames
    BY DEF Frame, Frames, Places
  <2> QED BY <1>1, <2>1 DEF Frame
<1>3. TypeOK
  BY DEF IInv
<1>4. CallsInv'
  <2>1. LeavingOnce'
    BY <1>2 DEF LeavingOnce, Leaving
  <2>2. RemovedLeaving'
    BY <1>1 DEF IInv, CallsInv, RemovedLeaving
  <2>3. WaitingTimed' /\ MessagesChecked'
    BY <1>2 DEF WaitingTimed, MessagesChecked
  <2> QED BY <2>1, <2>2, <2>3 DEF CallsInv
<1> QED BY <1>1, <1>2, <1>3, <1>4, CallStepInv DEF TypeOK

(***************************************************************************)
(* The result of the call is looked at: another one, the check, or the end *)
(* of the process.                                                         *)
(***************************************************************************)
LEMMA ResultInv ==
  ASSUME IInv, CallAgain \/ ActionFails \/ CheckStatus
  PROVE  IInv'
<1>1. /\ At("returned") /\ fault = "none"
      /\ UNCHANGED <<running, started, transfer, sockets, timer, completed, loop>>
      /\ fault' \in {"none", "freed", "exit"}
      /\ stack' = stack \/ \E at \in {"act", "check"} : stack' = Becomes(at)
  BY DEF CallAgain, ActionFails, CheckStatus, At
<1>2. /\ stack \in Seq(Frames) /\ stack # <<>> /\ Len(stack) \in Nat
      /\ Len(stack) > 0 /\ stack[Len(stack)].at = "returned" /\ loop # "ended"
      /\ timer \in BOOLEAN
  BY <1>1, InACall
<1>3. CASE stack' = stack
  BY <1>1, <1>2, <1>3, KeepsCalls, CallStepInv DEF IInv
<1>4. ASSUME NEW at \in {"act", "check"}, stack' = Becomes(at)
      PROVE  IInv'
  <2>1. /\ Becomes(at) \in Seq(Frames) /\ Len(Becomes(at)) = Len(stack)
        /\ \A i \in 1..Len(stack) : Becomes(at)[i] =
             IF i = Len(stack) THEN Frame(at, stack[Len(stack)].of) ELSE stack[i]
    BY <1>2, BecomesIs DEF Places
  <2>2. /\ stack' \in Seq(Frames) /\ Len(stack') = Len(stack)
        /\ \A i \in 1..Len(stack) : i # Len(stack) => stack'[i] = stack[i]
        /\ stack'[Len(stack)].at = at
    BY <1>2, <1>4, <2>1 DEF Frame
  <2>3. CallsInv'
    <3>1. \A i \in 1..Len(stack) :
            stack'[i].at \in Leaving \/ stack[i].at \in Leaving => stack'[i] = stack[i]
      BY <1>2, <2>2 DEF Leaving
    <3>2. LeavingOnce' /\ RemovedLeaving'
      BY <1>1, <2>2, <3>1 DEF IInv, CallsInv, LeavingOnce, RemovedLeaving
    <3>3. WaitingTimed'
      <4>1. \A i \in 1..Len(stack) : stack[i].at \in {"add", "act", "acted"} =>
              stack'[i] = stack[i]
        BY <1>2, <2>2
      <4> QED BY <1>1, <2>2, <4>1 DEF IInv, CallsInv, WaitingTimed, Waiting
    <3>4. MessagesChecked'
      BY <1>2, <2>2 DEF MessagesChecked
    <3> QED BY <3>2, <3>3, <3>4 DEF CallsInv
  <2> QED BY <1>1, <1>2, <2>2, <2>3, CallStepInv
<1> QED BY <1>1, <1>3, <1>4

(***************************************************************************)
(* curl makes transfers get on: sockets go with them, what waited may now  *)
(* be open or done, and the count of the requests without an answer stays. *)
(***************************************************************************)
LEMMA PerformInv ==
  ASSUME IInv, Perform
  PROVE  IInv'
<1>0. PICK opened \in SUBSET Waiting :
        \E ended \in SUBSET (Going \ opened) :
          /\ transfer' = [r \in Requests |->
               IF r \in opened THEN "open" ELSE IF r \in ended THEN "done" ELSE transfer[r]]
          /\ sockets' = (sockets \cup opened) \ ended
  BY DEF Perform, SocketCb
<1>1. PICK ended \in SUBSET (Going \ opened) :
        /\ transfer' = [r \in Requests |->
             IF r \in opened THEN "open" ELSE IF r \in ended THEN "done" ELSE transfer[r]]
        /\ sockets' = (sockets \cup opened) \ ended
  BY <1>0
<1>2. /\ At("act") /\ running' = Cardinality(Going') /\ stack' = Becomes("acted")
      /\ UNCHANGED <<started, timer, completed, loop, fault>>
  BY DEF Perform
<1>3. /\ TypeOK /\ stack \in Seq(Frames) /\ stack # <<>> /\ Len(stack) \in Nat
      /\ Len(stack) > 0 /\ stack[Len(stack)].at = "act" /\ loop # "ended"
      /\ transfer \in [Requests -> Stages] /\ completed \in [Requests -> 0..1]
  BY <1>2, InACall
<1>4. \A r \in Requests :
        /\ r \in opened => transfer[r] = "waiting" /\ transfer'[r] = "open" /\ r \notin ended
        /\ r \in ended => transfer[r] \in {"waiting", "open"} /\ transfer'[r] = "done"
        /\ r \notin opened /\ r \notin ended => transfer'[r] = transfer[r]
  BY <1>1, <1>3 DEF Waiting, Going
<1>5. \A r \in Requests :
        /\ transfer'[r] \in {"none", "refused", "removed"} <=>
             transfer[r] \in {"none", "refused", "removed"}
        /\ transfer'[r] \in {"none", "refused", "removed"} => transfer'[r] = transfer[r]
        /\ transfer'[r] = "waiting" => transfer[r] = "waiting"
  BY <1>4
<1>6. TypeOK'
  <2>1. transfer' \in [Requests -> Stages]
    BY <1>1, <1>3 DEF Stages
  <2>2. running' \in Nat
    <3>1. Going' \in SUBSET Requests
      BY DEF Going
    <3>2. IsFiniteSet(Going')
      BY <3>1, RequestsAssumption, FS_Subset
    <3> QED BY <1>2, <3>2, FS_CardinalityType
  <2>3. sockets' \in SUBSET Requests
    BY <1>1, <1>3 DEF TypeOK, Waiting
  <2>4. stack' \in Seq([at : Places, of : Requests \cup {TIMEOUT}])
    <3>1. stack' \in Seq(Frames)
      BY <1>2, <1>3, BecomesIs DEF Places
    <3> QED BY <3>1, Zenon DEF Frames
  <2>5. /\ started' \in Nat /\ completed' \in [Requests -> 0..1] /\ timer' \in BOOLEAN
        /\ loop' \in {"before", "in", "unloop", "ended"}
        /\ fault' \in {"none", "freed", "exit"}
    BY <1>2, <1>3 DEF TypeOK
  <2> QED BY <2>1, <2>2, <2>3, <2>4, <2>5, Zenon DEF TypeOK
<1>7. Unanswered' = Unanswered
  BY <1>2, <1>5 DEF Unanswered
<1>8. StartedCounts'
  BY <1>2, <1>7, CountKept DEF IInv
<1>9. SocketsOpen'
  <2>1. \A r \in Requests : r \in sockets' <=> transfer'[r] = "open"
    BY <1>1, <1>4 DEF IInv, SocketsOpen
  <2>2. sockets' \subseteq Requests
    BY <1>6 DEF TypeOK
  <2> QED BY <2>1, <2>2 DEF SocketsOpen
<1>10. AnsweredRemoved'
  BY <1>2, <1>5 DEF IInv, AnsweredRemoved
<1>11. /\ stack' \in Seq(Frames) /\ Len(stack') = Len(stack)
       /\ \A i \in 1..Len(stack) : i # Len(stack) => stack'[i] = stack[i]
       /\ stack'[Len(stack)].at = "acted"
  <2>1. /\ Becomes("acted") \in Seq(Frames) /\ Len(Becomes("acted")) = Len(stack)
        /\ \A i \in 1..Len(stack) : Becomes("acted")[i] =
             IF i = Len(stack) THEN Frame("acted", stack[Len(stack)].of) ELSE stack[i]
    BY <1>3, BecomesIs DEF Places
  <2> QED BY <1>2, <1>3, <2>1 DEF Frame
<1>12. CallsInv'
  <2>1. \A i \in 1..Len(stack) :
          stack'[i].at \in Leaving \/ stack[i].at \in Leaving => stack'[i] = stack[i]
    BY <1>3, <1>11 DEF Leaving
  <2>2. LeavingOnce'
    BY <1>2, <1>5, <1>11, <2>1 DEF IInv, CallsInv, LeavingOnce
  <2>3. RemovedLeaving'
    BY <1>2, <1>5, <1>11, <2>1 DEF IInv, CallsInv, RemovedLeaving
  <2>4. WaitingTimed' /\ MessagesChecked'
    BY <1>3, <1>11 DEF WaitingTimed, MessagesChecked
  <2> QED BY <2>2, <2>3, <2>4 DEF CallsInv
<1>13. LoopOnward'
  BY <1>2, <1>3, <1>5, <1>7 DEF IInv, LoopOnward, AnsweredAtEnd
<1> QED BY <1>6, <1>8, <1>9, <1>10, <1>12, <1>13 DEF IInv

(***************************************************************************)
(* The message of a request is read: its call is the one to answer it.     *)
(***************************************************************************)
LEMMA ReadMessageInv ==
  ASSUME IInv, NEW r \in Requests, ReadMessage(r)
  PROVE  IInv'
<1>1. /\ At("check") /\ transfer[r] = "done"
      /\ transfer' = [transfer EXCEPT ![r] = "removed"]
      /\ stack' = Append(stack, Frame("remove", r))
      /\ UNCHANGED <<running, started, sockets, timer, completed, loop, fault>>
  BY DEF ReadMessage
<1>2. /\ TypeOK /\ stack \in Seq(Frames) /\ stack # <<>> /\ Len(stack) \in Nat
      /\ Len(stack) > 0 /\ stack[Len(stack)].at = "check" /\ loop # "ended"
      /\ transfer \in [Requests -> Stages] /\ completed \in [Requests -> 0..1]
  BY <1>1, InACall
<1> DEFINE call == Frame("remove", r)
<1>3. call \in Frames /\ call.at = "remove" /\ call.of = r
  BY DEF Frame, Frames, Places
<1>4. stack' = Append(stack, call)
  BY <1>1
<1> HIDE DEF call
<1>5. /\ stack' \in Seq(Frames) /\ Len(stack') = Len(stack) + 1
      /\ \A i \in 1..Len(stack) : stack'[i] = stack[i]
      /\ stack'[Len(stack) + 1].at = "remove" /\ stack'[Len(stack) + 1].of = r
  BY <1>2, <1>3, <1>4, AppendProperties
<1>6. \A q \in Requests : transfer'[q] = IF q = r THEN "removed" ELSE transfer[q]
  BY <1>1, <1>2
<1>7. completed[r] = 0
  BY <1>1, <1>2 DEF IInv, AnsweredRemoved
<1>8. TypeOK'
  <2>1. stack' \in Seq([at : Places, of : Requests \cup {TIMEOUT}])
    BY <1>5, Zenon DEF Frames
  <2>2. transfer' \in [Requests -> Stages]
    BY <1>1, <1>2 DEF Stages
  <2> QED BY <1>1, <1>2, <2>1, <2>2 DEF TypeOK
<1>9. Unanswered' = Unanswered
  BY <1>1, <1>6 DEF Unanswered
<1>10. StartedCounts'
  BY <1>1, <1>9, CountKept DEF IInv
<1>11. SocketsOpen' /\ AnsweredRemoved'
  BY <1>1, <1>6 DEF IInv, SocketsOpen, AnsweredRemoved
<1>12. CallsInv'
  <2>1. \A i \in 1..Len(stack) : stack[i].at \in Leaving => stack[i].of # r
    BY <1>1 DEF IInv, CallsInv, LeavingOnce
  <2>2. LeavingOnce'
    <3>1. \A i \in 1..Len(stack') : i \in 1..Len(stack) \/ i = Len(stack) + 1
      BY <1>2, <1>5
    <3>2. \A i \in 1..Len(stack') : stack'[i].at \in Leaving =>
            /\ stack'[i].of \in Requests
            /\ transfer'[stack'[i].of] = "removed" /\ completed'[stack'[i].of] = 0
      BY <1>1, <1>5, <1>6, <1>7, <3>1 DEF IInv, CallsInv, LeavingOnce
    <3>3. \A i, j \in 1..Len(stack') :
            stack'[i].at \in Leaving /\ stack'[j].at \in Leaving /\ stack'[i].of = stack'[j].of
              => i = j
      BY <1>5, <2>1, <3>1 DEF IInv, CallsInv, LeavingOnce
    <3> QED BY <3>2, <3>3 DEF LeavingOnce
  <2>3. RemovedLeaving'
    <3>1. \A i \in 1..Len(stack) : i \in 1..Len(stack')
      BY <1>2, <1>5
    <3>2. Len(stack) + 1 \in 1..Len(stack')
      BY <1>2, <1>5
    <3> QED BY <1>1, <1>5, <1>6, <3>1, <3>2 DEF IInv, CallsInv, RemovedLeaving, Leaving
  <2>4. Waiting' = Waiting
    BY <1>1, <1>6 DEF Waiting
  <2>5. WaitingTimed'
    <3>1. \A i \in 1..Len(stack) : i \in 1..Len(stack') /\ stack'[i] = stack[i]
      BY <1>2, <1>5
    <3> QED BY <1>1, <2>4, <3>1 DEF IInv, CallsInv, WaitingTimed
  <2>6. MessagesChecked'
    <3>1. Len(stack) \in 1..Len(stack') /\ stack'[Len(stack)].at = "check"
      BY <1>2, <1>5
    <3> QED BY <3>1 DEF MessagesChecked
  <2> QED BY <2>2, <2>3, <2>5, <2>6 DEF CallsInv
<1>13. LoopOnward'
  BY <1>1, <1>2, <1>6, <1>9 DEF IInv, LoopOnward, AnsweredAtEnd
<1> QED BY <1>8, <1>10, <1>11, <1>12, <1>13 DEF IInv

(***************************************************************************)
(* A request is answered: the count goes down with the requests that have  *)
(* no answer, and its call is over.                                        *)
(***************************************************************************)
LEMMA CompleteInv ==
  ASSUME IInv, Complete
  PROVE  IInv'
<1> DEFINE r == stack[Len(stack)].of
<1>1. /\ At("complete") /\ started' = started - 1
      /\ completed' = [completed EXCEPT ![r] = @ + 1]
      /\ stack' = Return
      /\ UNCHANGED <<running, transfer, sockets, timer, loop, fault>>
  BY DEF Complete
<1>2. /\ TypeOK /\ stack \in Seq(Frames) /\ stack # <<>> /\ Len(stack) \in Nat
      /\ Len(stack) > 0 /\ stack[Len(stack)].at = "complete" /\ loop # "ended"
      /\ transfer \in [Requests -> Stages] /\ completed \in [Requests -> 0..1]
  BY <1>1, InACall
<1>3. r \in Requests /\ transfer[r] = "removed" /\ completed[r] = 0
  BY <1>2 DEF IInv, CallsInv, LeavingOnce, Leaving
<1>4. \A i \in 1..(Len(stack) - 1) : stack[i].at \in Leaving => stack[i].of # r
  <2>1. \A i \in 1..(Len(stack) - 1) : i \in 1..Len(stack) /\ i # Len(stack)
    BY <1>2
  <2>2. Len(stack) \in 1..Len(stack) /\ stack[Len(stack)].at \in Leaving
    BY <1>2 DEF Leaving
  <2> QED BY <2>1, <2>2 DEF IInv, CallsInv, LeavingOnce
<1>5. /\ stack' \in Seq(Frames) /\ Len(stack') = Len(stack) - 1
      /\ \A i \in 1..(Len(stack) - 1) : stack'[i] = stack[i]
  BY <1>1, <1>2, ReturnIs
<1> HIDE DEF r
<1>6. \A q \in Requests : completed'[q] = IF q = r THEN 1 ELSE completed[q]
  BY <1>1, <1>2, <1>3
<1>7. Unanswered' = Unanswered \ {r} /\ r \in Unanswered
  BY <1>1, <1>3, <1>6 DEF Unanswered
<1>8. /\ Cardinality(Unanswered') = Cardinality(Unanswered) - 1
      /\ Cardinality(Unanswered') \in Nat
  <2>1. IsFiniteSet(Unanswered)
    BY UnansweredFinite
  <2>2. /\ IsFiniteSet(Unanswered \ {r})
        /\ Cardinality(Unanswered \ {r}) = Cardinality(Unanswered) - 1
    BY <1>7, <2>1, FS_RemoveElement
  <2>3. Cardinality(Unanswered \ {r}) \in Nat
    BY <2>2, FS_CardinalityType
  <2> QED BY <1>7, <2>2, <2>3
<1>9. StartedCounts' /\ started' \in Nat
  BY <1>1, <1>8 DEF IInv, StartedCounts
<1>10. TypeOK'
  <2>1. stack' \in Seq([at : Places, of : Requests \cup {TIMEOUT}])
    BY <1>5, Zenon DEF Frames
  <2>2. completed' \in [Requests -> 0..1]
    <3>1. completed[r] + 1 \in 0..1
      BY <1>3
    <3> QED BY <1>1, <1>2, <1>3, <3>1
  <2>3. /\ running' \in Nat /\ transfer' \in [Requests -> Stages]
        /\ sockets' \in SUBSET Requests /\ timer' \in BOOLEAN
        /\ loop' \in {"before", "in", "unloop", "ended"}
        /\ fault' \in {"none", "freed", "exit"}
    BY <1>1, <1>2 DEF TypeOK
  <2> QED BY <1>9, <2>1, <2>2, <2>3, Zenon DEF TypeOK
<1>11. SocketsOpen' /\ AnsweredRemoved'
  BY <1>1, <1>3, <1>6 DEF IInv, SocketsOpen, AnsweredRemoved
<1>12. CallsInv'
  <2>1. \A i \in 1..Len(stack') :
          i \in 1..(Len(stack) - 1) /\ i \in 1..Len(stack) /\ stack'[i] = stack[i]
    BY <1>2, <1>5
  <2>2. \A i \in 1..Len(stack) : i = Len(stack) \/ i \in 1..Len(stack')
    BY <1>2, <1>5
  <2>3. LeavingOnce'
    <3>1. \A i \in 1..Len(stack') : stack'[i].at \in Leaving =>
            /\ stack[i].at \in Leaving /\ stack[i].of = stack'[i].of
            /\ stack[i].of # r
      BY <1>4, <2>1
    <3>2. \A i \in 1..Len(stack') : stack'[i].at \in Leaving =>
            /\ stack'[i].of \in Requests
            /\ transfer[stack'[i].of] = "removed" /\ completed[stack'[i].of] = 0
      BY <2>1, <3>1 DEF IInv, CallsInv, LeavingOnce
    <3>3. \A i \in 1..Len(stack') : stack'[i].at \in Leaving =>
            /\ stack'[i].of \in Requests
            /\ transfer'[stack'[i].of] = "removed" /\ completed'[stack'[i].of] = 0
      BY <1>1, <1>6, <3>1, <3>2
    <3>4. \A i, j \in 1..Len(stack') :
            stack'[i].at \in Leaving /\ stack'[j].at \in Leaving
              /\ stack'[i].of = stack'[j].of => i = j
      BY <2>1, <3>1 DEF IInv, CallsInv, LeavingOnce
    <3> QED BY <3>3, <3>4 DEF LeavingOnce
  <2>4. RemovedLeaving'
    <3>1. \A q \in Requests : transfer'[q] = "removed" /\ completed'[q] = 0 =>
            q # r /\ transfer[q] = "removed" /\ completed[q] = 0
      BY <1>1, <1>6
    <3>2. stack[Len(stack)].of = r
      BY DEF r
    <3> QED BY <2>1, <2>2, <3>1, <3>2 DEF IInv, CallsInv, RemovedLeaving
  <2>5. \A i \in 1..Len(stack) : stack[i].at # "complete" =>
          i \in 1..Len(stack') /\ stack'[i] = stack[i]
    BY <1>2, <2>1, <2>2
  <2>6. WaitingTimed'
    <3>1. Waiting' = Waiting
      BY <1>1 DEF Waiting
    <3> QED BY <1>1, <2>5, <3>1 DEF IInv, CallsInv, WaitingTimed
  <2>7. MessagesChecked'
    BY <1>1, <2>5 DEF IInv, CallsInv, MessagesChecked
  <2> QED BY <2>3, <2>4, <2>6, <2>7 DEF CallsInv
<1>13. LoopOnward'
  BY <1>1, <1>2, <1>7 DEF IInv, LoopOnward, AnsweredAtEnd
<1> QED BY <1>9, <1>10, <1>11, <1>12, <1>13 DEF IInv

(***************************************************************************)
(* No message is left: the check is over, and the loop is told to end only *)
(* when no request is without an answer.                                   *)
(***************************************************************************)
LEMMA CheckEndsInv ==
  ASSUME IInv, CheckEnds
  PROVE  IInv'
<1>1. /\ At("check") /\ \A r \in Requests : transfer[r] # "done"
      /\ stack' = Return
      /\ loop' = IF loop = "in" /\ running = 0 /\ started = 0 THEN "unloop" ELSE loop
      /\ UNCHANGED <<running, started, transfer, sockets, timer, completed, fault>>
  BY DEF CheckEnds
<1>2. /\ TypeOK /\ stack \in Seq(Frames) /\ stack # <<>> /\ Len(stack) \in Nat
      /\ Len(stack) > 0 /\ stack[Len(stack)].at = "check" /\ loop # "ended"
  BY <1>1, InACall
<1>3. /\ stack' \in Seq(Frames) /\ Len(stack') = Len(stack) - 1
      /\ \A i \in 1..(Len(stack) - 1) : stack'[i] = stack[i]
  BY <1>1, <1>2, ReturnIs
<1>4. Unanswered' = Unanswered
  BY <1>1 DEF Unanswered
<1>5. TypeOK'
  <2>1. stack' \in Seq([at : Places, of : Requests \cup {TIMEOUT}])
    BY <1>3, Zenon DEF Frames
  <2>2. loop' \in {"before", "in", "unloop", "ended"}
    BY <1>1, <1>2 DEF TypeOK
  <2>3. /\ running' \in Nat /\ started' \in Nat /\ transfer' \in [Requests -> Stages]
        /\ sockets' \in SUBSET Requests /\ timer' \in BOOLEAN
        /\ completed' \in [Requests -> 0..1] /\ fault' \in {"none", "freed", "exit"}
    BY <1>1, <1>2 DEF TypeOK
  <2> QED BY <2>1, <2>2, <2>3, Zenon DEF TypeOK
<1>6. StartedCounts' /\ SocketsOpen' /\ AnsweredRemoved'
  BY <1>1, <1>4 DEF IInv, StartedCounts, SocketsOpen, AnsweredRemoved
<1>7. CallsInv'
  <2>1. \A i \in 1..Len(stack') : i \in 1..Len(stack) /\ stack'[i] = stack[i]
    BY <1>2, <1>3
  <2>2. \A i \in 1..Len(stack) : stack[i].at # "check" =>
          i \in 1..Len(stack') /\ stack'[i] = stack[i]
    BY <1>2, <1>3
  <2>3. LeavingOnce'
    BY <1>1, <2>1 DEF IInv, CallsInv, LeavingOnce
  <2>4. RemovedLeaving'
    BY <1>1, <2>2 DEF IInv, CallsInv, RemovedLeaving, Leaving
  <2>5. WaitingTimed'
    <3>1. Waiting' = Waiting
      BY <1>1 DEF Waiting
    <3> QED BY <1>1, <2>2, <3>1 DEF IInv, CallsInv, WaitingTimed
  <2>6. MessagesChecked'
    BY <1>1 DEF MessagesChecked
  <2> QED BY <2>3, <2>4, <2>5, <2>6 DEF CallsInv
<1>8. LoopOnward'
  <2>1. loop' = "unloop" => Unanswered = {}
    <3>1. CASE started = 0
      BY <3>1, UnansweredFinite, FS_EmptySet DEF IInv, StartedCounts
    <3>2. CASE started # 0
      BY <1>1, <3>2 DEF IInv, LoopOnward
    <3> QED BY <3>1, <3>2
  <2>2. loop' # "ended" /\ (loop' = "before" <=> loop = "before")
    BY <1>1, <1>2
  <2> QED BY <1>1, <1>4, <2>1, <2>2 DEF IInv, LoopOnward, AnsweredAtEnd
<1> QED BY <1>5, <1>6, <1>7, <1>8 DEF IInv

-----------------------------------------------------------------------------
(* The theorems.                                                           *)

(***************************************************************************)
(* Every step keeps the invariant.                                         *)
(***************************************************************************)
LEMMA NextInv == IInv /\ [Next]_vars => IInv'
<1> SUFFICES ASSUME IInv, [Next]_vars PROVE IInv'
  OBVIOUS
<1>1. CASE UNCHANGED vars
  <2>1. TypeOK' /\ StartedCounts' /\ SocketsOpen' /\ AnsweredRemoved' /\ LoopOnward'
    BY <1>1 DEF vars, IInv, TypeOK, StartedCounts, Unanswered, SocketsOpen,
                AnsweredRemoved, LoopOnward, AnsweredAtEnd
  <2>2. CallsInv'
    BY <1>1, KeepsCalls DEF vars, IInv
  <2> QED BY <2>1, <2>2 DEF IInv
<1>2. CASE \E r \in Requests : AddRequest(r) \/ AddRefused(r)
  BY <1>2, AddRequestInv, AddRefusedInv
<1>3. CASE EvLoop
  BY <1>3, EvLoopInv
<1>4. CASE \E of \in Requests \cup {TIMEOUT} : Dispatch(of)
  BY <1>4, DispatchInv
<1>5. CASE EvLoopReturns
  BY <1>5, EvLoopReturnsInv
<1>6. CASE AddReturns \/ Perform \/ ActionReturns
  BY <1>6, AddReturnsInv, PerformInv, ActionReturnsInv
<1>7. CASE CallAgain \/ ActionFails \/ CheckStatus
  BY <1>7, ResultInv
<1>8. CASE \E r \in Requests : ReadMessage(r)
  BY <1>8, ReadMessageInv
<1>9. CASE RemoveReturns \/ Complete \/ CheckEnds
  BY <1>9, RemoveReturnsInv, CompleteInv, CheckEndsInv
<1> QED BY <1>1, <1>2, <1>3, <1>4, <1>5, <1>6, <1>7, <1>8, <1>9 DEF Next, Calls

\* All states satisfy the invariant.
LEMMA SpecInv == Spec => []IInv
BY InitInv, NextInv, PTL DEF Spec

(***************************************************************************)
(* No request is answered twice (the 0..1 of completed), and no count is   *)
(* ever negative.                                                          *)
(***************************************************************************)
THEOREM TypeCorrect == Spec => []TypeOK
<1>1. IInv => TypeOK
  BY DEF IInv
<1> QED BY <1>1, SpecInv, PTL

(***************************************************************************)
(* started counts the requests that were added and have no answer, for any *)
(* number of requests, however their checks nest.                          *)
(***************************************************************************)
THEOREM StartedRight == Spec => []StartedCounts
<1>1. IInv => StartedCounts
  BY DEF IInv
<1> QED BY <1>1, SpecInv, PTL

(***************************************************************************)
(* When the loop has returned, every request that curl took has an answer. *)
(***************************************************************************)
THEOREM NoneLeft == Spec => []AnsweredAtEnd
<1>1. IInv => AnsweredAtEnd
  BY DEF IInv, LoopOnward
<1> QED BY <1>1, SpecInv, PTL
=============================================================================
