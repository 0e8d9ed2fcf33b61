--------------------------- MODULE HttpProcessor ---------------------------
(***************************************************************************)
(* get/test.c: the load generator, which has curl make some requests and   *)
(* waits in a libev loop for their sockets and curl's timeout.             *)
(*                                                                         *)
(* curl and libev are external.  A call of curl (add_handle, socket_action,*)
(* remove_handle) ends with its timer callback, and the timer callback     *)
(* calls curl again when the timeout is 0: calls nest, so the calls in     *)
(* progress are a stack.  curl keeps a socket or a timeout for each        *)
(* transfer and writes *running before it calls back.                      *)
(***************************************************************************)
EXTENDS Integers, FiniteSets, Sequences, SequencesExt

CONSTANTS
  Requests,     \* what main asks for
  TIMEOUT,      \* CURL_SOCKET_TIMEOUT, in place of a request's socket
  MaxDepth      \* bound: calls in progress when a timeout of 0 is reported

ASSUME RequestsAssumption == IsFiniteSet(Requests) /\ TIMEOUT \notin Requests
ASSUME MaxDepthAssumption == MaxDepth \in Nat

VARIABLES
  running, started,   \* of the HttpProcessor
  transfer,     \* what curl has made of each request
  sockets,      \* the requests that have a SockInfo, watched by the loop
  timer,        \* whether timer_events is active
  completed,    \* how often complete_cb was called for each
  stack,        \* the calls in progress, the outermost first
  loop,         \* where ev_loop is
  fault         \* "freed" once a freed SockInfo is read, "exit" if all was ended

vars == <<running, started, transfer, sockets, timer, completed, stack, loop, fault>>

Frame(at, of) == [at |-> at, of |-> of]

\* http_processor_new, and main before it adds a request.
Init ==
  /\ running = 0 /\ started = 0
  /\ transfer = [r \in Requests |-> "none"]
  /\ sockets = {}
  /\ timer = FALSE
  /\ completed = [r \in Requests |-> 0]
  /\ stack = <<>>
  /\ loop = "before"
  /\ fault = "none"

Waiting == {r \in Requests : transfer[r] = "waiting"}
Going == {r \in Requests : transfer[r] \in {"waiting", "open"}}

At(at) == fault = "none" /\ stack # <<>> /\ stack[Len(stack)].at = at
Return == SubSeq(stack, 1, Len(stack) - 1)
Becomes(at) == Append(Return, Frame(at, stack[Len(stack)].of))

-----------------------------------------------------------------------------
(* The callbacks of curl.                                                  *)

\* http_processor_timer_cb: a timeout of 0 is handled at once, by a call; for
\* any other a timer is started, that repeats.  So is it for -1, with which curl
\* takes its timeout back, and the repeat is negative: libev runs the timer again
\* and again, or its assertion ends the program.
TimerCb(next) ==
  \/ /\ Len(next) < MaxDepth /\ Going # {}
     /\ stack' = Append(next, Frame("act", TIMEOUT))
     /\ UNCHANGED <<timer, fault>>
  \/ stack' = next /\ timer' = TRUE /\ UNCHANGED fault
  \/ Waiting = {} /\ stack' = next /\ fault' = "exit" /\ UNCHANGED timer

\* The end of a call of curl, which may report a timeout and does so if a
\* transfer waits for one.
UpdateTimer(next) ==
  \/ TimerCb(next)
  \/ Waiting = {} /\ stack' = next /\ UNCHANGED <<timer, fault>>

\* http_processor_socket_cb of the sockets that curl opened and closed.
SocketCb(opened, closed) == (sockets \cup opened) \ closed

-----------------------------------------------------------------------------
(* What main does.                                                         *)

\* If started were counted when curl has the request already.
AddRequestUncounted(r) ==
  /\ loop = "before" /\ stack = <<>> /\ fault = "none"
  /\ transfer[r] = "none"
  /\ transfer' = [transfer EXCEPT ![r] = "waiting"]
  /\ stack' = <<Frame("add", r)>>
  /\ UNCHANGED <<running, started, sockets, timer, completed, loop, fault>>

\* http_processor_add_request: curl_multi_add_handle is called and not over.
AddRequest(r) ==
  /\ loop = "before" /\ stack = <<>> /\ fault = "none"
  /\ transfer[r] = "none"
  /\ started' = started + 1
  /\ transfer' = [transfer EXCEPT ![r] = "waiting"]
  /\ stack' = <<Frame("add", r)>>
  /\ UNCHANGED <<running, sockets, timer, completed, loop, fault>>

\* curl_multi_add_handle returns an error, which main does not look at.
AddRefused(r) ==
  /\ loop = "before" /\ stack = <<>> /\ fault = "none"
  /\ transfer[r] = "none"
  /\ started' = started + 1
  /\ transfer' = [transfer EXCEPT ![r] = "refused"]
  /\ UNCHANGED <<running, sockets, timer, completed, stack, loop, fault>>

AddReturns ==
  /\ At("add")
  /\ UpdateTimer(Return)
  /\ UNCHANGED <<running, started, transfer, sockets, completed, loop>>

\* http_processor_loop, once all requests are added.
EvLoop ==
  /\ loop = "before" /\ stack = <<>> /\ fault = "none"
  /\ \A r \in Requests : transfer[r] # "none"
  /\ loop' = "in"
  /\ UNCHANGED <<running, started, transfer, sockets, timer, completed, stack, fault>>

-----------------------------------------------------------------------------
(* The loop.                                                               *)

\* sock_info_io_cb or http_processor_timer_timeout_cb.
Dispatch(of) ==
  /\ loop = "in" /\ stack = <<>> /\ fault = "none"
  /\ of \in sockets \/ (of = TIMEOUT /\ timer)
  /\ stack' = <<Frame("act", of)>>
  /\ UNCHANGED <<running, started, transfer, sockets, timer, completed, loop, fault>>

\* ev_loop returns when it was told to, or when it watches nothing.
EvLoopReturns ==
  /\ stack = <<>> /\ fault = "none"
  /\ loop = "unloop" \/ (loop = "in" /\ sockets = {} /\ ~ timer)
  /\ loop' = "ended"
  /\ UNCHANGED <<running, started, transfer, sockets, timer, completed, stack, fault>>

-----------------------------------------------------------------------------
(* curl_multi_socket_action, and what its callers make of its result.      *)

\* Some transfers get on: they open their socket, or end.
Perform ==
  /\ At("act")
  /\ \E opened \in SUBSET Waiting : \E ended \in SUBSET (Going \ opened) :
       /\ transfer' = [r \in Requests |->
            IF r \in opened THEN "open" ELSE IF r \in ended THEN "done" ELSE transfer[r]]
       /\ sockets' = SocketCb(opened, ended)
  /\ running' = Cardinality(Going')
  /\ stack' = Becomes("acted")
  /\ UNCHANGED <<started, timer, completed, loop, fault>>

ActionReturns ==
  /\ At("acted")
  /\ UpdateTimer(Becomes("returned"))
  /\ UNCHANGED <<running, started, transfer, sockets, completed, loop>>

\* Both callers repeat the call on CURLM_CALL_MULTI_PERFORM; sock_info_io_cb
\* reads its SockInfo for that, which the call may have freed.
CallAgain ==
  /\ At("returned") /\ Going # {}
  /\ LET of == stack[Len(stack)].of
     IN  IF of \in sockets \cup {TIMEOUT}
           THEN stack' = Becomes("act") /\ UNCHANGED fault
           ELSE fault' = "freed" /\ UNCHANGED stack
  /\ UNCHANGED <<running, started, transfer, sockets, timer, completed, loop>>

\* http_processor_mcode_or_die: an error other than CURLM_BAD_SOCKET is the end
\* (on_error) in sock_info_io_cb; the timer's callback does not look at it.
ActionFails ==
  /\ At("returned")
  /\ stack[Len(stack)].of # TIMEOUT
  /\ fault' = "exit"
  /\ UNCHANGED <<running, started, transfer, sockets, timer, completed, stack, loop>>

CheckStatus ==
  /\ At("returned")
  /\ stack' = Becomes("check")
  /\ UNCHANGED <<running, started, transfer, sockets, timer, completed, loop, fault>>

-----------------------------------------------------------------------------
(* http_processor_check_http_request_status.                               *)

\* If the handle were left in curl, which has its message still.
ReadMessageKept(r) ==
  /\ At("check")
  /\ transfer[r] = "done"
  /\ stack' = Append(stack, Frame("remove", r))
  /\ UNCHANGED <<running, started, transfer, sockets, timer, completed, loop, fault>>

\* A message of curl is read; curl_multi_remove_handle is called and not over.
ReadMessage(r) ==
  /\ At("check")
  /\ transfer[r] = "done"
  /\ transfer' = [transfer EXCEPT ![r] = "removed"]
  /\ stack' = Append(stack, Frame("remove", r))
  /\ UNCHANGED <<running, started, sockets, timer, completed, loop, fault>>

RemoveReturns ==
  /\ At("remove")
  /\ UpdateTimer(Becomes("complete"))
  /\ UNCHANGED <<running, started, transfer, sockets, completed, loop>>

\* If the next message were left for the next check.
CompleteOne ==
  /\ At("complete")
  /\ started' = started - 1
  /\ completed' = [completed EXCEPT ![stack[Len(stack)].of] = @ + 1]
  /\ stack' = SubSeq(stack, 1, Len(stack) - 2)
  /\ UNCHANGED <<running, transfer, sockets, timer, loop, fault>>

Complete ==
  /\ At("complete")
  /\ started' = started - 1
  /\ completed' = [completed EXCEPT ![stack[Len(stack)].of] = @ + 1]
  /\ stack' = Return
  /\ UNCHANGED <<running, transfer, sockets, timer, loop, fault>>

\* If the status were not checked for the end of all transfers.
CheckEndsNever ==
  /\ At("check")
  /\ \A r \in Requests : transfer[r] # "done"
  /\ stack' = Return
  /\ UNCHANGED <<running, started, transfer, sockets, timer, completed, loop, fault>>

\* No message is left.  ev_unloop is forgotten when ev_loop begins.
CheckEnds ==
  /\ At("check")
  /\ \A r \in Requests : transfer[r] # "done"
  /\ stack' = Return
  /\ loop' = IF loop = "in" /\ running = 0 /\ started = 0 THEN "unloop" ELSE loop
  /\ UNCHANGED <<running, started, transfer, sockets, timer, completed, fault>>

-----------------------------------------------------------------------------

Calls ==
  \/ AddReturns
  \/ Perform \/ ActionReturns \/ CallAgain \/ ActionFails \/ CheckStatus
  \/ \E r \in Requests : ReadMessage(r)
  \/ RemoveReturns \/ Complete \/ CheckEnds

Next ==
  \/ \E r \in Requests : AddRequest(r) \/ AddRefused(r)
  \/ EvLoop
  \/ \E of \in Requests \cup {TIMEOUT} : Dispatch(of)
  \/ EvLoopReturns
  \/ Calls

\* The steps of the program, libev running it when the timer is due.
Runs ==
  \/ \E r \in Requests : AddRequest(r) \/ AddRefused(r)
  \/ EvLoop \/ Dispatch(TIMEOUT) \/ EvLoopReturns
  \/ Calls

\* The program runs; that a server answers and a transfer gets on is not assumed.
Fairness == WF_vars(Runs)

Spec == Init /\ [][Next]_vars /\ Fairness

-----------------------------------------------------------------------------
(* What must hold.                                                         *)

Stages == {"none", "refused", "waiting", "open", "done", "removed"}
Places == {"add", "act", "acted", "returned", "check", "remove", "complete"}

TypeOK ==
  /\ running \in Nat /\ started \in Nat
  /\ transfer \in [Requests -> Stages]
  /\ sockets \in SUBSET Requests
  /\ timer \in BOOLEAN
  /\ completed \in [Requests -> 0..1]
  /\ stack \in Seq([at : Places, of : Requests \cup {TIMEOUT}])
  /\ loop \in {"before", "in", "unloop", "ended"}
  /\ fault \in {"none", "freed", "exit"}

\* The requests that main added and has no answer to.
Unanswered == {r \in Requests : transfer[r] # "none" /\ completed[r] = 0}

\* However the calls nest, started counts the requests added and not answered
\* (hp->started of http_processor_add_request and of the check).
StartedCounts == started = Cardinality(Unanswered)

\* When ev_loop has returned, every request that curl took is answered, whoever
\* read its message and whether the loop was told to end or ran out of watchers.
AnsweredAtEnd ==
  loop = "ended" => \A r \in Requests : transfer[r] # "refused" => completed[r] = 1

\* If curl gets through every transfer the generator ends, although an ev_unloop
\* before ev_loop is lost and the timer goes on for ever, unless it fails.
Ends ==
  (\A r \in Requests : <>(transfer[r] \in {"done", "removed"}))
    => <>(loop = "ended" \/ fault # "none")
=============================================================================
