-------------------------- MODULE ServerSentEvents -------------------------
(***************************************************************************)
(* handleSSE (src/router/router.ts) at the end of the request pipeline: a  *)
(* route that is decorated with SSE returns an EventTarget.  A listener    *)
(* writes its events to the stream of the response, and a loop waits for   *)
(* an event named close.  Meanwhile the middlewares go on after next() and *)
(* may still give the request another response.  The stream is Hono's: it  *)
(* takes one event at a time, when the client reads, and swallows them     *)
(* once the client has left.                                               *)
(***************************************************************************)
EXTENDS RequestPipeline

CONSTANTS
    Streaming,  \* the setups whose route is decorated with SSE
    CloseAts,   \* which event is named close; 0 is none of them
    MaxEvents   \* bound on the events of one request

ASSUME StreamAssumption ==
    /\ Streaming \subseteq Setups
    /\ MaxEvents \in Nat /\ CloseAts \subseteq 0 .. MaxEvents

VARIABLES
    closeAt,      \* fixed from the start
    dispatched,   \* how many events the controller's target has dispatched
    listening,    \* whether handleSSE has attached its listener
    canContinue,  \* handleSSE's
    stream,       \* the stream: none, open, closing, closed
    writing,      \* the events whose write is pending
    written,      \* what the client has got
    client,       \* whether the client is still there
    before        \* history: the events before the method's promise settled

streamVars == <<closeAt, dispatched, listening, canContinue, stream, writing,
                written, client, before>>
allVars == <<vars, streamVars>>

IsStream == setup \in Streaming

SSEInit ==
    /\ Init
    /\ closeAt \in CloseAts /\ (~ IsStream => closeAt = 0)
    /\ dispatched = 0 /\ before = 0
    /\ listening = FALSE /\ canContinue = TRUE
    /\ stream = "none" /\ writing = <<>> /\ written = <<>>
    /\ client = "there"

-----------------------------------------------------------------------------
(* Mutant: the listener is attached after the first sleep of the loop.     *)
HandleSSELate ==
    /\ stream' = "open"
    /\ listening' = FALSE
    /\ before' = dispatched
    /\ UNCHANGED <<closeAt, dispatched, canContinue, writing, written, client>>

(* Up to the first await: the listener is attached at once.                *)
HandleSSE ==
    /\ stream' = "open"
    /\ listening' = TRUE
    /\ before' = dispatched
    /\ UNCHANGED <<closeAt, dispatched, canContinue, writing, written, client>>

(* A step of the pipeline; that which sends the response of the route is   *)
(* where a stream begins.                                                  *)
Responds == status[Route] = "running" /\ status'[Route] = "returned"

Pipeline ==
    /\ Next
    /\ \/ IsStream /\ Responds /\ HandleSSE
       \/ ~ (IsStream /\ Responds) /\ UNCHANGED streamVars

(* The target may dispatch as soon as the method runs.  An event that      *)
(* comes before the listener is lost, one after the end swallowed.         *)
DispatchEvent ==
    /\ IsStream /\ calls > 0 /\ dispatched < MaxEvents
    /\ dispatched' = dispatched + 1
    /\ writing' = IF listening /\ stream = "open"
                  THEN Append(writing, dispatched') ELSE writing
    /\ UNCHANGED <<vars, closeAt, listening, canContinue, stream, written,
                   client, before>>

(* Only the response that is sent is read.                                 *)
IsRead == sent # None /\ sent.kind = "route"

(* Mutant: the listener looks at the name of the event before it.          *)
IsCloseOff(e) == e = closeAt + 1

IsClose(e) == e = closeAt

(* The write of the oldest event ends, and its listener goes on.           *)
Written ==
    /\ writing # <<>> /\ IsRead
    /\ writing' = Tail(writing)
    /\ written' = IF client = "there" THEN Append(written, Head(writing))
                  ELSE written
    /\ canContinue' = (canContinue /\ ~ IsClose(Head(writing)))
    /\ UNCHANGED <<vars, closeAt, dispatched, listening, stream, client, before>>

(* The loop looks at canContinue every millisecond.                        *)
EndLoop ==
    /\ stream = "open" /\ ~ canContinue
    /\ stream' = "closing"
    /\ UNCHANGED <<vars, closeAt, dispatched, listening, canContinue, writing,
                   written, client, before>>

(* stream.close() waits for the pending writes.                            *)
CloseStream ==
    /\ stream = "closing" /\ writing = <<>>
    /\ stream' = "closed"
    /\ UNCHANGED <<vars, closeAt, dispatched, listening, canContinue, writing,
                   written, client, before>>

Leave ==
    /\ IsStream /\ IsRead /\ client = "there"
    /\ client' = "left"
    /\ UNCHANGED <<vars, closeAt, dispatched, listening, canContinue, stream,
                   writing, written, before>>

SSENext ==
    Pipeline \/ DispatchEvent \/ Written \/ EndLoop \/ CloseStream \/ Leave

(* The client reads or leaves, and the loop's sleep ends.                  *)
SSESpec ==
    /\ SSEInit /\ [][SSENext]_allVars
    /\ Fairness
    /\ WF_allVars(Written) /\ WF_allVars(EndLoop) /\ WF_allVars(CloseStream)

-----------------------------------------------------------------------------
(* While the stream is open, and as long as the client is there, it has or *)
(* will get, in their order and once, exactly the events dispatched since  *)
(* the method's promise settled, whatever the middlewares do after next(). *)
EventsInOrder ==
    (stream = "open" /\ client = "there") =>
        written \o writing = [i \in 1 .. dispatched - before |-> before + i]

(* An event named close that the listener hears ends the loop, also when   *)
(* the client has left, unless a middleware took the response away: then   *)
(* nobody reads the stream and the loop never ends.                        *)
CloseEndsTheStream ==
    (stream = "open" /\ closeAt > before /\ dispatched >= closeAt)
      ~> (stream = "closed" \/ (sent # None /\ sent.kind # "route"))

=============================================================================
