---------------------------- MODULE EventStreams ----------------------------
(***************************************************************************)
(* A follower of one job's durable events: the Python SDK (sync and async) *)
(* or the console over Server-Sent Events, the SDK over a WebSocket, or    *)
(* the SDK's wait(), which polls the job.                                  *)
(* The server re-reads the event table and then the job's row, in two      *)
(* transactions; the job moves on between them, connections break, and the *)
(* follower reconnects with the last sequence number it delivered.         *)
(*                                                                         *)
(* An event is its kind; its sequence number is its place in "elog".  A    *)
(* job's status and the event that says so are committed together.         *)
(***************************************************************************)
EXTENDS Integers, Sequences

CONSTANTS
    Starts,         \* the "after" a caller may start from
    MaxEvents,      \* bound: events of the job
    MaxReconnects,  \* the SDK's reconnect budget (6)
    MaxDrops        \* bound: broken connections

ASSUME StreamsAssumption ==
    /\ MaxEvents \in Nat \ {0, 1} /\ MaxReconnects \in Nat /\ MaxDrops \in Nat
    /\ Starts \subseteq 0..MaxEvents

VARIABLES
    via,        \* how the job is followed, never changes
    elog,       \* the events ever stored
    jobState,   \* "live", "ended" (status done, failed or cancelled) or "gone"
    conn,       \* the server's loop for the open connection
    wire,       \* frames sent and not yet received
    follower,   \* the client's loop
    drops       \* connections broken so far

streamVars == <<via, elog, jobState, conn, wire, follower, drops>>

NoConn == [pc |-> "none", cursor |-> 0, upto |-> 0, empty |-> FALSE]

\* Frames: an event's number, or how the server ends: with an error frame, the
\* end of the response, or close code 1000.
ErrorFrame == -1
EndOfFile == -2
Close1000 == -3

StreamsTypeOK ==
    /\ via \in {"sse", "console", "ws", "wait"}
    /\ elog \in Seq({"step", "end"}) /\ Len(elog) <= MaxEvents
    /\ jobState \in {"live", "ended", "gone"}
    /\ conn \in [pc: {"none", "read", "send", "recheck", "done"}, cursor: 0..MaxEvents,
                 upto: 0..MaxEvents, empty: BOOLEAN]
    /\ wire \in Seq(Close1000..MaxEvents)
    /\ follower \in [pc: {"connect", "reading", "returned", "raised"}, cursor: 0..MaxEvents, after: Starts,
                     got: Seq(1..MaxEvents), budget: 0..MaxReconnects, refreshed: BOOLEAN]
    /\ drops \in 0..MaxDrops

StreamsInit ==
    /\ via \in {"sse", "console", "ws", "wait"}
    /\ elog = <<"step">>
    /\ jobState = "live"
    /\ conn = NoConn
    /\ wire = <<>>
    /\ \E after \in Starts :
        follower = [pc |-> "connect", cursor |-> after, after |-> after, got |-> <<>>,
                    budget |-> MaxReconnects, refreshed |-> FALSE]
    /\ drops = 0

-----------------------------------------------------------------------------
(* The job.                                                                *)

AppendEvent ==
    /\ jobState = "live"
    /\ Len(elog) < MaxEvents - 1
    /\ elog' = Append(elog, "step")
    /\ UNCHANGED <<via, jobState, conn, wire, follower, drops>>

EndJob ==
    /\ jobState = "live"
    /\ elog' = Append(elog, "end")
    /\ jobState' = "ended"
    /\ UNCHANGED <<via, conn, wire, follower, drops>>

\* PostgreSQL's request_cancel repeats the status of a job that has ended.
CancelEnded ==
    /\ jobState = "ended"
    /\ Len(elog) < MaxEvents
    /\ elog' = Append(elog, "end")
    /\ UNCHANGED <<via, jobState, conn, wire, follower, drops>>

\* Retention or the account's deletion removes the row and its events.
RemoveJob ==
    /\ jobState # "gone"
    /\ jobState' = "gone"
    /\ UNCHANGED <<via, elog, conn, wire, follower, drops>>

-----------------------------------------------------------------------------
(* The server's loop.                                                      *)

Stored == IF jobState = "gone" THEN 0 ELSE Len(elog)

\* jobs.events(job_id, cursor)
ReadEvents ==
    /\ conn.pc = "read"
    /\ conn' = [conn EXCEPT !.pc = "send", !.empty = (Stored <= conn.cursor),
                            !.upto = IF Stored > conn.cursor THEN Stored ELSE conn.cursor]
    /\ UNCHANGED <<via, elog, jobState, wire, follower, drops>>

SendEvent ==
    /\ conn.pc = "send" /\ conn.cursor < conn.upto
    /\ wire' = Append(wire, conn.cursor + 1)
    /\ conn' = [conn EXCEPT !.cursor = @ + 1]
    /\ UNCHANGED <<via, elog, jobState, follower, drops>>

EndWith(frame) ==
    /\ wire' = Append(wire, frame)
    /\ conn' = [conn EXCEPT !.pc = "done"]

GoOn(pc) ==
    /\ conn' = [conn EXCEPT !.pc = pc]
    /\ UNCHANGED wire

\* Mutant: the SSE loop ends on what it read before it saw the status.
SseStatusOnce ==
    CASE jobState = "gone"  -> EndWith(ErrorFrame)
      [] jobState = "ended" -> EndWith(EndOfFile)
      [] OTHER              -> GoOn("read")

\* job_event_stream: a missing job is an error frame; an ended one is read again.
SseStatus ==
    CASE jobState = "gone"  -> EndWith(ErrorFrame)
      [] jobState = "ended" -> GoOn("recheck")
      [] OTHER              -> GoOn("read")

\* Mutant: the loop waits for events and never looks at the job.
WsStatusForever == GoOn("read")

\* websocket_job_events: "events" is what was read before the status.  A row
\* that is gone is not an end.
WsStatus ==
    IF jobState = "ended" /\ conn.empty THEN EndWith(Close1000) ELSE GoOn("read")

LookAtJob ==
    /\ conn.pc = "send" /\ conn.cursor = conn.upto
    /\ IF via = "ws" THEN WsStatus ELSE SseStatus
    /\ UNCHANGED <<via, elog, jobState, follower, drops>>

\* "and not jobs.events(job_id, cursor)"
Recheck ==
    /\ conn.pc = "recheck"
    /\ IF Stored <= conn.cursor THEN EndWith(EndOfFile) ELSE GoOn("read")
    /\ UNCHANGED <<via, elog, jobState, follower, drops>>

-----------------------------------------------------------------------------
(* The follower.                                                           *)

Leaves(how) == follower' = [follower EXCEPT !.pc = how]

Opened ==
    /\ follower.pc = "connect"
    /\ IF jobState = "gone"
       THEN Leaves("raised") /\ UNCHANGED <<conn, wire>>
       ELSE /\ Leaves("reading")
            /\ conn' = [NoConn EXCEPT !.pc = "read", !.cursor = follower.cursor]
            /\ wire' = <<>>
    /\ UNCHANGED <<via, elog, jobState, drops>>

\* stream_job_events: a job that is gone is a 404.
OpenSse == via \in {"sse", "console"} /\ Opened

\* The handshake of websocket_job_events: a job that is gone is a 4404.
OpenWs == via = "ws" /\ Opened

\* 401: the SDK refreshes its credential, once for each request and outside the
\* reconnect budget; a second refusal is an error.  The console gives up at once.
\* Any other refusal of a stream (429, 5xx) ends the SDK's iterator, too; the
\* console, a poll and a WebSocket's handshake try again (Disconnect).
RefusedHttp ==
    /\ follower.pc = "connect" /\ via # "ws"
    /\ \/ /\ via # "console" /\ ~follower.refreshed
          /\ follower' = [follower EXCEPT !.refreshed = TRUE]
       \/ /\ via # "wait" \/ follower.refreshed
          /\ Leaves("raised")
    /\ UNCHANGED <<via, elog, jobState, conn, wire, drops>>

\* 4401: once for the WebSocket's whole life.
RefusedWs ==
    /\ follower.pc = "connect" /\ via = "ws"
    /\ IF follower.refreshed THEN Leaves("raised")
       ELSE follower' = [follower EXCEPT !.refreshed = TRUE]
    /\ UNCHANGED <<via, elog, jobState, conn, wire, drops>>

\* Mutant: the follower counts frames and not the numbers in them.
DeliveredBlind(n) ==
    follower' = [follower EXCEPT !.cursor = 1, !.got = Append(@, n),
                                 !.pc = IF elog[n] = "end" THEN "returned" ELSE @]

\* An event is handed to the caller and moves the cursor; a terminal one ends it.
Delivered(n) ==
    follower' = [follower EXCEPT !.cursor = IF n > @ THEN n ELSE @, !.got = Append(@, n),
                                 !.pc = IF elog[n] = "end" THEN "returned" ELSE @]

FollowSse ==
    LET frame == Head(wire)
    IN  /\ via = "sse" /\ follower.pc = "reading" /\ wire # <<>>
        /\ IF frame = ErrorFrame THEN Leaves("raised")
           ELSE IF frame = EndOfFile THEN Leaves("returned")
           ELSE Delivered(frame)
        /\ wire' = Tail(wire)
        /\ UNCHANGED <<via, elog, jobState, conn, drops>>

\* The console shows an error frame as an event and stops at the end of file.
FollowConsole ==
    LET frame == Head(wire)
    IN  /\ via = "console" /\ follower.pc = "reading" /\ wire # <<>>
        /\ IF frame \in {ErrorFrame, EndOfFile} THEN Leaves("returned") ELSE Delivered(frame)
        /\ wire' = Tail(wire)
        /\ UNCHANGED <<via, elog, jobState, conn, drops>>

FollowWs ==
    LET frame == Head(wire)
    IN  /\ via = "ws" /\ follower.pc = "reading" /\ wire # <<>>
        /\ IF frame = Close1000 THEN Leaves("returned")
           ELSE IF frame <= follower.cursor THEN UNCHANGED follower
           ELSE Delivered(frame)
        /\ wire' = Tail(wire)
        /\ UNCHANGED <<via, elog, jobState, conn, drops>>

\* The connection breaks or cannot be made; frames in flight are lost.  The console retries for
\* as long as it is open, the SDK until its budget is spent.
Disconnect ==
    /\ follower.pc \in {"connect", "reading"} /\ drops < MaxDrops
    /\ drops' = drops + 1
    /\ conn' = NoConn /\ wire' = <<>>
    /\ CASE via = "console"     -> Leaves("connect")
         [] follower.budget = 0 -> Leaves("raised")
         [] OTHER -> follower' = [follower EXCEPT !.pc = "connect", !.budget = @ - 1,
                                                  !.refreshed = @ /\ via = "ws"]
    /\ UNCHANGED <<via, elog, jobState>>

\* wait(): GET the job until it is terminal.  Each request has its own budget and
\* its own refresh.
PollJob ==
    /\ via = "wait" /\ follower.pc = "connect"
    /\ follower' = [follower EXCEPT !.budget = MaxReconnects, !.refreshed = FALSE,
                       !.pc = CASE jobState = "gone"  -> "raised"
                                [] jobState = "ended" -> "returned"
                                [] OTHER              -> @]
    /\ UNCHANGED <<via, elog, jobState, conn, wire, drops>>

ServerLoop == ReadEvents \/ SendEvent \/ LookAtJob \/ Recheck
FollowerLoop == OpenSse \/ OpenWs \/ FollowSse \/ FollowConsole \/ FollowWs \/ PollJob

StreamsNext ==
    \/ AppendEvent \/ EndJob \/ CancelEnded \/ RemoveJob
    \/ ServerLoop \/ FollowerLoop \/ RefusedHttp \/ RefusedWs \/ Disconnect

\* Both loops run on event loops or threads of their own and only ever sleep
\* for a fixed time; a connection may break, but not for ever.
StreamsFairness == WF_streamVars(ServerLoop) /\ WF_streamVars(FollowerLoop)

StreamsSpec == StreamsInit /\ [][StreamsNext]_streamVars /\ StreamsFairness

-----------------------------------------------------------------------------
(* stream_events and stream_ws promise that "no event is repeated or       *)
(* skipped", over broken connections and whatever is stored meanwhile; and *)
(* a Server-Sent stream that ends without an error has delivered the       *)
(* job's terminal event, or started after it, unless the job has been      *)
(* removed (between the status and the second read of the events, that     *)
(* too looks like an end).                                                 *)
NothingLostOrRepeated ==
    /\ \A i \in DOMAIN follower.got : follower.got[i] = follower.after + i
    /\ follower.pc = "returned" /\ via \in {"sse", "console"} /\ jobState # "gone" =>
        \E n \in DOMAIN elog : n <= follower.cursor /\ elog[n] = "end"

\* A follower that reconnects reads every event of its job in order and once,
\* and a frame is of a kind its protocol has (job_events and its WebSocket twin,
\* and the SDK's readers).
StreamsHold == StreamsTypeOK /\ NothingLostOrRepeated

(* Whoever follows a job comes to an end once the job has ended or is      *)
(* gone.  A WebSocket of a removed job is the exception: the server finds  *)
(* no row and polls on, so only its client's dropping it ends the wait.    *)
FollowersEnd ==
    (jobState = "ended" \/ (jobState = "gone" /\ via # "ws"))
        ~> (follower.pc \in {"returned", "raised"} \/ (jobState = "gone" /\ via = "ws"))
=============================================================================
