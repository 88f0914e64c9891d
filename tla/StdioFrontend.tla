---------------------------- MODULE StdioFrontend ----------------------------
(* The App's `codex app-server` over stdio (desktop/stdioFrontend.ts): its    *)
(* lines, relayed to the gateway's socket and back, each way held up while    *)
(* the other side is slow, and over once the gateway goes.                    *)
(*                                                                            *)
(* The lines of a direction are numbered and do not overtake each other: a    *)
(* queue holds those read and not taken.                                      *)
EXTENDS Naturals

CONSTANTS
    MaxLines,  \* lines each side writes
    High, Low, \* INPUT_ and OUTPUT_HIGH_WATER and _LOW_WATER
    Hasty      \* stdin can end while the socket is being opened

ASSUME FrontendAssumption ==
    MaxLines \in Nat /\ High \in Nat /\ Low \in Nat /\ Low < High /\ Hasty \in BOOLEAN

VARIABLES
    run,       \* run(): none (not started), connecting, opening (a socket), serving, ended
    socket,    \* none, open, closing (stdin ended), closed
    input,     \* from the App to the gateway: see Way
    output,    \* from the gateway to the App
    eof,       \* the App closed stdin
    ended,     \* inputEnded
    failed     \* outputFailed

frontendVars == <<run, socket, input, output, eof, ended, failed>>

\* Of a direction's lines: written by their writer, read into the queue, taken
\* out of it, and sent; busy: one is being sent (inputDraining, outputDraining);
\* paused: reading is.
Way == [written : 0 .. MaxLines, read : 0 .. MaxLines, taken : 0 .. MaxLines, sent : 0 .. MaxLines,
        busy : BOOLEAN, paused : BOOLEAN]
Unused == [written |-> 0, read |-> 0, taken |-> 0, sent |-> 0, busy |-> FALSE, paused |-> FALSE]
Queued(way) == way.read - way.taken

-----------------------------------------------------------------------------
(* Input *)

\* flushInput: the next line is sent, unless one is or there is none.
FlushInput(way) ==
    IF way.busy \/ Queued(way) = 0 THEN way ELSE [way EXCEPT !.busy = TRUE, !.taken = @ + 1]

\* enqueueInput, once per line of what was read at once: pausing stops no line
\* that is read already.
EnqueueInput(way, n) ==
    LET first == [way EXCEPT !.read = @ + 1]
        next == IF socket = "open" THEN FlushInput(first) ELSE first
        all == [next EXCEPT !.read = @ + n - 1]
    IN [all EXCEPT !.paused = @ \/ Queued(first) >= High \/ Queued(all) >= High]

AppWrites ==
    /\ run # "none" /\ input.written < MaxLines /\ ~eof /\ input' = [input EXCEPT !.written = @ + 1]
    /\ UNCHANGED <<run, socket, output, eof, ended, failed>>

AppCloses ==
    /\ run # "none" /\ ~eof /\ eof' = TRUE /\ UNCHANGED <<run, socket, input, output, ended, failed>>

ReadInput ==
    /\ run # "ended" /\ ~input.paused /\ ~failed
    /\ \E n \in 1 .. input.written - input.read : input' = EnqueueInput(input, n)
    /\ UNCHANGED <<run, socket, output, eof, ended, failed>>

\* stdin ends once all of it is read: what is queued still is not sent.
InputEnds ==
    /\ run # "ended" /\ (Hasty \/ run # "opening") /\ eof /\ ~ended /\ ~input.paused /\ input.read = input.written /\ ended' = TRUE
    /\ socket' = IF socket = "open" THEN "closing" ELSE socket
    /\ UNCHANGED <<run, input, output, eof, failed>>

\* A line is sent: reading resumes, and the next line goes if the socket is open.
Sent ==
    /\ input.busy
    /\ LET done == [input EXCEPT !.busy = FALSE, !.sent = input.taken, !.paused = @ /\ Queued(input) > Low]
       IN input' = IF socket = "open" THEN FlushInput(done) ELSE done
    /\ UNCHANGED <<run, socket, output, eof, ended, failed>>

-----------------------------------------------------------------------------
(* Output *)

GatewayWrites ==
    /\ socket = "open" /\ output.written < MaxLines /\ output' = [output EXCEPT !.written = @ + 1]
    /\ UNCHANGED <<run, socket, input, eof, ended, failed>>

\* receive: the line is queued behind one that waits for the pipe, or written.
Receive ==
    /\ socket \in {"open", "closing"} /\ ~output.paused /\ output.read < output.written
    /\ LET pushed == [output EXCEPT !.read = @ + 1]
       IN  \/ (output.busy \/ failed) /\ output' = [pushed EXCEPT !.paused = Queued(pushed) >= High]
           \/ /\ ~output.busy /\ ~failed
              /\ \E full \in BOOLEAN : output' = [pushed EXCEPT !.taken = @ + 1, !.sent = @ + 1, !.busy = full,
                                                                !.paused = full /\ Queued(pushed) >= High]
    /\ UNCHANGED <<run, socket, input, eof, ended, failed>>

\* flushOutput goes on as the pipe has room: n lines, and one that fills it again.
Drained ==
    /\ output.busy /\ ~failed
    /\ \E n \in 0 .. Queued(output) :
          LET full == n < Queued(output)
              taken == output.taken + n + (IF full THEN 1 ELSE 0)
          IN output' = [output EXCEPT !.taken = taken, !.sent = taken, !.busy = full,
                                      !.paused = @ /\ Queued(output) - n > Low]
    /\ UNCHANGED <<run, socket, input, eof, ended, failed>>

-----------------------------------------------------------------------------
(* run, connect *)

\* The App starts it, and it the gateway, whose socket it tries until a deadline.
AppStarts ==
    /\ run = "none" /\ run' = "connecting" /\ UNCHANGED <<socket, input, output, eof, ended, failed>>

OpenSocket ==
    /\ run = "connecting" /\ ~ended /\ ~failed /\ run' = "opening"
    /\ UNCHANGED <<socket, input, output, eof, ended, failed>>

NotOpen ==
    /\ run = "opening" /\ run' = "connecting" /\ UNCHANGED <<socket, input, output, eof, ended, failed>>

DeadlinePasses ==
    /\ run = "connecting" /\ run' = "ended" /\ UNCHANGED <<socket, input, output, eof, ended, failed>>

\* Mutant: lines that came before the connection wait for the next one.
ServeLater ==
    /\ run = "opening" /\ run' = "serving" /\ socket' = "open" /\ input' = input
    /\ UNCHANGED <<output, eof, ended, failed>>

\* serve: what came meanwhile is sent.
Serve ==
    /\ run = "opening" /\ run' = "serving" /\ socket' = "open" /\ input' = FlushInput(input)
    /\ UNCHANGED <<output, eof, ended, failed>>

\* The gateway goes, or answers the close: the line being sent is lost, those
\* queued for the App are still written.
SocketCloses ==
    /\ run = "serving" /\ run' = "ended" /\ socket' = "closed" /\ input' = [input EXCEPT !.busy = FALSE]
    /\ UNCHANGED <<output, eof, ended, failed>>

\* A write to stdout fails (the App is gone): reading ends and the socket goes.
OutputFails ==
    /\ ~failed /\ output.taken > 0 /\ failed' = TRUE /\ ended' = TRUE
    /\ socket' = IF run = "serving" THEN "closing" ELSE socket
    /\ UNCHANGED <<run, input, output, eof>>

-----------------------------------------------------------------------------
FrontendInit ==
    /\ run = "none" /\ socket = "none" /\ input = Unused /\ output = Unused
    /\ eof = FALSE /\ ended = FALSE /\ failed = FALSE

FrontendNext ==
    \/ AppStarts \/ AppWrites \/ AppCloses \/ ReadInput \/ InputEnds \/ Sent
    \/ GatewayWrites \/ Receive \/ Drained \/ OutputFails
    \/ OpenSocket \/ NotOpen \/ DeadlinePasses \/ Serve \/ SocketCloses

\* The event loop, the deadline of the tries, the gateway's reading and its
\* answer to a close, the App's reading, or its end.
FrontendFairness ==
    /\ WF_frontendVars(ReadInput) /\ WF_frontendVars(InputEnds) /\ WF_frontendVars(Sent)
    /\ WF_frontendVars(Receive) /\ WF_frontendVars(Drained \/ OutputFails)
    /\ WF_frontendVars(DeadlinePasses \/ Serve)
    /\ WF_frontendVars(socket = "closing" /\ SocketCloses)

FrontendTypeOK ==
    /\ run \in {"none", "connecting", "opening", "serving", "ended"}
    /\ socket \in {"none", "open", "closing", "closed"}
    /\ input \in Way /\ output \in Way
    /\ \A way \in {input, output} : way.sent <= way.taken /\ way.taken <= way.read /\ way.read <= way.written
    /\ eof \in BOOLEAN /\ ended \in BOOLEAN /\ failed \in BOOLEAN

\* However slow either side is, nothing stands still for good: once all is
\* written, all is sent, unless the relay is over first; what it had read for
\* the App is written even then; and it is over once the App closes stdin.
Settled ==
    /\ (input.sent = input.written /\ output.sent = output.written) \/ run = "ended"
    /\ output.sent = output.read \/ failed
    /\ eof => run = "ended"

RelayGoesOn == <>[]Settled
=============================================================================
