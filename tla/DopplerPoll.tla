----------------------------- MODULE DopplerPoll -----------------------------
(***************************************************************************)
(* The Doppler poll of satellite_rx: run_doppler_poll with its source      *)
(* (OrbitdDopplerSource over _LineClient), the hand-over to the offset the *)
(* orchestrator pushes, and the daemon, the network, the pushes and the    *)
(* stop as environment.                                                    *)
(*                                                                         *)
(* The true offset moves by one unit in a tick, so an offset is its age:   *)
(* the ticks since the ephemeris was read for it.  Ages saturate at Cap.   *)
(***************************************************************************)
EXTENDS Integers, Sequences

CONSTANTS
    Connect, Rpc, Reset,    \* connect_timeout_s, rpc_timeout_s, the close's timeout
    Grace, Period,          \* fallback_grace_s, period_s
    Threshold,              \* resend_threshold_hz
    Cap                     \* bound: ages above it are not told apart

VARIABLES
    phase,      \* where the loop is
    left,       \* ticks until the timeout of what it awaits
    conn,       \* the client's connection: "open" or "closed"
    asked,      \* requests on it that the daemon has not answered
    wire,       \* replies on it that were not read
    sinceOk,    \* age of the last reading that was not None
    sinceUsable,\* age of the last reading that was a finite number (history)
    heard,      \* age of the sample last read, when it was read (history)
    pushed,     \* what _on_set_doppler stored
    last,       \* the offset the rotator was last given
    onFallback,
    stopped

clocks   == <<sinceOk, sinceUsable>>
line     == <<conn, asked, wire>>
rotator  == <<last, onFallback>>
pollVars == <<phase, left, line, clocks, heard, pushed, rotator, stopped>>

None    == -1                       \* no reading
NaN     == -2                       \* a reading that is not finite
Waiting == {"connect", "drain", "await", "reset", "sleep"}
Older(a) == IF a < 0 \/ a = Cap THEN a ELSE a + 1
Abs(n)   == IF n < 0 THEN -n ELSE n

\* The rotator starts uncorrected and the pushed offset at 0.0 Hz: an offset
\* as good as any that is too old.
PollInit ==
    /\ phase = "top" /\ left = 0
    /\ conn = "closed" /\ asked = 0 /\ wire = <<>>
    /\ sinceOk = 0 /\ sinceUsable = 0 /\ heard = 0
    /\ pushed = Cap /\ last = None /\ onFallback = FALSE
    /\ stopped = FALSE

Await(p, t) == phase' = p /\ left' = t
-----------------------------------------------------------------------------
(* Time, the daemon and the orchestrator.                                  *)

Tick ==
    /\ phase \in Waiting /\ left > 0 /\ left' = left - 1
    /\ wire' = [k \in DOMAIN wire |-> Older(wire[k])]
    /\ sinceOk' = Older(sinceOk) /\ sinceUsable' = Older(sinceUsable)
    /\ pushed' = Older(pushed) /\ last' = Older(last)
    /\ UNCHANGED <<phase, conn, asked, heard, onFallback, stopped>>

\* A sample read now, a reply without a usable one, or a number that is none.
DaemonAnswers(r) ==
    /\ asked > 0 /\ asked' = asked - 1 /\ wire' = Append(wire, r)
    /\ UNCHANGED <<phase, left, conn, clocks, heard, pushed, rotator, stopped>>

\* A push that is not a finite number is dropped.
OnSetDoppler ==
    /\ phase \in Waiting /\ ~stopped /\ pushed' = 0
    /\ UNCHANGED <<phase, left, line, clocks, heard, rotator, stopped>>

Stop ==
    /\ ~stopped /\ stopped' = TRUE
    /\ UNCHANGED <<phase, left, line, clocks, heard, pushed, rotator>>
-----------------------------------------------------------------------------
(* read_offset_hz over request_line.                                       *)

Ask == asked' = asked + 1 /\ Await("drain", Rpc) /\ UNCHANGED wire

Top ==
    /\ phase = "top" /\ ~stopped
    /\ IF conn = "open" THEN Ask /\ UNCHANGED conn
                        ELSE Await("connect", Connect) /\ UNCHANGED line
    /\ UNCHANGED <<clocks, heard, pushed, rotator, stopped>>

Connected ==
    /\ phase = "connect" /\ conn' = "open" /\ Ask
    /\ UNCHANGED <<clocks, heard, pushed, rotator, stopped>>

Drained ==
    /\ phase = "drain" /\ Await("await", Rpc)
    /\ UNCHANGED <<line, clocks, heard, pushed, rotator, stopped>>

JudgeBug(r) ==               \* only a push of this very moment is taken over
    LET gone == r = None /\ sinceOk >= Grace /\ pushed = 0
        new  == IF gone THEN pushed ELSE r
    IN  /\ onFallback' = IF r # None THEN FALSE ELSE onFallback \/ gone
        /\ sinceOk' = IF r # None THEN 0 ELSE sinceOk
        /\ sinceUsable' = IF r >= 0 THEN 0 ELSE sinceUsable
        /\ heard' = IF r >= 0 THEN r ELSE heard
        /\ last' = IF new >= 0 THEN new ELSE last
        /\ Await("sleep", Period)
        /\ UNCHANGED <<pushed, stopped>>

\* run_doppler_poll with the reading r: a reading takes ownership back; none
\* for Grace ticks gives it to the pushed offset.  What moved past the
\* threshold goes to the rotator, which may raise and keep the old one.
Judge(r) ==
    LET gone == r = None /\ sinceOk >= Grace
        new  == IF gone THEN pushed ELSE r
    IN  /\ onFallback' = IF r # None THEN FALSE ELSE onFallback \/ gone
        /\ sinceOk' = IF r # None THEN 0 ELSE sinceOk
        /\ sinceUsable' = IF r >= 0 THEN 0 ELSE sinceUsable
        /\ heard' = IF r >= 0 THEN r ELSE heard
        /\ IF new >= 0 /\ (last = None \/ Abs(new - last) >= Threshold)
              THEN last' \in {new, last}
              ELSE UNCHANGED last
        /\ Await("sleep", Period)
        /\ UNCHANGED <<pushed, stopped>>

\* A refused connection has no writer to close.
ConnectFails ==
    /\ phase = "connect" /\ Judge(None) /\ UNCHANGED line

ReadReply ==
    /\ phase = "await" /\ wire # <<>>
    /\ wire' = Tail(wire) /\ Judge(Head(wire))
    /\ UNCHANGED <<conn, asked>>

LineFailsBug ==              \* the timeout leaves the connection as it is
    /\ phase \in {"drain", "await"} /\ left = 0
    /\ Await("reset", Reset)
    /\ UNCHANGED <<line, clocks, heard, pushed, rotator, stopped>>

\* A timeout, a closed peer or an overlong line: the connection is forgotten
\* with every reply on it, and its close awaited.
LineFails ==
    /\ phase \in {"drain", "await"}
    /\ conn' = "closed" /\ asked' = 0 /\ wire' = <<>>
    /\ Await("reset", Reset)
    /\ UNCHANGED <<clocks, heard, pushed, rotator, stopped>>

WasReset == phase = "reset" /\ Judge(None) /\ UNCHANGED line

Wakes ==
    /\ phase = "sleep" /\ (left = 0 \/ stopped)
    /\ Await("top", 0)
    /\ UNCHANGED <<line, clocks, heard, pushed, rotator, stopped>>

LeavesBug ==                 \* only the loop's own exit closes the source
    /\ \/ phase = "top" /\ stopped /\ conn' = "closed"
       \/ phase \in Waiting /\ stopped /\ UNCHANGED conn
    /\ phase' = "done" /\ left' = 0
    /\ UNCHANGED <<asked, wire, clocks, heard, pushed, rotator, stopped>>

\* The loop sees the stop, or the engine's finally cancels it wherever it
\* waits; the source is closed either way.
Leaves ==
    /\ stopped /\ phase \in Waiting \cup {"top"}
    /\ phase' = "done" /\ left' = 0
    /\ conn' = "closed" /\ asked' = 0 /\ wire' = <<>>
    /\ UNCHANGED <<clocks, heard, pushed, rotator, stopped>>
-----------------------------------------------------------------------------
PollEnv  == (\E r \in {0, None, NaN} : DaemonAnswers(r)) \/ OnSetDoppler \/ Stop
PollLoop == \/ Top \/ Connected \/ Drained \/ ConnectFails \/ ReadReply \/ LineFails
            \/ WasReset \/ Wakes \/ Leaves
Polled   == phase = "done" /\ UNCHANGED pollVars
PollNext == Tick \/ PollEnv \/ PollLoop \/ Polled

PollSpec == PollInit /\ [][PollNext]_pollVars

\* The event loop runs what is ready, and time passes.
PollFairSpec == PollSpec /\ WF_pollVars(PollLoop) /\ WF_pollVars(Tick)
-----------------------------------------------------------------------------
MaxRead == Connect + 2 * Rpc + Reset

\* A source that gives no reading is given up for the pushed offset after the
\* grace and at most one whole read: a hung daemon cannot hold it longer.
HandOver == sinceOk > Grace + Period + MaxRead /\ phase # "done" => onFallback

\* What is read is the answer to the request just made: a late reply to one
\* that timed out is never taken for it.
ReadingIsFresh == heard <= Rpc + Rpc

\* The pass is never corrected by an offset that stays what it was while the
\* orchestrator knows better ("instead of freezing at a stale offset").
NeverFrozen == sinceUsable > Grace + Period + MaxRead /\ phase # "done" => onFallback

\* The end of the pass ends the poll, and with the poll the connection.
PollEnds == stopped ~> (phase = "done" /\ conn = "closed")
=============================================================================
