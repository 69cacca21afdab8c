----------------------------- MODULE BenchTransmit -----------------------------
(***************************************************************************)
(* The bench transmit tools (src/tools): tx_gfsk, which flies one frame from *)
(* a file; probe_soapy_tx_write, a parent that runs one child process per    *)
(* trial and judges it by its exit and by what it printed; the child that    *)
(* makes the writes itself ("probe") or calls tx_gfsk ("direct"); and        *)
(* probe_xtrx_native_tx ("native"), whose child is the vendor's test program. *)
(* Every driver call may raise, hang for ever or bring the process down.     *)
(***************************************************************************)
EXTENDS Naturals, Sequences, FiniteSets

CONSTANTS
    Samples,      \* samples of a rendered frame
    Mtus,         \* what the driver may say of its packet size
    DefaultChunk, \* _TX_CHUNK
    MaxStalls,    \* _TX_MAX_STALLS
    Trials,       \* trials of a session
    Tools         \* the programs a behaviour is about

ASSUME BenchAssumption ==
    /\ Samples \in Nat \ {0} /\ Mtus \subseteq Nat /\ DefaultChunk \in Nat \ {0}
    /\ MaxStalls \in Nat /\ Trials \in Nat
    /\ Tools \subseteq {"gfsk", "direct", "probe", "native"}

VARIABLES
    job,      \* what the program was asked to do
    stage,    \* the call a child is in, or where its session is
    told,     \* the last phase it printed
    code,     \* the exit code it is on its way to
    chunk,    \* samples per write
    burst, offset, stalls, \* the burst, the samples of it accepted, empty writes in a row
    open,     \* what of {"device", "stream"} it holds
    logged,   \* what the driver has written to the log
    air,      \* (ghost) every write taken: its burst, where it began, how much, END_BURST
    torn,     \* (ghost) the teardown calls made
    died,     \* (ghost) the call and the burst in which the process was lost
    results,  \* the trials judged so far
    worst     \* the exit code of the session

benchVars == <<job, stage, told, code, chunk, burst, offset, stalls, open, logged, air, torn,
               died, results, worst>>

Least(a, b) == IF a <= b THEN a ELSE b
-----------------------------------------------------------------------------
(* What the options come to. *)

\* Rates in units of 0.1 kHz.
SymbolRate  == 96
VeryLowRate == 5000
LowRate     == 10000
DefaultRate == 20448

\* resolve_rate: the modulator needs a whole number of samples a symbol, one at
\* least; the nearest, and of two as near the even one.
Snap(rate) ==
    LET n    == rate \div SymbolRate
        rest == 2 * (rate % SymbolRate)
        sps  == IF rest > SymbolRate \/ (rest = SymbolRate /\ n % 2 = 1) THEN n + 1 ELSE n
    IN  SymbolRate * (IF sps = 0 THEN 1 ELSE sps)

\* An option takes its own value, the automatic choice, or the fallback.
Chosen(asked, allowed, auto, fallback) ==
    IF asked = "auto" THEN auto ELSE IF asked \in allowed THEN asked ELSE fallback

FormatOf(xtrx, rate, asked) ==
    Chosen(asked, {"cf32", "cs16"}, IF xtrx /\ rate > VeryLowRate THEN "cs16" ELSE "cf32", "cf32")
ChannelsOf(xtrx, rate, asked) ==
    Chosen(asked, {"default", "explicit"},
           IF xtrx /\ rate <= LowRate THEN "explicit" ELSE "default", "default")
CallOf(asked) == Chosen(asked, {"simple", "flags", "full"}, "simple", "simple")

\* A timed burst is an option the XTRX has to be forced into.
TimeOf(xtrx, asked, forced) ==
    IF asked \notin {"none", "hw", "reset"} \/ (xtrx /\ ~forced) THEN "none" ELSE asked

\* XTRX drivers take no overall gain unless forced.
OverallGain(xtrx, gain, forced) == gain /\ (xtrx => forced)

\* _resolve_tx_chunk; the probe's own child cuts to the MTU, and to one sample at least.
ChunkOf(tool, requested, mtu) ==
    IF tool = "probe" THEN IF Least(requested, mtu) = 0 THEN 1 ELSE Least(requested, mtu)
    ELSE Least(IF requested = 0 THEN DefaultChunk ELSE requested, mtu)

\* The call shapes the probe can try, and the one that stands for tx_gfsk.
Case(fmt, channels, args, activate, call, layout) ==
    [fmt |-> fmt, channels |-> channels, args |-> args, activate |-> activate, call |-> call,
     layout |-> layout]
LayoutsOf(fmt) == IF fmt = "cf32" THEN {"cf32"} ELSE {"2col", "flat"}
ExpandedCases ==
    {c \in [fmt : {"cf32", "cs16"}, channels : {"default", "explicit"},
            args : {"none", "wire-cs16"}, activate : {"default", "zero", "num-elems"},
            call : {"simple", "flags", "full"}, layout : {"cf32", "2col", "flat"}] :
        c.layout \in LayoutsOf(c.fmt)}
DefaultCases ==
    {c \in ExpandedCases : /\ c.activate = "default" /\ c.call = "simple"
                           /\ c.args = "wire-cs16" => c.channels = "default" /\ c.layout # "flat"}
WriteCallCases(wire) ==
    {c \in ExpandedCases : c.layout # "2col" /\ (c.args = "none" \/ wire)}
\* Mutant: the format follows the wrong of the two thresholds.
TxGfskCaseBug(xtrx, rate) ==
    LET fmt == IF xtrx /\ rate <= LowRate THEN "cf32" ELSE "cs16"
    IN  {Case(fmt, IF xtrx /\ rate <= LowRate THEN "explicit" ELSE "default", "none", "default",
              "simple", IF fmt = "cf32" THEN "cf32" ELSE "flat")}

\* Its format and channels are guessed from the rate as it was asked for.
TxGfskCase(xtrx, rate) ==
    LET fmt == IF xtrx /\ rate <= VeryLowRate THEN "cf32" ELSE "cs16"
    IN  {Case(fmt, IF xtrx /\ rate <= LowRate THEN "explicit" ELSE "default", "none", "default",
              "simple", IF fmt = "cf32" THEN "cf32" ELSE "flat")}
\* --only-write-call and its like; what no filter names is let through.
Filtered(cases, only) == {c \in cases : \A a \in DOMAIN only : c[a] = only[a]}
-----------------------------------------------------------------------------
(* A child process. *)

Fresh ==
    /\ told = <<"", 0>> /\ code = 0 /\ chunk = 0 /\ burst = 1 /\ offset = 0 /\ stalls = 0
    /\ open = {} /\ logged = {} /\ air = <<>> /\ torn = <<>> /\ died = <<>>

Renew ==
    /\ told' = <<"", 0>> /\ code' = 0 /\ chunk' = 0 /\ burst' = 1 /\ offset' = 0 /\ stalls' = 0
    /\ open' = {} /\ logged' = {} /\ air' = <<>> /\ torn' = <<>> /\ died' = <<>>

Bursts == IF job.tool = "probe" THEN job.writes ELSE job.repeat

Opening  == <<"build", "open", "tune", "trim", "setup", "mtu", "activate", "clock", "write">>
Teardown == {"deactivate", "close", "release"}
Polls    == {"poll", "status"}
Flight   == {"setup", "mtu", "activate", "clock", "poll", "write", "status", "deactivate", "close"}
Calls    == {Opening[i] : i \in DOMAIN Opening} \cup Flight \cup {"release"}

\* The probe's child frames nothing before it opens; only a timed burst asks the clock.
Skipped(s) == (s = "build" /\ job.tool = "probe") \/ (s = "clock" /\ job.time = "none")

BeforeWrite == IF job.status = "before" THEN "poll" ELSE "write"
AfterWrite  == IF job.tool # "probe" \/ job.status = "after" THEN "status" ELSE "next"

Following(s) ==
    LET i    == CHOOSE n \in DOMAIN Opening : Opening[n] = s
        next == IF Skipped(Opening[i + 1]) THEN Opening[i + 2] ELSE Opening[i + 1]
    IN  IF next = "write" THEN BeforeWrite ELSE next

FirstStage == IF job.tool = "probe" THEN "open" ELSE "build"

\* The phase line a call prints before it is made and after it has returned.
\* A direct child sees all of tx_gfsk's flight as one phase; tx_gfsk prints none.
Label(s) ==
    IF job.tool = "gfsk" THEN <<"", 0>>
    ELSE IF job.tool = "direct" /\ s \in Flight THEN <<"transmit", 0>>
    ELSE <<s, IF s = "write" THEN burst ELSE 0>>
Entered(s) == Append(Label(s), "enter")
Left(s)    == Append(Label(s), IF job.tool = "direct" /\ s \in Flight THEN "enter" ELSE "ok")

\* Which calls may raise without anyone noticing.
Suppressed(s) ==
    \/ s \in Teardown
    \/ s = "trim" /\ (job.tool = "probe" \/ ~job.gain)
    \/ s = "mtu" /\ job.tool # "probe"
    \/ s \in Polls /\ ~(job.tool = "probe" /\ job.fatal)

\* The finally blocks: what is open is closed, in this order.
Unwind(held) ==
    IF "stream" \in held THEN "deactivate" ELSE IF "device" \in held THEN "release" ELSE "exit"

After(s) == CASE s = "poll" -> "write" [] s = "status" -> "next" [] OTHER -> Following(s)

Quits(c) == code' = c /\ stage' = Unwind(open)
Failure  == IF job.tool = "gfsk" THEN 4 ELSE 1

Resources(s) == IF s = "open" THEN {"device"} ELSE IF s = "setup" THEN {"stream"} ELSE {}

\* A call on the way to the first write returns.
Advance(s) ==
    /\ stage = s /\ s \in {Opening[i] : i \in 1..(Len(Opening) - 1)} \ {"mtu"}
    /\ stage' = Following(s) /\ told' = Left(s) /\ open' = open \cup Resources(s)
    /\ UNCHANGED <<job, code, chunk, burst, offset, stalls, logged, air, torn, died, results, worst>>

\* Framing is outside the try of tx_gfsk, whose own exit code is then Python's.
Raises(s) ==
    /\ stage = s /\ s \in Calls \ (Teardown \cup {"mtu"})
    /\ told' = Entered(s)
    /\ IF Suppressed(s) THEN stage' = After(s) /\ UNCHANGED code
       ELSE Quits(IF s = "build" THEN 1 ELSE Failure)
    /\ UNCHANGED <<job, chunk, burst, offset, stalls, open, logged, air, torn, died, results, worst>>

\* tx_gfsk takes an MTU it cannot get for zero, and refuses to write without one.
Mtu ==
    /\ stage = "mtu"
    /\ \E mtu \in Mtus \cup {0}, raised \in BOOLEAN :
          /\ raised => mtu = 0
          /\ chunk' = ChunkOf(job.tool, job.chunk, mtu)
          /\ told' = IF raised THEN Entered("mtu") ELSE Left("mtu")
          /\ IF IF job.tool = "probe" THEN raised ELSE mtu = 0 THEN Quits(Failure)
             ELSE stage' = Following("mtu") /\ UNCHANGED code
    /\ UNCHANGED <<job, burst, offset, stalls, open, logged, air, torn, died, results, worst>>

\* A timed burst needs the call shape that takes a time.
WriteCall == IF job.time # "none" THEN "full" ELSE CallOf(job.call)

\* What the next write carries: a block of its own, or the rest of the burst.
Offered == IF job.tool = "probe" THEN chunk ELSE Least(chunk, Samples - offset)
\* Mutant: the flag waits for a write that goes past the end.
EndFlagBug == WriteCall # "simple" /\ offset + Offered > Samples

\* END_BURST goes with the last of the data, if the call shape takes flags at all.
EndFlag ==
    /\ WriteCall # "simple"
    /\ IF job.tool = "probe" THEN job.end /\ burst = job.writes
       ELSE offset + Offered >= Samples

\* Mutant: the rest of the chunk is taken as flown.
AcceptBug ==
    /\ stage = "write"
    /\ \E n \in 1..Offered :
          /\ air' = Append(air, [burst |-> burst, from |-> offset, n |-> n, end |-> EndFlag])
          /\ offset' = IF job.tool = "probe" THEN 0 ELSE offset + Offered
          /\ stage' = IF job.tool = "probe" \/ offset + Offered = Samples THEN AfterWrite ELSE "write"
    /\ stalls' = 0 /\ told' = Left("write")
    /\ UNCHANGED <<job, code, chunk, burst, open, logged, torn, died, results, worst>>

\* The driver takes some of it, and may write to its log.
Accept ==
    /\ stage = "write"
    /\ \E n \in 1..Offered, log \in {{}, {"error"}, {"discard"}} :
          /\ air' = Append(air, [burst |-> burst, from |-> offset, n |-> n, end |-> EndFlag])
          /\ offset' = IF job.tool = "probe" THEN 0 ELSE offset + n
          /\ logged' = logged \cup log
          /\ stage' = IF job.tool = "probe" \/ offset + n = Samples THEN AfterWrite ELSE "write"
    /\ stalls' = 0 /\ told' = Left("write")
    /\ UNCHANGED <<job, code, chunk, burst, open, torn, died, results, worst>>

\* A write of nothing.  tx_gfsk waits out so many timeouts in a row and takes
\* anything else for an error; a burst that falls short is a failure.
Empty ==
    /\ stage = "write"
    /\ \E ret \in {"timeout", "error"} :
          IF job.tool = "probe" THEN Quits(10) /\ UNCHANGED stalls
          ELSE /\ stalls' = IF ret = "timeout" THEN stalls + 1 ELSE stalls
               /\ IF ret = "error" \/ stalls = MaxStalls THEN Quits(Failure)
                  ELSE UNCHANGED <<stage, code>>
    /\ told' = Left("write")
    /\ UNCHANGED <<job, chunk, burst, offset, open, logged, air, torn, died, results, worst>>

\* readStreamStatus before or after a write: what it says is printed, never acted upon.
Status ==
    /\ stage \in Polls /\ stage' = After(stage) /\ told' = Left(stage)
    /\ UNCHANGED <<job, code, chunk, burst, offset, stalls, open, logged, air, torn, died, results,
                   worst>>

\* The next burst or block, or the end of the transmission.
NextBurst ==
    /\ stage = "next" /\ offset' = 0
    /\ IF burst < Bursts THEN burst' = burst + 1 /\ stage' = BeforeWrite
       ELSE stage' = Unwind(open) /\ UNCHANGED burst
    /\ UNCHANGED <<job, told, code, chunk, stalls, open, logged, air, torn, died, results, worst>>

\* Mutant: the device is released with its stream open.
TearBug(s) ==
    /\ stage = s /\ s \in Teardown
    /\ told' = Left(s) /\ torn' = Append(torn, s)
    /\ open' = IF s = "release" THEN {} ELSE open
    /\ stage' = IF s = "release" THEN "exit" ELSE "release"
    /\ UNCHANGED <<job, code, chunk, burst, offset, stalls, logged, air, died, results, worst>>

\* A teardown call returns or raises; either way the next one is made.  The
\* release of tx_gfsk tries every call a binding may have, the probe's the
\* first that is there.
Tear(s) ==
    /\ stage = s /\ s \in Teardown
    /\ \E raised \in BOOLEAN :
          told' = IF s # "release" /\ raised THEN Entered(s) ELSE Left(s)
    /\ torn' = Append(torn, s)
    /\ open' = IF s = "close" THEN open \ {"stream"} ELSE IF s = "release" THEN {} ELSE open
    /\ stage' = IF s = "deactivate" THEN "close" ELSE Unwind(open')
    /\ UNCHANGED <<job, code, chunk, burst, offset, stalls, logged, air, died, results, worst>>

\* The call never returns, or takes the process down: no finally runs.
Wedge(s) ==
    /\ stage = s /\ s \in Calls \ {"build"}
    /\ stage' \in {"hung", "crashed"} /\ told' = Entered(s) /\ died' = <<s, burst>>
    /\ UNCHANGED <<job, code, chunk, burst, offset, stalls, open, logged, air, torn, results, worst>>

\* test_xtrx: the whole flight in one foreign program.
NativeChild ==
    /\ stage = "native"
    /\ stage' \in {"exit", "hung", "crashed"} /\ code' \in {0, 1}
    /\ \E seen \in SUBSET {"error", "underrun", "success"} : logged' = seen
    /\ UNCHANGED <<job, told, chunk, burst, offset, stalls, open, air, torn, died, results, worst>>
-----------------------------------------------------------------------------
(* The programs around it. *)

\* tx_gfsk.main up to the radio: what it refuses, and a rendering to a file.
Prepare ==
    /\ stage = "prepare"
    /\ LET refusal == \/ job.payload = "missing"
                      \/ job.payload = "oversize" /\ ~job.truncate
                      \/ job.to = "nowhere"
       IN  \/ refusal /\ code' = 2 /\ stage' = "exit"
           \/ ~refusal /\ job.to = "file"    /\ code' = 0 /\ stage' = "exit"
           \/ ~refusal /\ job.to = "no soapy" /\ code' = 3 /\ stage' = "exit"
           \/ ~refusal /\ job.to = "radio"   /\ code' = 0 /\ stage' = FirstStage
    /\ UNCHANGED <<job, told, chunk, burst, offset, stalls, open, logged, air, torn, died, results,
                   worst>>

\* What is printed while it runs is all the parent has of a child that is lost.
StatusOf ==
    IF stage = "hung" THEN "HANG"
    ELSE IF stage = "crashed" THEN "SIGNAL"
    ELSE IF code # 0 THEN "EXIT"
    ELSE IF job.tool = "native" /\ "success" \notin logged THEN "OK_NO_SUCCESS_MARKER"
    ELSE IF job.tool = "native" /\ "underrun" \in logged THEN "OK_UNDERRUN"
    ELSE IF "discard" \in logged THEN "TX_DISCARDED"
    ELSE IF logged \ {"success"} # {} THEN "OK_DRIVER_ERR"
    ELSE "OK"

\* Usable: what the native probe counts as a completion.
Usable  == {"OK", "OK_DRIVER_ERR", "OK_UNDERRUN"}
Wedged  == {"HANG", "SIGNAL"}

\* The exit code one trial asks for.
Severity(status) ==
    CASE status = "OK"     -> 0
      [] status = "HANG"   -> 2
      [] status = "SIGNAL" -> IF job.tool = "native" THEN 1 ELSE 3
      [] OTHER             -> 1

\* A trial in the report, and what really became of it.
Result ==
    [status  |-> StatusOf,
     first   |-> StatusOf # "OK" /\ told = <<"write", 1, "enter">>,
     lost    |-> died = <<"write", 1>>,
     whole   |-> died = <<>> /\ Len(air) = Bursts,
     clean   |-> stage = "exit" /\ code = 0 /\ logged \subseteq {"success"},
     named   |-> job.tool # "direct" \/
                    /\ job.case.fmt = FormatOf(job.xtrx, Snap(job.rate), "auto")
                    /\ job.case.channels = ChannelsOf(job.xtrx, Snap(job.rate), "auto")
                    /\ job.case.call = WriteCall]

Stops(status) ==
    \/ Len(results) + 1 = Trials
    \/ job.stopOk /\ status = "OK"
    \/ job.stopWedge /\ status \in Wedged /\ job.tool # "native"
    \/ job.stopWedge /\ status \in Usable /\ job.tool = "native"  \* --stop-on-usable

FirstOfTrial == IF job.tool = "native" THEN "native" ELSE FirstStage

\* Mutant: a driver error in a trial that was accepted is no failure.
JudgeBug ==
    /\ job.tool # "gfsk" /\ stage \in {"exit", "hung", "crashed"}
    /\ results' = Append(results, Result)
    /\ worst' = IF StatusOf = "OK_DRIVER_ERR" \/ worst >= Severity(StatusOf) THEN worst
                ELSE Severity(StatusOf)
    /\ Renew
    /\ IF Stops(StatusOf) THEN stage' = "over" /\ UNCHANGED job
       ELSE \E c \in job.cases :
               stage' = FirstOfTrial /\ job' = [job EXCEPT !.case = c, !.call = c.call]

\* A hung child is killed when its time is up (by the native probe with the
\* group it leads, by the other alone).
Judge ==
    /\ job.tool # "gfsk" /\ stage \in {"exit", "hung", "crashed"}
    /\ results' = Append(results, Result)
    /\ worst' = IF worst < Severity(StatusOf) THEN Severity(StatusOf) ELSE worst
    /\ Renew
    /\ IF Stops(StatusOf) THEN stage' = "over" /\ UNCHANGED job
       ELSE \E c \in job.cases :
               stage' = FirstOfTrial /\ job' = [job EXCEPT !.case = c, !.call = c.call]

\* Ctrl-C ends the running child and reports what there is.
Interrupt ==
    /\ job.tool \in {"probe", "direct"} /\ stage \notin {"over", "prepare"}
    /\ stage' = "over" /\ worst' = 130
    /\ Renew /\ UNCHANGED <<job, results>>

BenchEnds ==
    /\ stage = "over" \/ (job.tool = "gfsk" /\ stage \in {"exit", "hung", "crashed"})
    /\ UNCHANGED benchVars

NoCase == Case("cf32", "default", "none", "default", "simple", "cf32")

\* The options of each program that change what it does.
Common == [tool : Tools, xtrx : BOOLEAN, rate : {4800, 5040, 9600, 10030, DefaultRate},
           chunk : {0, 2}, gain : {FALSE}, time : {"none"}, repeat : {1}, writes : {1},
           end : {FALSE}, status : {"no"}, fatal : {FALSE}, payload : {"fits"},
           truncate : {FALSE}, to : {"radio"}, stopOk : BOOLEAN, stopWedge : BOOLEAN,
           call : {"auto"}, cases : {{NoCase}}, case : {NoCase}]
Plain(j) == j.rate = DefaultRate /\ ~j.xtrx /\ ~j.stopOk /\ ~j.stopWedge

GfskJob ==
    \E j \in {k \in Common : k.tool = "gfsk" /\ Plain(k)} :
       \/ \E call \in {"auto", "flags"}, time \in {"none", "hw", "late"}, repeat \in {1, 2},
             gain \in BOOLEAN :
             job = [j EXCEPT !.call = call, !.time = TimeOf(FALSE, time, FALSE), !.repeat = repeat,
                             !.gain = OverallGain(FALSE, gain, FALSE)]
       \/ \E payload \in {"missing", "fits", "oversize"}, truncate \in BOOLEAN,
             to \in {"file", "nowhere", "no soapy", "radio"} :
             /\ j.chunk = 0
             /\ job = [j EXCEPT !.payload = payload, !.truncate = truncate, !.to = to]

DirectJob ==
    \E j \in {k \in Common : k.tool = "direct" /\ k.chunk = 2 /\ ~k.stopOk} :
    \E c \in TxGfskCase(j.xtrx, j.rate) :
       job = [j EXCEPT !.cases = TxGfskCase(j.xtrx, j.rate), !.case = c, !.call = "simple"]

Selections ==
    LET only(set) == Filtered(set, [fmt |-> "cf32", channels |-> "default", activate |-> "default",
                                    args |-> "none"])
    IN  {only(ExpandedCases), only(DefaultCases), only(WriteCallCases(FALSE))}

ProbeJob ==
    \E j \in {k \in Common : /\ k.tool = "probe" /\ k.chunk = 2 /\ k.rate = DefaultRate /\ ~k.xtrx
                             /\ k.stopOk <=> k.stopWedge} :
    \E cases \in Selections :
    \E c \in cases, flag \in BOOLEAN, status \in {"no", "before", "after"}, fatal \in BOOLEAN :
       /\ <<status, fatal>> \in {<<"no", FALSE>>, <<"before", TRUE>>, <<"after", FALSE>>,
                              <<"after", TRUE>>}
       /\ job = [j EXCEPT !.cases = cases, !.case = c, !.call = c.call, !.writes = 2, !.end = flag,
                          !.status = status, !.fatal = fatal]

NativeJob == job \in {j \in Common : j.tool = "native" /\ j.rate = DefaultRate /\ ~j.xtrx /\ j.chunk = 0}

BenchInit ==
    /\ Fresh /\ results = <<>> /\ worst = 0
    /\ GfskJob \/ DirectJob \/ ProbeJob \/ NativeJob
    /\ stage = IF job.tool = "gfsk" THEN "prepare" ELSE FirstOfTrial

BenchNext ==
    \/ Prepare \/ Mtu \/ Accept \/ Empty \/ Status \/ NextBurst \/ NativeChild
    \/ \E s \in Calls : Advance(s) \/ Raises(s) \/ Tear(s) \/ Wedge(s)
    \/ Judge \/ Interrupt \/ BenchEnds

BenchSpec == BenchInit /\ [][BenchNext]_benchVars
-----------------------------------------------------------------------------
BenchTypeOK ==
    /\ stage \in Calls \cup Polls \cup {"prepare", "next", "native", "exit", "hung", "crashed", "over"}
    /\ code \in {0, 1, 2, 3, 4, 10} /\ worst \in {0, 1, 2, 3, 130}
    /\ offset \in 0..Samples /\ stalls \in 0..(MaxStalls + 1) /\ burst \in 1..2
    /\ open \subseteq {"device", "stream"} /\ logged \subseteq {"error", "discard", "underrun", "success"}
    /\ Len(results) <= Trials

\* Where the writes of a burst begin and end: they follow each other in the air.
Begins(i) == i = 1 \/ air[i - 1].burst # air[i].burst
Ends(i)   == i = Len(air) \/ air[i + 1].burst # air[i].burst

\* A transmit program that exits 0 has flown every burst whole, one after the
\* other, each sample once and in order, with END_BURST on its last write if the
\* call takes flags, and an uncut payload unless it was told to cut; and one that
\* ends by itself, in whatever call it failed, has closed the stream before the
\* device, and both.
CleanExitDelivers ==
    stage = "exit" /\ job.tool # "native" =>
        /\ open = {}
        /\ torn \in {<<>>, <<"release">>, <<"deactivate", "close", "release">>}
        /\ code = 0 /\ job.to = "radio" =>
              /\ torn = <<"deactivate", "close", "release">>
              /\ job.payload = "fits" \/ job.truncate
              /\ \A b \in 1..Bursts : \E i \in DOMAIN air : air[i].burst = b
              /\ \A i \in DOMAIN air :
                    /\ i > 1 => air[i - 1].burst <= air[i].burst
                    /\ Begins(i) => air[i].from = 0
                    /\ job.tool # "probe" =>
                          /\ ~Begins(i) => air[i].from = air[i - 1].from + air[i - 1].n
                          /\ Ends(i) => /\ air[i].from + air[i].n = Samples
                                        /\ WriteCall # "simple" => air[i].end

\* The diagnosis a session prints over the trials it has.
CountOf(P) == Cardinality({i \in DOMAIN results : P[i]})
Having(statuses) == CountOf([i \in DOMAIN results |-> results[i].status \in statuses])
Wedges == CountOf([i \in DOMAIN results |-> results[i].first])

Diagnosis ==
    LET total == Len(results)
        clean == Having({"OK"})
        dirty == Having({"OK_DRIVER_ERR"})
    IN  IF total = 0 THEN "none"
        ELSE IF Having({"TX_DISCARDED"}) = total THEN "all discarded"
        ELSE IF clean + dirty = 0 /\ Wedges = total THEN "global first write failure"
        ELSE IF clean = 0 /\ dirty > 0 /\ Wedges = total - dirty
             THEN IF dirty = total THEN "all returned with errors" ELSE "no clean write format"
        ELSE IF clean + dirty > 0 /\ Wedges > 0 THEN "flaky first write"
        ELSE IF clean + dirty = total THEN "all returned"
        ELSE "none"

\* What a session reports is what happened: its exit code is 0 only if every
\* trial was clean; it says that the first write failed, or that the writes
\* returned, only of trials of which that is true, although all it has of a
\* lost child is the last line it printed; it goes on after a wedge or a
\* success only where it may; and an XTRX trial at a rate the modulator can
\* keep is named for the call that was made.
VerdictIsEarned ==
    stage = "over" =>
        /\ worst = 0 => \A i \in DOMAIN results : results[i].clean
        /\ worst \in {2, 3} => \E i \in DOMAIN results : results[i].status \in Wedged
        /\ job.xtrx /\ Snap(job.rate) = job.rate => \A i \in DOMAIN results : results[i].named
        /\ \A i \in 1..(Len(results) - 1) :
              /\ job.stopOk => results[i].status # "OK"
              /\ job.stopWedge /\ job.tool # "native" => results[i].status \notin Wedged
        /\ job.tool = "probe" =>
              /\ Diagnosis = "global first write failure" =>
                    \A i \in DOMAIN results : results[i].lost
              /\ Diagnosis \in {"all returned", "all returned with errors", "all discarded"} =>
                    \A i \in DOMAIN results : results[i].whole
              /\ Diagnosis = "no clean write format" =>
                    \A i \in DOMAIN results : \/ results[i].whole /\ ~results[i].clean
                                              \/ results[i].lost
              /\ Diagnosis = "flaky first write" =>
                    /\ \E i \in DOMAIN results : results[i].whole
                    /\ \E i \in DOMAIN results : results[i].lost

\* "only that child dies and the parent can still report which combination
\* failed" (probe_soapy_tx_write, of SoapyXTRX): a trial lost inside its first
\* write is reported under the format and the channels it was made with.  The
\* code does not have this: it names a trial at 504 kHz cs16, and makes it as
\* cf32 at 499.2 kHz.
FailureNamed == \A i \in DOMAIN results : job.xtrx /\ results[i].lost => results[i].named
=============================================================================
