----------------------------- MODULE OfflineTools -----------------------------
(***************************************************************************)
(* The programs beside a pass, one at a time: the bench transmit tools, the   *)
(* lock the probe takes, and what is done with a recording afterwards (its     *)
(* views, the audio among them, and the two engines that decode it).  tool    *)
(* says which one a behaviour is about; the variables of the others are off.   *)
(***************************************************************************)
EXTENDS BenchTransmit

CONSTANTS Ratios, Taps, MaxLength,
          Attempts, Probes,
          Framings, Native, MaxSamples, MaxFrame, MaxBad,
          MaxHits, QueueCap

ASSUME ToolsAssumption ==
    /\ Attempts \in Nat \ {0}
    /\ Ratios \subseteq (Nat \ {0}) \X (Nat \ {0}) /\ Taps \in Nat \ {0}
    /\ MaxLength \in Nat /\ MaxSamples \in Nat

VARIABLES
    tool,
    up, down, prev, unfilled, history, processed, next, out, closed,
    attempt, wanted, view, doing, disk, temp, made,
    lock, at, read, swapped,
    sent, played, win, off, known, spoilt, found, swept, sweepExit,
    engines, replayed, queues, hits, overrun, broken, stepping, rows, append, filed, replayExit

Resampler == INSTANCE StreamingResampler WITH pending <- unfilled
Views     == INSTANCE PassViews
Lock      == INSTANCE ProbeLock
Sweep     == INSTANCE CaptureSweep WITH seen <- known, records <- found, filed <- swept,
                                        exit <- sweepExit
Replay    == INSTANCE CaptureReplay WITH graph <- replayed, step <- stepping, exit <- replayExit

resampler == <<up, down, prev, unfilled, history, processed, next, out, closed>>
views     == <<attempt, wanted, view, doing, disk, temp, made>>
locks     == <<lock, at, read, swapped>>
sweep     == <<sent, played, win, off, known, spoilt, found, swept, sweepExit>>
replay    == <<engines, replayed, queues, hits, overrun, broken, stepping, rows, append, filed,
               replayExit>>
offlineVars == <<tool, benchVars, resampler, views, locks, sweep, replay>>

Off == "off"
BenchOff ==
    /\ job = Off /\ stage = Off /\ told = Off /\ code = Off /\ chunk = Off /\ burst = Off
    /\ offset = Off /\ stalls = Off /\ open = Off /\ logged = Off /\ air = Off /\ torn = Off
    /\ died = Off /\ results = Off /\ worst = Off
ResamplerOff ==
    /\ up = Off /\ down = Off /\ prev = Off /\ unfilled = Off /\ history = Off
    /\ processed = Off /\ next = Off /\ out = Off /\ closed = Off
ViewsOff ==
    /\ attempt = Off /\ wanted = Off /\ view = Off /\ doing = Off /\ disk = Off /\ temp = Off
    /\ made = Off
LockOff == lock = Off /\ at = Off /\ read = Off /\ swapped = Off
SweepOff ==
    /\ sent = Off /\ played = Off /\ win = Off /\ off = Off /\ known = Off /\ spoilt = Off
    /\ found = Off /\ swept = Off /\ sweepExit = Off
ReplayOff ==
    /\ engines = Off /\ replayed = Off /\ queues = Off /\ hits = Off /\ overrun = Off
    /\ broken = Off /\ stepping = Off /\ rows = Off /\ append = Off /\ filed = Off /\ replayExit = Off

OfflineInit ==
    /\ tool \in {"bench", "resampler", "views", "lock", "sweep", "replay"}
    /\ IF tool = "bench" THEN BenchInit ELSE BenchOff
    /\ IF tool = "resampler" THEN Resampler!ResamplerInit ELSE ResamplerOff
    /\ IF tool = "views" THEN Views!ViewsInit ELSE ViewsOff
    /\ IF tool = "lock" THEN Lock!LockInit ELSE LockOff
    /\ IF tool = "sweep" THEN Sweep!SweepInit ELSE SweepOff
    /\ IF tool = "replay" THEN Replay!ReplayInit ELSE ReplayOff

NoTool ==
    tool = "none" /\ BenchOff /\ ResamplerOff /\ ViewsOff /\ LockOff /\ SweepOff /\ ReplayOff

OfflineNext ==
    /\ UNCHANGED tool
    /\ \/ /\ tool = "bench" /\ BenchNext
          /\ UNCHANGED <<resampler, views, locks, sweep, replay>>
       \/ /\ tool = "resampler" /\ Resampler!ResamplerNext
          /\ UNCHANGED <<benchVars, views, locks, sweep, replay>>
       \/ /\ tool = "views" /\ Views!ViewsNext
          /\ UNCHANGED <<benchVars, resampler, locks, sweep, replay>>
       \/ /\ tool = "lock" /\ Lock!LockNext
          /\ UNCHANGED <<benchVars, resampler, views, sweep, replay>>
       \/ /\ tool = "sweep" /\ Sweep!SweepNext
          /\ UNCHANGED <<benchVars, resampler, views, locks, replay>>
       \/ /\ tool = "replay" /\ Replay!ReplayNext
          /\ UNCHANGED <<benchVars, resampler, views, locks, sweep>>
-----------------------------------------------------------------------------
\* See BenchTransmit: a transmit tool that exits 0 has flown its frame, and one
\* that fails has let go of the device.
CleanTransmit == tool = "bench" => CleanExitDelivers

\* See BenchTransmit: the verdict of a session of trials is what happened.
HonestVerdict == tool = "bench" => VerdictIsEarned

\* See PassViews and StreamingResampler: no product of an earlier attempt passes
\* for this one's, and the audio does not depend on the chunks it was made of.
ViewsAreTrue ==
    /\ tool = "views" => Views!ProductsAreFresh
    /\ tool = "resampler" => Resampler!ChunkingUnseen

\* See ProbeLock: two probes do not transmit at once.
OneProbeAtATime == tool = "lock" => Lock!OneProbeAtATime

\* See CaptureSweep and CaptureReplay: a decode that ends clean has filed every
\* frame that could be found, once.
DecodedWhole ==
    /\ tool = "sweep" => Sweep!SweptWhole
    /\ tool = "replay" => Replay!ReplayedWhole
=============================================================================
