------------------------------- MODULE ProbeLock -------------------------------
(***************************************************************************)
(* The lock file of the transmit probe (tools/probe_soapy_tx_write.py,      *)
(* _probe_lock): one file in the temporary directory, created exclusively,   *)
(* that names the process which holds it.  Every system call is a step, so   *)
(* any number of probes interleave in it; a probe may be killed anywhere,    *)
(* and leaves its file behind.                                              *)
(***************************************************************************)
EXTENDS Naturals, FiniteSets

CONSTANT Probes          \* the probes started on this host, by process id

Unwritten == "unwritten" \* no pid line in the file, or no file to read

VARIABLES
    lock,    \* the lock file: {} or {[owner, pid]}; owner is who created it
    at,      \* where each probe is
    read,    \* the pid each probe took from the file it found
    swapped  \* a probe has removed a lock other than the one it had read

lockVars == <<lock, at, read, swapped>>

Running == {"open", "read", "judge", "unlink", "write", "hold", "forced"}

LockInit ==
    /\ lock = {} /\ swapped = FALSE
    /\ at \in [Probes -> {"open", "forced"}]
    /\ read = [p \in Probes |-> Unwritten]

Goes(p, place) == at' = [at EXCEPT ![p] = place]

\* Mutant: the file is opened for writing without O_EXCL.
CreateBug(p) ==
    /\ at[p] = "open" /\ lock' = {[owner |-> p, pid |-> Unwritten]}
    /\ Goes(p, "write") /\ UNCHANGED <<read, swapped>>

\* os.open with O_CREAT | O_EXCL: the file is there before it says whose it is.
Create(p) ==
    /\ at[p] = "open" /\ lock = {}
    /\ lock' = {[owner |-> p, pid |-> Unwritten]}
    /\ Goes(p, "write") /\ UNCHANGED <<read, swapped>>

WritePid(p) ==
    /\ at[p] = "write"
    /\ lock' = {[f EXCEPT !.pid = IF f.owner = p THEN p ELSE @] : f \in lock}
    /\ Goes(p, "hold") /\ UNCHANGED <<read, swapped>>

Exists(p) ==
    /\ at[p] = "open" /\ lock # {}
    /\ Goes(p, "read") /\ UNCHANGED <<lock, read, swapped>>

\* A file that has vanished in the meantime reads as one that names nobody.
ReadPid(p) ==
    /\ at[p] = "read"
    /\ read' = [read EXCEPT ![p] = IF lock = {} THEN Unwritten
                                   ELSE (CHOOSE f \in lock : TRUE).pid]
    /\ Goes(p, "judge") /\ UNCHANGED <<lock, swapped>>

\* _pid_alive: a process that has ended may have passed its number on.
PidAlive(q, answer) == at[q] \in Running => answer

\* Mutant: any lock that names somebody is cleared.
ClearBug(p) ==
    /\ at[p] = "judge"
    /\ Goes(p, IF read[p] # Unwritten THEN "unlink" ELSE "refused")
    /\ UNCHANGED <<lock, read, swapped>>

\* Only a lock that names a process which is gone is cleared.
Judge(p) ==
    /\ at[p] = "judge"
    /\ \E alive \in BOOLEAN :
          /\ read[p] # Unwritten => PidAlive(read[p], alive)
          /\ Goes(p, IF read[p] # Unwritten /\ ~alive THEN "unlink" ELSE "refused")
    /\ UNCHANGED <<lock, read, swapped>>

\* The file is removed by its name, whoever has created it since.
Unlink(p) ==
    /\ at[p] = "unlink"
    /\ swapped' = (swapped \/ \E f \in lock : f.owner # read[p])
    /\ lock' = {} /\ Goes(p, "open") /\ UNCHANGED read

Release(p) ==
    /\ at[p] = "hold"
    /\ swapped' = (swapped \/ \E f \in lock : f.owner # p)
    /\ lock' = {} /\ Goes(p, "done") /\ UNCHANGED read

\* --no-lock: the file is neither asked nor touched.
Unlocked(p) == at[p] = "forced" /\ Goes(p, "done") /\ UNCHANGED <<lock, read, swapped>>

Kill(p) == at[p] \in Running /\ Goes(p, "dead") /\ UNCHANGED <<lock, read, swapped>>

LockStep(p) == Create(p) \/ WritePid(p) \/ Exists(p) \/ ReadPid(p) \/ Judge(p)
                  \/ Unlink(p) \/ Release(p) \/ Unlocked(p)

\* Every probe has ended.
LockEnds == (\A p \in Probes : at[p] \in {"done", "refused", "dead"}) /\ UNCHANGED lockVars

LockNext == (\E p \in Probes : LockStep(p) \/ Kill(p)) \/ LockEnds

LockSpec == LockInit /\ [][LockNext]_lockVars
-----------------------------------------------------------------------------
LockTypeOK ==
    /\ lock \subseteq [owner : Probes, pid : Probes \cup {Unwritten}]
    /\ Cardinality(lock) <= 1
    /\ at \in [Probes -> Running \cup {"done", "refused", "dead"}]
    /\ read \in [Probes -> Probes \cup {Unwritten}]
    /\ swapped \in BOOLEAN

\* The lock keeps two probes from running at once, whatever is killed, as long
\* as no clearing of a stale lock met a lock created since it was read: and
\* then the file is that of the probe that runs.
OneProbeAtATime ==
    swapped \/ ( /\ Cardinality({p \in Probes : at[p] \in {"write", "hold"}}) <= 1
                 /\ \A p \in Probes : at[p] = "hold" => lock = {[owner |-> p, pid |-> p]})
=============================================================================
