---- MODULE DiagnosticsLog ----
(***************************************************************************)
(* The diagnostic logs of the window and of its engines (diag.rs).         *)
(*                                                                         *)
(* Every process opens a log file of its own.  Before that it lists the    *)
(* logs in the directory and removes all but the newest ones, by the time  *)
(* of the last write, whoever they belong to; listing, removing and        *)
(* opening are separate calls.  A line written to a removed log is lost.   *)
(*                                                                         *)
(* The window writes a line about every engine it has started              *)
(* (gui.rs:2076), at level info, which is the default level; with          *)
(* XUS_MINER_LOG=error it does not, and Verbose is FALSE.                  *)
(*                                                                         *)
(* OldestStay, OneTooMany and SameName are faulty variants of the          *)
(* operators that follow them; no step uses them.                          *)
(***************************************************************************)
EXTENDS Naturals, Sequences, FiniteSets, Functions

CONSTANTS
    Operators,   \* the operators' windows, each with its engines
    Retained,    \* MAX_RETAINED_LOGS
    MaxLogs,     \* bound: log files ever opened
    Verbose      \* the level lets the window's line through

ASSUME LogAssumption ==
    /\ IsFiniteSet(Operators) /\ Operators # {}
    /\ Retained \in Nat \ {0} /\ MaxLogs \in Nat /\ Retained <= MaxLogs
    /\ Verbose \in BOOLEAN

VARIABLES
    logs,     \* the log files, the one written last at the end
    opened,   \* how many were opened
    phase,    \* per process: none, listing, pruning or running
    stale,    \* per process: the files its prune has still to remove
    own,      \* per process: its log file
    owed      \* per window: the line about the engine it has just spawned

logVars == <<logs, opened, phase, stale, own, owed>>

Processes == Operators \X {"gui", "engine"}
OldLogs == Retained

\* The directory is left by earlier versions and runs with as many logs as
\* they retained.
LogInit ==
    /\ logs = [i \in 1..OldLogs |-> i] /\ opened = OldLogs
    /\ phase = [p \in Processes |-> "none"]
    /\ stale = [p \in Processes |-> {}]
    /\ own = [p \in Processes |-> 0]
    /\ owed = [w \in Operators |-> FALSE]

-----------------------------------------------------------------------------

\* A window is opened, or spawns its next engine: start_engine goes on to its
\* log line before the window can start another.
Launch(w, role) ==
    LET p == <<w, role>>
    IN  /\ phase[p] = "none"
        /\ role = "engine" => phase[<<w, "gui">>] = "running" /\ ~owed[w]
        /\ phase' = [phase EXCEPT ![p] = "listing"]
        /\ owed' = [owed EXCEPT ![w] = role = "engine" /\ Verbose]
        /\ UNCHANGED <<logs, opened, stale, own>>

\* prune_old_logs: the newest Retained - 1 stay, which leaves room for one.
OldestStay == Range(SubSeq(logs, Retained, Len(logs)))
OneTooMany == Range(SubSeq(logs, 1, Len(logs) - Retained))
TooOld ==
    IF Len(logs) < Retained THEN {} ELSE Range(SubSeq(logs, 1, Len(logs) - Retained + 1))

ListLogs(p) ==
    /\ phase[p] = "listing"
    /\ phase' = [phase EXCEPT ![p] = "pruning"]
    /\ stale' = [stale EXCEPT ![p] = TooOld]
    /\ UNCHANGED <<logs, opened, own, owed>>

\* The directory without the log l, which it lists at most once.
Without(l) ==
    IF l \notin Range(logs) THEN logs
    ELSE LET i == CHOOSE i \in DOMAIN logs : logs[i] = l
         IN  SubSeq(logs, 1, i - 1) \o SubSeq(logs, i + 1, Len(logs))

RemoveLog(p) ==
    /\ phase[p] = "pruning"
    /\ \E l \in stale[p] :
          /\ logs' = Without(l)
          /\ stale' = [stale EXCEPT ![p] = @ \ {l}]
    /\ UNCHANGED <<opened, phase, own, owed>>

SameName == opened
FreshName == opened + 1

\* The file has a name of its own; "log opened" is its first line.
OpenLog(p) ==
    /\ phase[p] = "pruning" /\ stale[p] = {} /\ opened < MaxLogs
    /\ opened' = opened + 1
    /\ own' = [own EXCEPT ![p] = FreshName]
    /\ logs' = Append(logs, FreshName)
    /\ phase' = [phase EXCEPT ![p] = "running"]
    /\ UNCHANGED <<stale, owed>>

\* write_line: the file becomes the one written last, if it still has a name.
WriteLine(p) ==
    /\ phase[p] = "running"
    /\ logs' = IF own[p] \in Range(logs)
               THEN Append(Without(own[p]), own[p]) ELSE logs
    /\ owed' = [owed EXCEPT ![p[1]] = @ /\ p[2] = "engine"]
    /\ UNCHANGED <<opened, phase, stale, own>>

\* A process ends, or is killed, at any point; an engine may outlive its
\* window for a moment.
End(p) ==
    /\ phase[p] # "none"
    /\ phase' = [phase EXCEPT ![p] = "none"]
    /\ stale' = [stale EXCEPT ![p] = {}]
    /\ own' = [own EXCEPT ![p] = 0]
    /\ owed' = [owed EXCEPT ![p[1]] = @ /\ p[2] = "engine"]
    /\ UNCHANGED <<logs, opened>>

LogNext ==
    \/ \E w \in Operators, role \in {"gui", "engine"} : Launch(w, role)
    \/ \E p \in Processes :
          ListLogs(p) \/ RemoveLog(p) \/ OpenLog(p) \/ WriteLine(p) \/ End(p)

LogSpec == LogInit /\ [][LogNext]_logVars

-----------------------------------------------------------------------------
\* Properties.

\* The types of the variables; no log is listed twice.
LogTypeOK ==
    /\ logs \in Seq(1..MaxLogs) /\ IsInjective(logs)
    /\ opened \in 0..MaxLogs
    /\ phase \in [Processes -> {"none", "listing", "pruning", "running"}]
    /\ stale \in [Processes -> SUBSET (1..MaxLogs)]
    /\ own \in [Processes -> 0..MaxLogs]
    /\ owed \in [Operators -> BOOLEAN]

\* The directory stays bounded however many engines are started: at most one
\* log over the limit for each further process that is opening its own.
LogsBounded == Len(logs) <= Retained + Cardinality(Processes) - 1

\* However many engines a window restarts, their prunes never remove the log
\* the window itself is still writing.
WindowLogKept ==
    \A w \in Operators :
        LET p == <<w, "gui">> IN phase[p] = "running" => own[p] \in Range(logs)

\* Pruning removes enough and not too much, whoever else prunes at the time.
LogsKept == LogTypeOK /\ LogsBounded /\ WindowLogKept

=============================================================================
