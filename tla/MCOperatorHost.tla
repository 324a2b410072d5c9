---- MODULE MCOperatorHost ----
\* What the operator's window and its engines do with their machine: the
\* settings file, the memory preflight and the diagnostic logs.  The three
\* share no state, so a behaviour exercises one of them and leaves the other
\* two as they begin.
EXTENDS SettingsFile, MemoryPreflight, DiagnosticsLog

VARIABLE part

hostVars == <<part, settingsVars, memoryVars, logVars>>

SettingsIdle == SettingsAt("unix", 0)
MemoryIdle == MemoryAt("other") /\ snapshot = NoReading

Init ==
    \/ part = "settings" /\ SettingsInit /\ MemoryIdle /\ LogInit
    \/ part = "memory" /\ SettingsIdle /\ MemoryInit /\ LogInit
    \/ part = "logs" /\ SettingsIdle /\ MemoryIdle /\ LogInit

Next ==
    \/ part = "settings" /\ SettingsNext /\ UNCHANGED <<part, memoryVars, logVars>>
    \/ part = "memory" /\ MemoryNext /\ UNCHANGED <<part, settingsVars, logVars>>
    \/ part = "logs" /\ LogNext /\ UNCHANGED <<part, settingsVars, memoryVars>>

Spec == Init /\ [][Next]_hostVars /\ MemoryFairness
====
