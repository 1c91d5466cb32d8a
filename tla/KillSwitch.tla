----------------------------- MODULE KillSwitch -----------------------------
(***************************************************************************)
(* tbay pause / resume and the check at the top of every guarded call.     *)
(* A pause is a row of the controls table, one for everything and one per  *)
(* tool.  A call looks for the two rows in two queries, first the global   *)
(* one, while operators on other hosts write them.                         *)
(***************************************************************************)
CONSTANTS
  Callers, Tools, None,
  All        \* PAUSE_ALL_KEY

ASSUME KillSwitchAssumption == All \notin Tools /\ None \notin Tools

VARIABLES
  controls,  \* the keys of the controls table
  caller,    \* where each process is, and with which tool
  free,      \* history: was the tool unpaused at some moment of the check?
  struck,    \* history: was it paused at some moment of the check?
  narrowed   \* history: was its own pause lifted between the two queries, while all was paused?

history == <<free, struck, narrowed>>
vars == <<controls, caller, history>>

Places == {"idle", "checkAll", "checkTool", "runs", "blocked"}

TypeOK ==
  /\ controls \subseteq Tools \cup {All}
  /\ caller \in [Callers -> [at : Places, tool : Tools \cup {None}]]
  /\ free \in [Callers -> BOOLEAN] /\ struck \in [Callers -> BOOLEAN]
  /\ narrowed \in [Callers -> BOOLEAN]

Init ==
  /\ controls = {}
  /\ caller = [c \in Callers |-> [at |-> "idle", tool |-> None]]
  /\ free = [c \in Callers |-> FALSE] /\ struck = [c \in Callers |-> FALSE]
  /\ narrowed = [c \in Callers |-> FALSE]

At(c, place) == caller[c].at = place
GoTo(c, place) == caller' = [caller EXCEPT ![c].at = place]

Paused(keys, tool) == All \in keys \/ tool \in keys
Checking(c) == At(c, "checkAll") \/ At(c, "checkTool")

\* The operators' write, as the calls that are checking live through it.
Write(keys) ==
  /\ controls' = keys
  /\ free' = [c \in Callers |-> free[c] \/ (Checking(c) /\ ~Paused(keys, caller[c].tool))]
  /\ struck' = [c \in Callers |-> struck[c] \/ (Checking(c) /\ Paused(keys, caller[c].tool))]
  /\ narrowed' = [c \in Callers |-> \/ narrowed[c]
                                   \/ /\ At(c, "checkTool") /\ All \in keys
                                      /\ caller[c].tool \in controls \ keys]
  /\ UNCHANGED caller
-----------------------------------------------------------------------------
Pause(key) == Write(controls \cup {key})

Resume(key) == Write(controls \ {key})

Call(c, tool) ==
  /\ At(c, "idle")
  /\ caller' = [caller EXCEPT ![c] = [at |-> "checkAll", tool |-> tool]]
  /\ free' = [free EXCEPT ![c] = ~Paused(controls, tool)]
  /\ struck' = [struck EXCEPT ![c] = Paused(controls, tool)]
  /\ narrowed' = [narrowed EXCEPT ![c] = FALSE]
  /\ UNCHANGED controls

\* _check_kill_switch: get_control(PAUSE_ALL_KEY), then the tool's key.
ReadAll(c) ==
  /\ At(c, "checkAll")
  /\ GoTo(c, IF All \in controls THEN "blocked" ELSE "checkTool")
  /\ UNCHANGED <<controls, history>>

\* (A mutant: any tool's pause blocks.)
ReadAnyTool(c) ==
  /\ At(c, "checkTool")
  /\ GoTo(c, IF controls \cap Tools # {} THEN "blocked" ELSE "runs")
  /\ UNCHANGED <<controls, history>>

ReadTool(c) ==
  /\ At(c, "checkTool")
  /\ GoTo(c, IF caller[c].tool \in controls THEN "blocked" ELSE "runs")
  /\ UNCHANGED <<controls, history>>

\* The rest of the call, which looks at no control again, or ToolPaused.
Return(c) ==
  /\ At(c, "runs") \/ At(c, "blocked")
  /\ caller' = [caller EXCEPT ![c] = [at |-> "idle", tool |-> None]]
  /\ UNCHANGED <<controls, history>>

Next ==
  \/ \E key \in Tools \cup {All} : Pause(key) \/ Resume(key)
  \/ \E c \in Callers, tool \in Tools : Call(c, tool)
  \/ \E c \in Callers : ReadAll(c) \/ ReadTool(c) \/ Return(c)

Spec == Init /\ [][Next]_vars
-----------------------------------------------------------------------------
\* pause() is to stop every guarded call, or just those of one tool, until resume();
\* the two queries of _check_kill_switch do not quite.  A call whose tool is paused at
\* every moment of its check, by whichever row, runs only if, after it found nothing
\* paused globally, operators paused everything and then lifted the pause of the tool
\* itself.  Any other order of pauses and resumes, of its own tool, of others or of
\* everything, that leaves no moment without a pause stops it.
PausedIsStoppedUnlessNarrowed == \A c \in Callers : At(c, "runs") => free[c] \/ narrowed[c]

\* A call is blocked only if its own tool was paused at some moment of its check:
\* a pause of another tool, or one lifted before the call, stops nothing.
OnlyPausedIsStopped == \A c \in Callers : At(c, "blocked") => struck[c]
=============================================================================
