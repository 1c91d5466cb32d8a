-------------------------- MODULE KillSwitchProofs --------------------------
(***************************************************************************)
(* Proofs about KillSwitch, for any number of callers and tools.  The      *)
(* history variables only say what they are meant to say if they follow    *)
(* the controls table, which is the first half of the invariant; the       *)
(* second half is what a call knows between its two queries: if its tool   *)
(* was never free so far, nor its pause narrowed, the tool's own row is    *)
(* there to be found.                                                      *)
(***************************************************************************)
EXTENDS KillSwitch, TLAPS

FollowsControls ==
  \A c \in Callers : Checking(c) =>
    /\ ~Paused(controls, caller[c].tool) => free[c]
    /\ Paused(controls, caller[c].tool) => struck[c]

KnowsItsTool ==
  \A c \in Callers : At(c, "checkTool") => free[c] \/ narrowed[c] \/ caller[c].tool \in controls

NamesATool == \A c \in Callers : Checking(c) => caller[c].tool \in Tools

KInv == TypeOK /\ NamesATool /\ FollowsControls

\* Nobody checks anything initially.
LEMMA InitHolds == Init => KInv /\ KnowsItsTool /\ PausedIsStoppedUnlessNarrowed /\ OnlyPausedIsStopped
  BY DEF Init, KInv, TypeOK, NamesATool, FollowsControls, KnowsItsTool,
         PausedIsStoppedUnlessNarrowed, OnlyPausedIsStopped, Checking, At, Places

\* The history variables, and that a blocked call was paused, hold however operators
\* order their writes.
LEMMA KInvStep ==
  ASSUME KInv, OnlyPausedIsStopped, [Next]_vars
  PROVE  KInv' /\ OnlyPausedIsStopped'
<1> USE KillSwitchAssumption DEF KInv, TypeOK, Places, NamesATool, FollowsControls,
        OnlyPausedIsStopped, Checking, At, Paused
<1>1. ASSUME NEW key \in Tools \cup {All}, Pause(key)
      PROVE  KInv' /\ OnlyPausedIsStopped'
  BY <1>1 DEF Pause, Write
<1>2. ASSUME NEW key \in Tools \cup {All}, Resume(key)
      PROVE  KInv' /\ OnlyPausedIsStopped'
  BY <1>2 DEF Resume, Write
<1>3. ASSUME NEW c \in Callers, NEW tool \in Tools, Call(c, tool)
      PROVE  KInv' /\ OnlyPausedIsStopped'
  BY <1>3 DEF Call
<1>4. ASSUME NEW c \in Callers, ReadAll(c)
      PROVE  KInv' /\ OnlyPausedIsStopped'
  BY <1>4 DEF ReadAll, GoTo, history
<1>5. ASSUME NEW c \in Callers, ReadTool(c)
      PROVE  KInv' /\ OnlyPausedIsStopped'
  BY <1>5 DEF ReadTool, GoTo, history
<1>6. ASSUME NEW c \in Callers, Return(c)
      PROVE  KInv' /\ OnlyPausedIsStopped'
  BY <1>6 DEF Return, history
<1>7. ASSUME UNCHANGED vars
      PROVE  KInv' /\ OnlyPausedIsStopped'
  BY <1>7 DEF vars, history
<1>8. QED
  BY <1>1, <1>2, <1>3, <1>4, <1>5, <1>6, <1>7 DEF Next

\* The one place where operators can get between the two queries: a tool's row is
\* lifted.  Then the tool is free at that moment, or everything is paused, and its
\* pause has been narrowed.
LEMMA RunsStep ==
  ASSUME KInv, KnowsItsTool, PausedIsStoppedUnlessNarrowed, [Next]_vars
  PROVE  KnowsItsTool' /\ PausedIsStoppedUnlessNarrowed'
<1> USE KillSwitchAssumption DEF KInv, TypeOK, Places, NamesATool, FollowsControls,
        KnowsItsTool, PausedIsStoppedUnlessNarrowed, Checking, At, Paused
<1>1. ASSUME NEW key \in Tools \cup {All}, Pause(key)
      PROVE  KnowsItsTool' /\ PausedIsStoppedUnlessNarrowed'
  BY <1>1 DEF Pause, Write
<1>2. ASSUME NEW key \in Tools \cup {All}, Resume(key)
      PROVE  KnowsItsTool' /\ PausedIsStoppedUnlessNarrowed'
  <2>1. CASE key = All
    BY <1>2, <2>1 DEF Resume, Write
  <2>2. CASE key \in Tools
    <3>2. ASSUME NEW c \in Callers, At(c, "checkTool"), caller[c].tool = key, key \in controls
          PROVE  free'[c] \/ narrowed'[c]
      <4>1. CASE All \in controls'
        BY <1>2, <2>2, <3>2, <4>1 DEF Resume, Write
      <4>2. CASE All \notin controls'
        BY <1>2, <2>2, <3>2, <4>2 DEF Resume, Write
      <4>3. QED
        BY <4>1, <4>2
    <3>3. QED
      BY <1>2, <3>2 DEF Resume, Write
  <2>3. QED
    BY <2>1, <2>2
<1>3. ASSUME NEW c \in Callers, NEW tool \in Tools, Call(c, tool)
      PROVE  KnowsItsTool' /\ PausedIsStoppedUnlessNarrowed'
  BY <1>3 DEF Call
<1>4. ASSUME NEW c \in Callers, ReadAll(c)
      PROVE  KnowsItsTool' /\ PausedIsStoppedUnlessNarrowed'
  BY <1>4 DEF ReadAll, GoTo, history
<1>5. ASSUME NEW c \in Callers, ReadTool(c)
      PROVE  KnowsItsTool' /\ PausedIsStoppedUnlessNarrowed'
  BY <1>5 DEF ReadTool, GoTo, history
<1>6. ASSUME NEW c \in Callers, Return(c)
      PROVE  KnowsItsTool' /\ PausedIsStoppedUnlessNarrowed'
  BY <1>6 DEF Return, history
<1>7. ASSUME UNCHANGED vars
      PROVE  KnowsItsTool' /\ PausedIsStoppedUnlessNarrowed'
  BY <1>7 DEF vars, history
<1>8. QED
  BY <1>1, <1>2, <1>3, <1>4, <1>5, <1>6, <1>7 DEF Next

\* pause() never blocks a call whose tool was at no moment of its check paused,
\* whatever operators do.
THEOREM OnlyPausedIsStoppedAlways == Spec => []OnlyPausedIsStopped
<1>1. Init => KInv /\ OnlyPausedIsStopped
  BY InitHolds
<1>2. KInv /\ OnlyPausedIsStopped /\ [Next]_vars => (KInv /\ OnlyPausedIsStopped)'
  BY KInvStep
<1>3. QED
  BY <1>1, <1>2, PTL DEF Spec

\* However operators pause and resume, the two queries of _check_kill_switch stop
\* every call whose tool is paused throughout the check, unless its own pause is
\* lifted between them under one of everything.
THEOREM PausedIsStoppedUnlessNarrowedAlways == Spec => []PausedIsStoppedUnlessNarrowed
<1> DEFINE Inv == KInv /\ OnlyPausedIsStopped /\ KnowsItsTool /\ PausedIsStoppedUnlessNarrowed
<1>1. Init => Inv
  BY InitHolds
<1>2. Inv /\ [Next]_vars => Inv'
  BY KInvStep, RunsStep
<1>3. QED
  BY <1>1, <1>2, PTL DEF Spec
=============================================================================
