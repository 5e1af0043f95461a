----------------------------- MODULE KeepConfig -----------------------------
(***************************************************************************)
(* S03keepconfig: the files of /etc that make a board the user's own are   *)
(* copied to /home when it goes down, and put back when it comes up with   *)
(* an /etc that was flashed.  Power may go at any moment, /home may be     *)
(* read-only, and a copy may fail on a full partition.  A rename is        *)
(* atomic; the contents of the generation stamp are never compared, so     *)
(* only its existence is kept.                                             *)
(***************************************************************************)
EXTENDS Naturals, Sequences

CONSTANTS
    Files,   \* FILES and KEYS, in the order of the loop
    Edits,   \* what users write
    None

VARIABLES
    pc,        \* "off", "up", or the half of the script that runs
    k, stage,  \* the loop: its file, and how far its copy is
    new,       \* the file.new that is being written
    home,      \* /home is mounted read-write
    etc, stamp,
    backup, generation, disabled,
    failed,    \* a copy of this run failed
    \* What the user can count on.
    saved,     \* /etc at the end of the last save
    spoiled,   \* that save was cut short or a copy failed
    restored,  \* this /etc was restored from it
    touched, mine \* files edited since, and their contents

scriptVars == <<pc, k, stage, new, failed>>
userVars == <<saved, spoiled, restored, touched, mine>>
vars == <<scriptVars, home, etc, stamp, backup, generation, disabled, userVars>>

Names == {Files[j] : j \in DOMAIN Files}
Half == "half"
Unknown == "unknown"
Empty == [f \in Names |-> None]

\* No network, and accounts of its own.
Factory == [f \in Names |-> IF f = Files[1] THEN None ELSE "factory"]

Init ==
    /\ pc = "off" /\ k = 1 /\ stage = "copy" /\ new = None /\ failed = FALSE
    /\ home = TRUE
    /\ etc = Factory /\ stamp = FALSE
    /\ backup = Empty /\ generation = FALSE /\ disabled = FALSE
    /\ saved = Empty /\ spoiled = FALSE /\ restored = FALSE
    /\ touched = {} /\ mine = [f \in Names |-> Unknown]

----------------------------------------------------------------------------
\* Users, and power.

\* A user changes or deletes a file.
Edit(f, v) ==
    /\ pc = "up" /\ etc[f] # v
    /\ etc' = [etc EXCEPT ![f] = v]
    /\ touched' = touched \cup {f}
    /\ mine' = [mine EXCEPT ![f] = IF stamp THEN v ELSE Unknown]
    /\ UNCHANGED <<scriptVars, home, stamp, backup, generation, disabled, saved, spoiled, restored>>

Disable ==
    /\ pc = "up" /\ home
    /\ disabled' = ~disabled
    /\ UNCHANGED <<scriptVars, home, etc, stamp, backup, generation, userVars>>

PowerCut ==
    /\ pc # "off"
    /\ pc' = "off" /\ k' = 1 /\ stage' = "copy" /\ failed' = FALSE
    /\ UNCHANGED <<new, home, etc, stamp, backup, generation, disabled, userVars>>

\* flash.sh rewrites /etc; only with --parts, and without --erase, it keeps
\* /home.
Flash ==
    /\ pc = "off"
    /\ etc' = Factory /\ stamp' = FALSE
    /\ restored' = FALSE /\ touched' = {} /\ mine' = [f \in Names |-> Unknown]
    /\ \/ UNCHANGED <<backup, generation, disabled, saved, spoiled>>
       \/ /\ backup' = Empty /\ generation' = FALSE /\ disabled' = FALSE
          /\ saved' = Empty /\ spoiled' = FALSE
    /\ UNCHANGED <<scriptVars, home>>

----------------------------------------------------------------------------
\* One file, from a directory to the other: beside the target, then renamed.

Advance == k' = k + 1 /\ stage' = "copy"

\* The file is not there.
Skip(from) ==
    /\ k <= Len(Files) /\ stage = "copy"
    /\ from[Files[k]] = None
    /\ Advance
    /\ UNCHANGED <<new, failed>>

\* Fault: the target itself is written.
Copy_InPlace(from, to, to_next) ==
    /\ k <= Len(Files)
    /\ \/ stage = "copy" /\ from[Files[k]] # None
          /\ to_next = [to EXCEPT ![Files[k]] = Half]
          /\ stage' = "copying" /\ UNCHANGED <<k, new, failed>>
       \/ stage = "copying"
          /\ to_next = [to EXCEPT ![Files[k]] = from[Files[k]]]
          /\ Advance /\ UNCHANGED <<new, failed>>

Copy(from, to, to_next) ==
    /\ k <= Len(Files)
    /\ \/ /\ stage = "copy" /\ from[Files[k]] # None
          /\ new' = Half /\ stage' = "copying"
          /\ to_next = to /\ UNCHANGED <<k, failed>>
       \/ /\ stage = "copying"
          /\ new' = from[Files[k]] /\ stage' = "rename"
          /\ to_next = to /\ UNCHANGED <<k, failed>>
       \/ /\ stage = "rename"
          /\ to_next = [to EXCEPT ![Files[k]] = new]
          /\ new' = None /\ Advance /\ UNCHANGED failed

\* cp or mv reports an error: the loop goes on.
CopyFails ==
    /\ k <= Len(Files) /\ stage # "copy"
    /\ failed' = TRUE
    /\ Advance
    /\ UNCHANGED new

----------------------------------------------------------------------------
\* start.

\* Fault: a missing network is taken for a factory /etc.
Gate_NoNetwork(mounted) == ~disabled /\ mounted /\ etc[Files[1]] = None /\ generation

Gate(mounted) == ~disabled /\ mounted /\ ~stamp /\ generation

Boot ==
    /\ pc = "off"
    /\ home' \in BOOLEAN
    /\ pc' = IF Gate(home') THEN "start" ELSE "up"
    /\ UNCHANGED <<k, stage, new, failed, etc, stamp, backup, generation, disabled, userVars>>

\* A file that matches is left alone.
restore_one ==
    /\ pc = "start"
    /\ \/ Skip(backup) /\ UNCHANGED <<etc, spoiled>>
       \/ /\ k <= Len(Files) /\ stage = "copy" /\ backup[Files[k]] = etc[Files[k]]
          /\ Advance /\ UNCHANGED <<new, failed, etc, spoiled>>
       \/ /\ k <= Len(Files) /\ (stage = "copy" => backup[Files[k]] # etc[Files[k]])
          /\ Copy(backup, etc, etc')
          /\ UNCHANGED spoiled
       \/ CopyFails /\ spoiled' = TRUE /\ UNCHANGED etc
    /\ UNCHANGED <<pc, home, stamp, backup, generation, disabled, saved, restored, touched, mine>>

\* Fault: the stamp is written first, so that nothing is restored twice.
StartEnd_Early ==
    /\ pc = "start"
    /\ \/ ~stamp /\ stamp' = TRUE /\ restored' = TRUE /\ UNCHANGED scriptVars
       \/ /\ stamp /\ k > Len(Files)
          /\ pc' = "up" /\ k' = 1 /\ stage' = "copy" /\ failed' = FALSE
          /\ UNCHANGED <<new, stamp, restored>>
    /\ UNCHANGED <<home, etc, backup, generation, disabled, saved, spoiled, touched, mine>>

\* The stamp comes last; without room for it the next boot restores again.
StartEnd ==
    /\ pc = "start" /\ k > Len(Files)
    /\ stamp' \in BOOLEAN
    /\ restored' = TRUE
    /\ pc' = "up" /\ k' = 1 /\ stage' = "copy" /\ failed' = FALSE
    /\ UNCHANGED <<new, home, etc, backup, generation, disabled, saved, spoiled, touched, mine>>

----------------------------------------------------------------------------
\* stop and save.

\* A live /etc gets its stamp, unless there is no room for it.
StopBegin ==
    /\ pc = "up" /\ ~disabled /\ home
    /\ stamp' \in {stamp, TRUE}
    /\ spoiled' = TRUE
    /\ pc' = "stop" /\ k' = 1 /\ stage' = "copy" /\ failed' = FALSE
    /\ UNCHANGED <<new, home, etc, backup, generation, disabled, saved, restored, touched, mine>>

save_one ==
    /\ pc = "stop"
    /\ \/ Skip(etc) /\ UNCHANGED backup
       \/ Copy(etc, backup, backup')
       \/ CopyFails /\ UNCHANGED backup
    /\ UNCHANGED <<pc, home, etc, stamp, generation, disabled, userVars>>

\* The generation names the /etc of the backup.  The board goes down, or the
\* user asked for a save; restart goes on with start.
StopEnd ==
    /\ pc = "stop" /\ k > Len(Files)
    /\ generation' \in (IF stamp THEN {generation, TRUE} ELSE {generation})
    /\ saved' = etc /\ spoiled' = failed
    /\ pc' \in {"off", "up"} \cup (IF ~stamp /\ generation THEN {"start"} ELSE {})
    /\ k' = 1 /\ stage' = "copy" /\ failed' = FALSE
    /\ UNCHANGED <<new, home, etc, stamp, backup, disabled, restored, touched, mine>>

Next ==
    \/ \E f \in Names, v \in Edits \cup {None} : Edit(f, v)
    \/ Disable \/ PowerCut \/ Flash
    \/ Boot \/ restore_one \/ StartEnd
    \/ StopBegin \/ save_one \/ StopEnd

Spec == Init /\ [][Next]_vars

----------------------------------------------------------------------------
\* "A power cut during the write cannot leave a half-copied credential file
\* behind" (save_one), nor does one during a restore.
WholeFiles == \A f \in Names : etc[f] # Half /\ backup[f] # Half

\* After an update the board has every file of its last complete save again,
\* however often power is cut while they are put back.
ConfigurationSurvives ==
    pc = "up" /\ restored /\ ~spoiled =>
      \A f \in Names \ touched : saved[f] # None => etc[f] = saved[f]

\* A stamped /etc is live (start): what a user changed or deleted in it stays
\* so over reboots and power cuts, until the next flash.
EditsStay == \A f \in touched : mine[f] # Unknown => etc[f] = mine[f]
=============================================================================
