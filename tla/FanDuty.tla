------------------------------- MODULE FanDuty ------------------------------
(***************************************************************************)
(* What the fan daemons promise together, whoever starts, signals or kills *)
(* them: one after the other takes the fans, has them, and gives them      *)
(* back.  FanDaemon, one daemon in detail, and FanService, many of them    *)
(* with the commands, implement it.                                        *)
(***************************************************************************)
VARIABLES
    duty,    \* of the daemon that is on duty: "taking" the fans, "on", "returning"
             \* them; "none" when no daemon is on duty
    manual,  \* a fan is under manual control
    faults   \* what may go wrong; never changes

vars == <<duty, manual, faults>>

Kinds == {"crash",    \* the daemon on duty is killed
          "restore",  \* NVML refuses automatic control
          "late"}     \* a command's clean-up comes late, into the duty of another

Init == duty = "none" /\ manual = FALSE /\ faults \in SUBSET Kinds

Becomes(from, to) == duty = from /\ duty' = to /\ UNCHANGED faults

Begin == Becomes("none", "taking") /\ UNCHANGED manual

\* There is no GPU to take fans from.
Unable == Becomes("taking", "none") /\ UNCHANGED manual

Take == Becomes("taking", "on") /\ manual' = TRUE

\* A fan refuses, after some or none of the others.
TakeFails == Becomes("taking", "returning") /\ manual' \in {manual, TRUE}

Leave == Becomes("on", "returning") /\ UNCHANGED manual

GiveBack == Becomes("returning", "none") /\ manual' = FALSE

GiveBackFails ==
    /\ "restore" \in faults
    /\ Becomes("returning", "none") /\ manual' \in {manual, FALSE}

Crash ==
    /\ "crash" \in faults
    /\ duty # "none" /\ Becomes(duty, "none") /\ UNCHANGED manual

\* `vserve fan off` cleans up after a daemon that was killed.
CleanUp ==
    /\ duty = "none" \/ "late" \in faults
    /\ manual' = FALSE /\ UNCHANGED <<duty, faults>>

Next ==
    \/ Begin \/ Unable \/ Take \/ TakeFails \/ Leave \/ GiveBack \/ GiveBackFails \/ Crash
    \/ CleanUp

Spec == Init /\ [][Next]_vars
=============================================================================
