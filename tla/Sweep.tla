------------------------------- MODULE Sweep -------------------------------
(***************************************************************************)
(* `vserve tune --sweep spec` (_run_spec_sweep in src/vserve/cli.py,       *)
(* src/vserve/sweep.py) among other launches.  It launches one profile per *)
(* way of speculative decoding, measures each under several loads, puts    *)
(* back the profile that was active, and recommends one.  The GPU lock is  *)
(* held by each launch, not between them.                                  *)
(***************************************************************************)
EXTENDS ActiveConfig, Sequences

CONSTANTS Me,            \* the user who sweeps
          Layers,        \* what native_mtp_layers may find; 0 for none, or none usable
          Depths,        \* DEFAULT_MTP_DEPTHS
          Low, High,     \* the smallest and the largest concurrency
          Tps,           \* throughputs that can be measured
          UserProfiles,  \* what a user may launch meanwhile
          First,         \* what may have been launched before
          MaxRuns        \* bound: launches by users

Off == <<"off", 0>>
Ngram == <<"ngram", 0>>
Mtp(k) == <<"mtp", k>>
Keys == {Off, Ngram} \cup {Mtp(Depths[i]) : i \in DOMAIN Depths}

ASSUME SweepAssumption ==
    /\ Me \in Users /\ Keys \subseteq Profiles \ Llama /\ UserProfiles \cup First \subseteq Profiles
    /\ Layers \subseteq Nat /\ Depths \in Seq(Nat \ {0}) /\ Tps \subseteq Nat
    /\ Low \in Nat /\ High \in Nat /\ Low < High /\ MaxRuns \in Nat

VARIABLES
    at,       \* where the sweep is
    todo,     \* the variants not yet begun, the current one first
    load,     \* the concurrency to be measured next
    target,   \* the profile to be put back
    measured, \* the cells of the table with a throughput: variant and concurrency
    failed,   \* some variant has an error point
    lost,     \* "Could not restore" was printed
    before,   \* what ran before the sweep (history)
    meddled,  \* a user launched something during the sweep (history)
    astray,   \* a measurement was made of another engine (history)
    runs

sweepVars == <<at, todo, load, target, measured, failed, lost, before, astray>>
vars == <<acVars, sweepVars, meddled, runs>>

Cells == Keys \X {Low, High}

TypeOK ==
    /\ ActiveTypeOK
    /\ at \in {"idle", "variant", "launching", "bench", "finally", "restoring", "done", "gone"}
    /\ todo \in Seq(Keys) /\ load \in {Low, High} /\ target \in Profiles \cup {NoProfile}
    /\ measured \subseteq Cells
    /\ {failed, lost, meddled, astray} \subseteq BOOLEAN
    /\ runs \in 0..MaxRuns
    /\ at \in {"launching", "restoring"} => job.by = Me

Init ==
    /\ ActiveInit(First)
    /\ at = "idle" /\ todo = <<>> /\ load = Low /\ target = NoProfile
    /\ measured = {} /\ failed = FALSE /\ lost = FALSE /\ before = unit
    /\ meddled = FALSE /\ astray = FALSE /\ runs = 0

-----------------------------------------------------------------------------
(* enumerate_spec_variants and recommend_variant.                          *)

\* A depth beyond the layers reuses them and must be a multiple.
DepthAllowed(layers, k) == layers > 0 /\ (k <= layers \/ k % layers = 0)

EnumerateSpecVariants(layers) ==
    LET upTo[i \in 0..Len(Depths)] ==
            IF i = 0 THEN <<Off, Ngram>>
            ELSE IF DepthAllowed(layers, Depths[i]) THEN Append(upTo[i-1], Mtp(Depths[i])) ELSE upTo[i-1]
    IN upTo[Len(Depths)]

\* What the benchmarks may have measured: the numbers do not steer the sweep,
\* so they are drawn when they are looked at.
Tables == [measured -> Tps]

\* rank_by_concurrency: the gain over the baseline in percent (as a multiple
\* of the baseline), 0 when there is no positive baseline.
Gain(t, v, c) ==
    IF <<Off, c>> \in DOMAIN t /\ t[<<Off, c>>] > 0
    THEN 100 * (t[<<v, c>>] - t[<<Off, c>>]) ELSE 0

\* A change of Regresses: the high concurrency is not looked at.
NeverRegresses(t, v) == FALSE
\* regresses_hi: a variant without a point at the high concurrency does not.
Regresses(t, v) == <<v, High>> \in DOMAIN t /\ Gain(t, v, High) < 0

Enough(t, v) == Gain(t, v, Low) > 0 /\ Gain(t, v, Low) >= 5 * t[<<Off, Low>>]

\* recommend_variant: of equal gains, the one ranked (and begun) first.
Recommended(t) ==
    LET good == {v \in Keys \ {Off} : <<v, Low>> \in DOMAIN t /\ Enough(t, v) /\ ~Regresses(t, v)}
        best == {v \in good : \A w \in good : Gain(t, w, Low) <= Gain(t, v, Low)}
    IN IF good = {} THEN Off
       ELSE IF Ngram \in best THEN Ngram
       ELSE CHOOSE v \in best : \A w \in best : v[2] <= w[2]

-----------------------------------------------------------------------------
(* The sweep.                                                              *)

\* A change of Mine: the restoring launch is given up by somebody else.
MineLaunching == at = "launching"
\* The launch under way is the sweep's.
Mine == at \in {"launching", "restoring"}
Variant == Head(todo)

Begin ==
    /\ at = "idle"
    /\ Running = {} \/ session = Me
    /\ session' = IF Running = {} THEN NoUser ELSE session
    /\ \E n \in Layers : todo' = EnumerateSpecVariants(n)
    /\ target' = link["vllm"] /\ before' = unit /\ meddled' = (job # NoJob)
    /\ at' = "variant"
    /\ UNCHANGED <<config, version, unit, job, late, load, measured, failed, lost, astray, runs>>

\* One variant failing does not abort the sweep.
VariantFails ==
    /\ failed' = TRUE
    /\ todo' = Tail(todo) /\ load' = Low /\ at' = "variant"

LaunchVariant ==
    /\ at = "variant" /\ todo # <<>>
    /\ \/ job = NoJob /\ Launch(Me, Variant) /\ at' = "launching" /\ UNCHANGED <<todo, load, failed>>
       \/ job # NoJob /\ VariantFails /\ UNCHANGED job
    /\ UNCHANGED <<config, version, unit, session, late, target, measured, lost, before, meddled, astray, runs>>

\* A change of Launched: an error of the launch is not looked at.
LaunchedAnyway == TRUE
Launched == job.ok
LaunchReturns ==
    /\ at = "launching" /\ At("ended")
    /\ job' = NoJob
    /\ IF Launched THEN at' = "bench" /\ UNCHANGED <<todo, load, failed>> ELSE VariantFails
    /\ UNCHANGED <<config, version, unit, session, late, target, measured, lost, before, meddled, astray, runs>>

\* One benchmark, of whatever answers at the port.
Bench ==
    /\ at = "bench"
    /\ measured' = measured \cup {<<Variant, load>>}
    /\ astray' = (astray \/ unit["vllm"].profile # Variant)
    /\ IF load = Low THEN load' = High /\ UNCHANGED <<at, todo>>
                     ELSE load' = Low /\ todo' = Tail(todo) /\ at' = "variant"
    /\ UNCHANGED <<acVars, target, failed, lost, before, meddled, runs>>

\* The benchmark, or the model's name, raises an exception.
BenchFails ==
    /\ at = "bench" /\ VariantFails
    /\ UNCHANGED <<acVars, target, measured, lost, before, meddled, astray, runs>>

LoopEnds ==
    /\ at = "variant" /\ todo = <<>> /\ at' = "finally"
    /\ UNCHANGED <<acVars, todo, load, target, measured, failed, lost, before, meddled, astray, runs>>

\* A change of PutBack: as an else: to the try, not a finally.
PutBackIfFine == target # NoProfile /\ ~failed
PutBack == target # NoProfile

\* The finally: a lock that is held is an error like any other.
Finally ==
    /\ at = "finally"
    /\ \/ PutBack /\ job = NoJob /\ Launch(Me, target) /\ at' = "restoring" /\ UNCHANGED lost
       \/ PutBack /\ job # NoJob /\ lost' = TRUE /\ at' = "done" /\ UNCHANGED job
       \/ ~PutBack /\ at' = "done" /\ UNCHANGED <<job, lost>>
    /\ UNCHANGED <<config, version, unit, session, late, todo, load, target, measured, failed, before,
                   meddled, astray, runs>>

RestoreReturns ==
    /\ at = "restoring" /\ At("ended")
    /\ job' = NoJob /\ lost' = ~job.ok /\ at' = "done"
    /\ UNCHANGED <<config, version, unit, session, late, todo, load, target, measured, failed, before,
                   meddled, astray, runs>>

\* Ctrl-C is no Exception: the loop is left for the finally and no table will
\* be printed; a restoring launch is left for good.  A kill leaves everything
\* as it is.
Interrupt(kill) ==
    /\ at \notin {"idle", "finally", "done", "gone"} \/ (kill /\ at = "finally")
    /\ job' = IF Mine THEN NoJob ELSE job
    /\ at' = IF kill \/ at = "restoring" THEN "gone" ELSE "finally"
    /\ todo' = <<>> /\ load' = Low /\ measured' = {}
    /\ UNCHANGED <<config, version, unit, session, late, target, failed, lost, before, meddled,
                   astray, runs>>

-----------------------------------------------------------------------------
(* Everybody else.                                                         *)

UserLaunch ==
    /\ runs < MaxRuns /\ runs' = runs + 1 /\ job = NoJob
    /\ \E u \in Users, p \in UserProfiles : Launch(u, p)
    /\ meddled' = (at # "idle")
    /\ UNCHANGED <<config, version, unit, session, late, sweepVars>>

\* A user's launch ends, or is interrupted.
UserDone ==
    /\ job # NoJob /\ ~Mine /\ job' = NoJob
    /\ UNCHANGED <<config, version, unit, session, late, sweepVars, meddled, runs>>

\* The model ends with the sweep.
Next ==
    /\ at \notin {"done", "gone"}
    /\ \/ Begin \/ LaunchVariant \/ LaunchReturns \/ Bench \/ BenchFails \/ LoopEnds
       \/ Finally \/ RestoreReturns \/ \E kill \in BOOLEAN : Interrupt(kill)
       \/ UserLaunch \/ UserDone
       \/ Steps(~Mine) /\ UNCHANGED <<sweepVars, meddled, runs>>
       \/ (\E b \in Backends : AutoRestart(b)) /\ UNCHANGED <<sweepVars, meddled, runs>>
       \/ Upgrade /\ UNCHANGED <<sweepVars, meddled, runs>>

Spec == Init /\ [][Next]_vars

-----------------------------------------------------------------------------
\* "restores whatever profile was active before the sweep ... so a mid-sweep
\* failure never leaves the box down": where a vLLM engine ran the active
\* profile before the sweep and nobody else launched, the same profile runs after it, or the
\* sweep said that it could not be restored (the finally of _run_spec_sweep).
RestoredOrSaid ==
    at = "done" /\ target # NoProfile /\ before["vllm"].profile = target /\ ~meddled /\ ~lost
        => unit["vllm"].profile = target

\* The same of whatever ran before.  An engine of llama.cpp is stopped by the
\* first variant's launch and not started again: only active.yaml is captured.
WholeBoxRestored ==
    at = "done" /\ ~meddled /\ ~lost
        => \A b \in Backends : unit[b].profile = before[b].profile

\* Every throughput in the table was measured on the engine of its row, if
\* nobody else launched: a failed launch is not benchmarked, though an engine
\* of an earlier variant may still answer.
RowsAreTheirVariants == ~meddled => ~astray

\* recommend_variant: "beats the off baseline by at least min_gain_pct at the
\* LOW concurrency AND does not regress the HIGH concurrency below baseline"
\* (sweep.py:147-149).  What is recommended was measured under both loads.
HeldUp(t, v) ==
    /\ {<<v, Low>>, <<Off, Low>>, <<v, High>>} \subseteq DOMAIN t
    /\ 100 * t[<<v, Low>>] >= 105 * t[<<Off, Low>>]
    /\ <<Off, High>> \in DOMAIN t => t[<<v, High>>] >= t[<<Off, High>>]
RecommendedHeldUp ==
    at = "done" => \A t \in Tables : Recommended(t) # Off => HeldUp(t, Recommended(t))

\* The same when every variant measured under the low load got through the
\* high one; and then no variant that held up gained more.
RecommendedHeldUpIfMeasured ==
    at = "done" /\ (\A v \in Keys : <<v, Low>> \in measured => <<v, High>> \in measured) =>
        \A t \in Tables :
            LET r == Recommended(t)
            IN /\ r # Off => HeldUp(t, r)
               /\ \A v \in Keys \ {Off} : HeldUp(t, v) /\ t[<<v, Low>>] > t[<<Off, Low>>] /\ t[<<Off, Low>>] > 0
                      => r # Off /\ t[<<r, Low>>] >= t[<<v, Low>>]
=============================================================================
