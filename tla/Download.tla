------------------------------ MODULE Download ------------------------------
(***************************************************************************)
(* `vserve add` and `vserve rm` on one model of the hub: the download lock *)
(* with the metadata its waiters read, the wait for somebody else's        *)
(* download, the decision by what is on disk afterwards, the files and the *)
(* model roots they end up in (src/vserve/cli.py, downloader.py, lock.py). *)
(***************************************************************************)
EXTENDS Naturals, FiniteSets

CONSTANTS Terminals,
          Variants,
          FilesOf,      \* [Variants -> the weight files of the variant]
          InName,       \* the variants whose label occurs in the name of the model
          InSubdir,     \* the variants kept in one subdirectory each; others lie at the top
          Nobody

ASSUME DownloadAssumption ==
    /\ \A v \in Variants : IsFiniteSet(FilesOf[v]) /\ FilesOf[v] # {}
    /\ InName \subseteq Variants /\ InSubdir \subseteq Variants
    /\ Nobody \notin Terminals /\ {"repo", "variant"} \cap Variants = {}

VARIABLES
    gguf,       \* whether the repository has GGUF variants or others; never changes
    holder,     \* who has the flock
    meta,       \* whom the text in the lock file names
    disk,       \* the weight files in each model root
    ignored,    \* whether the repository's root is marked .vserve-ignore
    pc, want,   \* per terminal: where it is, the variants it selected
    todo,       \* per terminal: the variants it has still to begin (GGUF) or to link
    now,        \* per terminal: the GGUF variant it is fetching
    left,       \* per terminal: the files it has still to fetch
    held,       \* per terminal: who held the lock since its flock failed (history)
    orphaned,   \* the text in the lock file is a dead holder's (history)
    disturbed,  \* the terminals whose download a removal overlapped (history)
    deserted    \* a retry was left to a mere probe and none began since (history)

lock    == <<holder, meta>>
files   == <<disk, ignored>>
fetch   == <<todo, now, left>>
history == <<held, orphaned, disturbed, deserted>>
vars    == <<gguf, lock, files, pc, want, fetch, history>>

Roots    == Variants \cup {"repo", "variant"}
AllFiles == UNION {FilesOf[v] : v \in Variants}
People   == Terminals \cup {Nobody}

Waiting  == {"wait", "probe", "probed", "unprobe", "decide", "retry"}
Fetching == {"named", "clear", "fetch", "link", "sibling", "success"}
PCs == {"idle", "try", "refused", "failure", "unlock"} \cup Waiting \cup Fetching

TypeOK ==
    /\ gguf \in BOOLEAN
    /\ holder \in People /\ meta \in People
    /\ disk \in [Roots -> SUBSET AllFiles] /\ ignored \in BOOLEAN
    /\ pc \in [Terminals -> PCs]
    /\ want \in [Terminals -> SUBSET Variants] /\ todo \in [Terminals -> SUBSET Variants]
    /\ now \in [Terminals -> Variants \cup {Nobody}]
    /\ left \in [Terminals -> SUBSET AllFiles]
    /\ held \in [Terminals -> SUBSET Terminals]
    /\ orphaned \in BOOLEAN /\ disturbed \subseteq Terminals /\ deserted \in BOOLEAN

Init ==
    /\ gguf \in BOOLEAN
    /\ holder = Nobody /\ meta = Nobody
    /\ disk = [r \in Roots |-> {}] /\ ignored = FALSE
    /\ pc = [t \in Terminals |-> "idle"]
    /\ want = [t \in Terminals |-> {}] /\ todo = [t \in Terminals |-> {}]
    /\ now = [t \in Terminals |-> Nobody] /\ left = [t \in Terminals |-> {}]
    /\ held = [t \in Terminals |-> {}]
    /\ orphaned = FALSE /\ disturbed = {} /\ deserted = FALSE

-----------------------------------------------------------------------------
(* Where the files of a variant go.                                        *)

\* Mutant: every GGUF variant goes to the one root.
SharedRoot(v) == "variant"

\* gguf_variant_root: a root named after the label, unless the model's name has it.
GgufRoot(v) == IF v \in InName THEN "variant" ELSE v

\* expected_download_roots
ExpectedRoots(V) == IF gguf THEN {GgufRoot(v) : v \in V} ELSE {"repo"}

\* download_roots_ready: some weight file in each.
RootsReady(V) == V # {} /\ \A r \in ExpectedRoots(V) : disk[r] # {}

\* root_has_top_level_weights, of the repository's root.
HasTopLevel == disk["repo"] \cap UNION {FilesOf[v] : v \in Variants \ InSubdir} # {}

\* Mutant: what lies at the top gets no root of its own, as when it is selected alone.
SubdirsOnly(V) == V \cap InSubdir

\* The variants that get a root of their own: several always, one if it is in a
\* subdirectory (materialize_subdirectory_variants).
Single(V) == \E v \in V : V = {v}
ToLink(V) == IF Single(V) THEN V \cap InSubdir ELSE V

\* The root `vserve add` returns for a downloaded variant.
RunRoot(v, V) == IF gguf THEN GgufRoot(v)
                 ELSE IF Single(V) /\ (HasTopLevel \/ v \notin InSubdir) THEN "repo" ELSE v

\* The files that can be read in a root: what is linked goes with its source.  Where the
\* file system has no symbolic links there are copies instead, and no less can be read.
Readable(r) == IF gguf THEN disk[r] ELSE disk[r] \cap disk["repo"]

-----------------------------------------------------------------------------
(* VserveLock                                                              *)

Goto(t, s) == pc' = [pc EXCEPT ![t] = s]

\* The flock itself; the commands it has refused see a new holder go by.
Flock(t) ==
    /\ holder = Nobody /\ holder' = t
    /\ held' = [s \in Terminals |-> IF pc[s] = "refused" THEN held[s] \cup {t} ELSE held[s]]

\* The metadata is written after the flock, and emptied before the unlock.
SetMeta(m) == meta' = m /\ orphaned' = FALSE

\* What was still to do is dropped with the download.
Dropped(t) ==
    /\ todo' = [todo EXCEPT ![t] = {}] /\ now' = [now EXCEPT ![t] = Nobody]
    /\ left' = [left EXCEPT ![t] = {}]

\* The command returns: its locals go with it.
Done(t) ==
    /\ Goto(t, "idle") /\ Dropped(t)
    /\ want' = [want EXCEPT ![t] = {}]
    /\ held' = [held EXCEPT ![t] = {}] /\ disturbed' = disturbed \ {t}

-----------------------------------------------------------------------------
(* vserve add                                                              *)

\* A repository, some of its variants, and the confirmation.
Add(t) == \E V \in SUBSET Variants \ {{}} :
    /\ pc[t] = "idle"
    /\ want' = [want EXCEPT ![t] = V]
    /\ Goto(t, "try")
    /\ UNCHANGED <<lock, files, fetch, history>>

\* From here the download is this command's.
Begins(t) ==
    /\ Flock(t)
    /\ Goto(t, "named")
    /\ todo' = [todo EXCEPT ![t] = want[t]]
    /\ deserted' = FALSE
    /\ UNCHANGED <<meta, files, want, now, left, orphaned, disturbed>>

Acquire(t) ==
    /\ pc[t] = "try"
    /\ \/ Begins(t)
       \/ /\ holder # Nobody
          /\ held' = [held EXCEPT ![t] = {holder}]
          /\ Goto(t, "refused")
          /\ UNCHANGED <<lock, files, want, fetch, orphaned, disturbed, deserted>>

\* LockHeld reads the metadata after its flock has failed; whom it names gets a message.
ReadHolder(t) ==
    /\ pc[t] = "refused"
    /\ held' = [held EXCEPT ![t] = {}]
    /\ Goto(t, "wait")
    /\ UNCHANGED <<lock, files, want, fetch, orphaned, disturbed, deserted>>

\* wait_for_release: every 0.2 s the waiter takes the lock for a moment ...
Probe(t) ==
    /\ pc[t] = "wait" /\ Flock(t) /\ Goto(t, "probe")
    /\ UNCHANGED <<meta, files, want, fetch, orphaned, disturbed, deserted>>

ProbeNamed(t) ==
    /\ pc[t] = "probe" /\ SetMeta(t) /\ Goto(t, "probed")
    /\ UNCHANGED <<holder, files, want, fetch, held, disturbed, deserted>>

ProbeTruncates(t) ==
    /\ pc[t] = "probed" /\ SetMeta(Nobody) /\ Goto(t, "unprobe")
    /\ UNCHANGED <<holder, files, want, fetch, held, disturbed, deserted>>

\* Mutant: the waiter keeps the lock it probed with.
ProbeKeeps(t) ==
    /\ pc[t] = "unprobe" /\ Goto(t, "decide")
    /\ UNCHANGED <<lock, files, want, fetch, history>>

\* ... and gives it back.
ProbeReleases(t) ==
    /\ pc[t] = "unprobe" /\ holder' = Nobody /\ Goto(t, "decide")
    /\ UNCHANGED <<meta, files, want, fetch, history>>

\* Two hours are over.
TimesOut(t) ==
    /\ pc[t] = "wait" /\ holder # Nobody
    /\ Done(t)
    /\ UNCHANGED <<lock, files, orphaned, deserted>>

\* What the other download left decides: with weights in every root it is ready.
Decide(t) ==
    /\ pc[t] = "decide"
    /\ \/ /\ RootsReady(want[t])
          /\ Done(t) /\ deserted' = FALSE
       \/ /\ ~RootsReady(want[t])
          /\ Goto(t, "retry") /\ UNCHANGED <<want, fetch, held, disturbed, deserted>>
    /\ UNCHANGED <<lock, files, orphaned>>

\* The lock once more; whoever has it now is taken for another download.
Downloading(s) == pc[s] \in Fetching \cup {"failure", "unlock"}

Retry(t) ==
    /\ pc[t] = "retry"
    /\ \/ Begins(t)
       \/ /\ holder # Nobody
          /\ deserted' = (deserted \/ ~Downloading(holder))
          /\ Done(t)
          /\ UNCHANGED <<lock, files, orphaned>>

Named(t) ==
    /\ pc[t] = "named" /\ SetMeta(t)
    /\ IF gguf THEN Goto(t, "clear") /\ UNCHANGED left
       ELSE Goto(t, "fetch") /\ left' = [left EXCEPT ![t] = UNION {FilesOf[v] : v \in want[t]}]
    /\ UNCHANGED <<holder, files, want, todo, now, held, disturbed, deserted>>

\* A GGUF variant's root is emptied before its files are fetched into it.
ClearStale(t) == \E v \in todo[t] :
    /\ pc[t] = "clear"
    /\ todo' = [todo EXCEPT ![t] = @ \ {v}]
    /\ now' = [now EXCEPT ![t] = v]
    /\ left' = [left EXCEPT ![t] = FilesOf[v]]
    /\ disk' = [disk EXCEPT ![GgufRoot(v)] = {}]
    /\ Goto(t, "fetch")
    /\ UNCHANGED <<lock, ignored, want, history>>

\* hf_hub_download one after the other, or snapshot_download in any order.
FetchFile(t) == \E f \in left[t] :
    LET r    == IF gguf THEN GgufRoot(now[t]) ELSE "repo"
        last == left[t] = {f} IN
    /\ pc[t] = "fetch"
    /\ disk' = [disk EXCEPT ![r] = @ \cup {f}]
    /\ left' = [left EXCEPT ![t] = @ \ {f}]
    /\ Goto(t, IF ~last THEN "fetch" ELSE IF ~gguf THEN "link"
               ELSE IF todo[t] = {} THEN "success" ELSE "clear")
    /\ UNCHANGED <<lock, ignored, want, todo, now, history>>

\* One variant is run from the repository's root if that has weights at its top,
\* whosever they are; otherwise from a root beside it, as several are.
Materialize(t) ==
    /\ pc[t] = "link"
    /\ IF Single(want[t]) /\ HasTopLevel
       THEN ignored' = FALSE /\ Goto(t, "success") /\ UNCHANGED todo
       ELSE todo' = [todo EXCEPT ![t] = ToLink(want[t])] /\ Goto(t, "sibling") /\ UNCHANGED ignored
    /\ UNCHANGED <<lock, disk, want, now, left, history>>

\* link_or_copy, file by file: a source that is not there is passed over without a word;
\* so is an old entry that cannot be removed, which stays.
LinkVariant(t) == \E v \in todo[t] :
    /\ pc[t] = "sibling"
    /\ todo' = [todo EXCEPT ![t] = @ \ {v}]
    /\ disk' = [disk EXCEPT ![v] = @ \cup (disk["repo"] \cap FilesOf[v])]
    /\ UNCHANGED <<lock, ignored, pc, want, now, left, history>>

\* The mark hides the repository's root from the listing once its variants have theirs.
MarkSource(t) ==
    /\ pc[t] = "sibling" /\ todo[t] = {}
    /\ ignored' = IF ToLink(want[t]) # {} /\ (~Single(want[t]) \/ ~HasTopLevel) THEN TRUE
                  ELSE ignored /\ ~HasTopLevel
    /\ Goto(t, "success")
    /\ UNCHANGED <<lock, disk, want, fetch, history>>

\* Stopped after some of a variant's files, perhaps with the old entry of the next gone.
Interrupted(t) ==
    \/ UNCHANGED disk
    \/ /\ pc[t] = "sibling"
       /\ \E v \in todo[t] : \E f \in disk["repo"] \cap FilesOf[v] :
          \E linked \in SUBSET (disk["repo"] \cap FilesOf[v]) :
              disk' = [disk EXCEPT ![v] = (@ \ {f}) \cup linked]

\* Any of it may raise: the error is reported and the command exits.
FetchFails(t) ==
    /\ pc[t] \in {"clear", "fetch", "link", "sibling"}
    /\ Interrupted(t)
    /\ Goto(t, "failure") /\ Dropped(t)
    /\ UNCHANGED <<lock, ignored, want, history>>

\* Mutant: the lock is closed without emptying the file.
TruncateLate(t) ==
    /\ pc[t] \in {"success", "failure"} /\ holder' = Nobody /\ Done(t)
    /\ UNCHANGED <<meta, files, orphaned, deserted>>

\* VserveLock.release in the finally, of either outcome.
Truncate(t) ==
    /\ pc[t] \in {"success", "failure"} /\ SetMeta(Nobody) /\ Goto(t, "unlock")
    /\ UNCHANGED <<holder, files, want, fetch, held, disturbed, deserted>>

Release(t) ==
    /\ pc[t] = "unlock" /\ holder' = Nobody
    /\ Done(t)
    /\ UNCHANGED <<meta, files, orphaned, deserted>>

-----------------------------------------------------------------------------
\* vserve rm deletes one root, without the lock; rmtree may stop half-way.
Remove(t) == \E r \in Roots : \E rest \in SUBSET disk[r] :
    /\ pc[t] = "idle" /\ disk[r] # {} /\ rest # disk[r]
    /\ disk' = [disk EXCEPT ![r] = rest]
    /\ IF r = "repo" THEN ignored' \in {ignored, FALSE} ELSE UNCHANGED ignored
    /\ disturbed' = disturbed \cup {s \in Terminals : pc[s] \in Fetching}
    /\ UNCHANGED <<lock, pc, want, fetch, held, orphaned, deserted>>

\* The kernel frees the lock of a command that dies; its text stays.
Kill(t) ==
    /\ pc[t] # "idle"
    /\ IF holder = t THEN holder' = Nobody /\ orphaned' = (orphaned \/ meta # Nobody)
                      ELSE UNCHANGED <<holder, orphaned>>
    /\ deserted' = FALSE
    /\ Interrupted(t)
    /\ Done(t)
    /\ UNCHANGED <<meta, ignored>>

Step(t) ==
    \/ Add(t) \/ Acquire(t) \/ ReadHolder(t) \/ Probe(t) \/ ProbeNamed(t)
    \/ ProbeTruncates(t) \/ ProbeReleases(t) \/ TimesOut(t) \/ Decide(t) \/ Retry(t)
    \/ Named(t) \/ ClearStale(t) \/ FetchFile(t) \/ Materialize(t) \/ LinkVariant(t)
    \/ MarkSource(t) \/ FetchFails(t) \/ Truncate(t) \/ Release(t)
    \/ Remove(t) \/ Kill(t)

Next == gguf' = gguf /\ \E t \in Terminals : Step(t)

Spec == Init /\ [][Next]_vars

-----------------------------------------------------------------------------
(* Properties.                                                             *)

\* The variant's root is the repository's for weights of somebody else's at its top: the
\* variant's own stay in their subdirectory (downloader.py, 158-162).
Shadowed(v, V) == ~gguf /\ V = {v} /\ v \in InSubdir /\ HasTopLevel

\* Every file at the top of a root that the listing of the models shows.
Served(v, V) ==
    /\ FilesOf[v] \subseteq Readable(RunRoot(v, V))
    /\ RunRoot(v, V) = "repo" => v \notin InSubdir /\ ~ignored

\* A download that ends well has every file of every variant in the root the variant is
\* run from, a root that is listed and has the files at its top unless others are there
\* already; and unless `vserve rm` came in between (README, 310: "variants do not share
\* a directory").
DownloadedIsComplete ==
    \A t \in Terminals : pc[t] = "success" /\ t \notin disturbed =>
        \A v \in want[t] :
            /\ FilesOf[v] \subseteq Readable(RunRoot(v, want[t]))
            /\ ~Shadowed(v, want[t]) => Served(v, want[t])

\* "Expose each selected subdirectory HF variant as a separate runnable model root"
\* (downloader.py, 145): said of the program, not kept by the code.
DownloadedIsServed ==
    \A t \in Terminals : pc[t] = "success" /\ t \notin disturbed =>
        \A v \in want[t] : Served(v, want[t])

\* "Another download started. Exiting.": when it was only somebody's look at the lock,
\* somebody is still there to retry.  Two waiters never give up on each other.
SomebodyRetries == deserted => \E t \in Terminals : pc[t] \in Waiting

\* LockHeld names, and messages, somebody who had the lock after the flock failed, or
\* nobody; only a holder that died leaves its name behind.
NamedHolderHeldIt ==
    [][\A t \in Terminals : ReadHolder(t) =>
           orphaned \/ meta \in held[t] \cup {Nobody}]_vars
=============================================================================
