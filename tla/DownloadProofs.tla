--------------------------- MODULE DownloadProofs ---------------------------
(***************************************************************************)
(* Proofs about Download, for any number of terminals, variants and files: *)
(* the types, who has the lock and what its text says, that somebody       *)
(* always retries, and that a download which ends well is complete.        *)
(***************************************************************************)
EXTENDS Download, TLAPS

LEMMA Constants ==
    /\ Nobody \notin Terminals /\ "repo" \notin Variants /\ "variant" \notin Variants
    /\ \A v \in Variants : FilesOf[v] \subseteq AllFiles /\ GgufRoot(v) \in Roots
    /\ "repo" \in Roots
  BY DownloadAssumption DEF AllFiles, Roots, GgufRoot

LEMMA PCNames ==
    {"idle", "try", "refused", "failure", "unlock", "wait", "probe", "probed", "unprobe",
     "decide", "retry", "named", "clear", "fetch", "link", "sibling", "success"} = PCs
  BY DEF PCs, Waiting, Fetching

------------------------------------------------------------------------------
(* Types.                                                                  *)

LocalType ==
    /\ pc \in [Terminals -> PCs]
    /\ want \in [Terminals -> SUBSET Variants] /\ todo \in [Terminals -> SUBSET Variants]
    /\ now \in [Terminals -> Variants \cup {Nobody}]
    /\ left \in [Terminals -> SUBSET AllFiles]

SharedType ==
    /\ gguf \in BOOLEAN /\ holder \in People /\ meta \in People
    /\ disk \in [Roots -> SUBSET AllFiles] /\ ignored \in BOOLEAN
    /\ held \in [Terminals -> SUBSET Terminals]
    /\ orphaned \in BOOLEAN /\ disturbed \subseteq Terminals /\ deserted \in BOOLEAN

LEMMA Split == TypeOK => LocalType /\ SharedType
  BY DEF TypeOK, LocalType, SharedType

LEMMA Assembled ==
    ASSUME LocalType', SharedType'
    PROVE  TypeOK'
  BY DEF TypeOK, LocalType, SharedType

LEMMA DoneType ==
    ASSUME LocalType, NEW t \in Terminals, Done(t)
    PROVE  LocalType'
  BY PCNames DEF LocalType, Done, Dropped, Goto

LEMMA LocalStep ==
    ASSUME LocalType, NEW t \in Terminals, Step(t)
    PROVE  LocalType'
<1>1. CASE Done(t)
  BY <1>1, DoneType
<1>2. CASE Add(t)
  BY <1>2, PCNames DEF Add, LocalType, Goto, fetch
<1>3. CASE Begins(t)
  BY <1>3, PCNames DEF Begins, LocalType, Goto
<1>4. CASE UNCHANGED <<want, fetch>> /\ \E s \in PCs : Goto(t, s)
  BY <1>4 DEF LocalType, Goto, fetch
<1>5. CASE Named(t)
  <2>1. UNION {FilesOf[v] : v \in want[t]} \subseteq AllFiles
    BY DEF LocalType, AllFiles
  <2> QED
    BY <1>5, <2>1, PCNames DEF Named, LocalType, Goto
<1>6. CASE ClearStale(t)
  BY <1>6, PCNames, Constants DEF ClearStale, LocalType, Goto
<1>7. CASE FetchFile(t)
  BY <1>7, PCNames DEF FetchFile, LocalType, Goto
<1>8. CASE Remove(t)
  BY <1>8 DEF Remove, LocalType, fetch
<1>9. CASE Materialize(t) \/ LinkVariant(t)
  <2>1. ToLink(want[t]) \subseteq Variants
    BY DEF LocalType, ToLink
  <2> QED
    BY <1>9, <2>1, PCNames DEF Materialize, LinkVariant, LocalType, Goto
<1>10. CASE FetchFails(t)
  BY <1>10, PCNames DEF FetchFails, Dropped, LocalType, Goto
<1> QED
  <2>1. CASE Acquire(t) \/ Retry(t) \/ Decide(t)
    BY <1>1, <1>3, <1>4, <2>1, PCNames DEF Acquire, Retry, Decide
  <2>2. CASE ReadHolder(t) \/ Probe(t) \/ ProbeNamed(t) \/ ProbeTruncates(t) \/ ProbeReleases(t)
    BY <1>4, <2>2, PCNames DEF ReadHolder, Probe, ProbeNamed, ProbeTruncates, ProbeReleases
  <2>3. CASE MarkSource(t) \/ Truncate(t)
    BY <1>4, <2>3, PCNames DEF MarkSource, Truncate
  <2>4. CASE TimesOut(t) \/ Release(t) \/ Kill(t)
    BY <1>1, <2>4 DEF TimesOut, Release, Kill
  <2> QED
    BY <1>2, <1>5, <1>6, <1>7, <1>8, <1>9, <1>10, <2>1, <2>2, <2>3, <2>4 DEF Step

LEMMA DiskStep ==
    ASSUME LocalType, SharedType, NEW t \in Terminals, Step(t)
    PROVE  disk' \in [Roots -> SUBSET AllFiles]
<1>1. CASE LinkVariant(t) \/ Interrupted(t)
  <2>1. disk["repo"] \subseteq AllFiles
    BY Constants DEF SharedType
  <2>2. ASSUME NEW v, NEW S \in SUBSET AllFiles, disk' = [disk EXCEPT ![v] = S]
        PROVE  disk' \in [Roots -> SUBSET AllFiles]
    BY <2>2 DEF SharedType
  <2>3. CASE LinkVariant(t)
    <3>1. PICK v \in todo[t] : disk' = [disk EXCEPT ![v] = disk[v] \cup (disk["repo"] \cap FilesOf[v])]
      BY <2>3 DEF LinkVariant
    <3>2. v \in Roots
      BY DEF LocalType, Roots
    <3> QED
      BY <2>1, <2>2, <3>1, <3>2 DEF SharedType
  <2>4. ASSUME NEW v \in todo[t], NEW f, NEW linked \in SUBSET (disk["repo"] \cap FilesOf[v]),
               disk' = [disk EXCEPT ![v] = (disk[v] \ {f}) \cup linked]
        PROVE  disk' \in [Roots -> SUBSET AllFiles]
    <3>1. v \in Roots
      BY DEF LocalType, Roots
    <3> QED
      BY <2>1, <2>2, <2>4, <3>1 DEF SharedType
  <2> QED
    BY <1>1, <2>3, <2>4 DEF Interrupted, SharedType
<1>2. CASE ClearStale(t)
  BY <1>2 DEF ClearStale, SharedType
<1>3. CASE FetchFile(t)
  <2>1. PICK f \in left[t] :
          disk' = [disk EXCEPT ![IF gguf THEN GgufRoot(now[t]) ELSE "repo"] = @ \cup {f}]
    BY <1>3 DEF FetchFile
  <2>2. f \in AllFiles
    BY <2>1 DEF LocalType
  <2> QED
    BY <2>1, <2>2 DEF SharedType
<1>4. CASE Remove(t)
  BY <1>4 DEF Remove, SharedType
<1>5. CASE disk' = disk
  BY <1>5 DEF SharedType
<1> QED
  BY <1>1, <1>2, <1>3, <1>4, <1>5
     DEF Step, Add, Acquire, Begins, ReadHolder, Probe, ProbeNamed, ProbeTruncates,
         ProbeReleases, TimesOut, Decide, Retry, Named, Materialize, MarkSource, FetchFails,
         Truncate, Release, Kill, files

LEMMA FlockType ==
    ASSUME SharedType, NEW t \in Terminals, Flock(t)
    PROVE  holder' \in People /\ held' \in [Terminals -> SUBSET Terminals]
  BY DEF SharedType, Flock, People

LEMMA SharedStep ==
    ASSUME LocalType, SharedType, gguf' = gguf, NEW t \in Terminals, Step(t)
    PROVE  SharedType'
<1>1. disk' \in [Roots -> SUBSET AllFiles]
  BY DiskStep
<1>2. holder' \in People /\ meta' \in People
  BY FlockType DEF SharedType, People, Step, Add, Acquire, Begins, ReadHolder, Probe, ProbeNamed,
       ProbeTruncates, ProbeReleases, TimesOut, Decide, Retry, Named, ClearStale, FetchFile,
       Materialize, LinkVariant, MarkSource, FetchFails, Truncate, Release, Remove, Kill,
       SetMeta, lock
<1>3. held' \in [Terminals -> SUBSET Terminals]
  <2>1. CASE Acquire(t)
    BY <2>1, FlockType DEF SharedType, People, Acquire, Begins
  <2>2. CASE Retry(t) \/ Probe(t) \/ Decide(t)
    BY <2>2, FlockType DEF SharedType, Retry, Probe, Begins, Done, Decide
  <2>3. CASE ~Acquire(t) /\ ~Retry(t) /\ ~Probe(t) /\ ~Decide(t)
    BY <2>3 DEF SharedType, Step, Add, ReadHolder, ProbeNamed, ProbeTruncates, ProbeReleases,
       TimesOut, Named, ClearStale, FetchFile, Materialize, LinkVariant, MarkSource, FetchFails,
       Truncate, Release, Remove,
       Kill, Done, Dropped, history
  <2> QED
    BY <2>1, <2>2, <2>3
<1>4. orphaned' \in BOOLEAN /\ disturbed' \subseteq Terminals /\ deserted' \in BOOLEAN
  BY DEF SharedType, Step, Add, Acquire, Begins, ReadHolder, Probe, ProbeNamed,
       ProbeTruncates, ProbeReleases, TimesOut, Decide, Retry, Named, ClearStale, FetchFile,
       Materialize, LinkVariant, MarkSource, FetchFails, Truncate, Release, Remove, Kill,
       SetMeta, Done, Dropped, history
<1>5. ignored' \in BOOLEAN
  BY DEF SharedType, files, Step, Add, Acquire, Begins, ReadHolder, Probe, ProbeNamed,
       ProbeTruncates, ProbeReleases, TimesOut, Decide, Retry, Named, ClearStale, FetchFile,
       Materialize, LinkVariant, MarkSource, FetchFails, Truncate, Release, Remove, Kill
<1> QED
  BY <1>1, <1>2, <1>3, <1>4, <1>5 DEF SharedType

\* Type correctness.
THEOREM DownloadTypeCorrect == Spec => []TypeOK
<1>1. Init => TypeOK
  BY PCNames DEF Init, TypeOK, People
<1>2. TypeOK /\ [Next]_vars => TypeOK'
  <2>1. ASSUME TypeOK, UNCHANGED vars
        PROVE  TypeOK'
    BY <2>1 DEF TypeOK, vars, lock, files, fetch, history
  <2>2. ASSUME TypeOK, gguf' = gguf, NEW t \in Terminals, Step(t)
        PROVE  TypeOK'
    BY <2>2, Split, LocalStep, SharedStep, Assembled
  <2> QED
    BY <2>1, <2>2 DEF Next
<1> QED
  BY <1>1, <1>2, PTL DEF Spec

------------------------------------------------------------------------------
(* Who has the lock.                                                       *)

Probing == {"probe", "probed", "unprobe"}

Owner(t)  == pc[t] \in Probing \/ Downloading(t)
Ownership == \A t \in Terminals : Owner(t) <=> holder = t

\* A step of t is one of these to the lock.
Locking(t) ==
    \/ holder = Nobody /\ holder' = t /\ ~Owner(t) /\ Owner(t)'
    \/ holder' = holder /\ (Owner(t)' <=> Owner(t))
    \/ holder = t /\ holder' = Nobody /\ ~Owner(t)'

LEMMA LockingStep ==
    ASSUME TypeOK, Ownership, NEW t \in Terminals, Step(t)
    PROVE  Locking(t) /\ \A s \in Terminals \ {t} : pc'[s] = pc[s]
<1> USE DEF Owner, Probing, Downloading, Fetching, Locking
<1>1. pc \in [Terminals -> PCs] /\ Nobody \notin Terminals
  BY Constants DEF TypeOK
<1>2. CASE Add(t) \/ ReadHolder(t) \/ ProbeNamed(t) \/ ProbeTruncates(t) \/ FetchFails(t)
  BY <1>1, <1>2 DEF Add, ReadHolder, ProbeNamed, ProbeTruncates, FetchFails, Goto, lock
<1>3. CASE Acquire(t) \/ Retry(t) \/ Probe(t)
  BY <1>1, <1>3 DEF Acquire, Retry, Probe, Begins, Flock, Done, Dropped, Goto, lock
<1>4. CASE ProbeReleases(t) \/ Release(t)
  BY <1>1, <1>4 DEF Ownership, ProbeReleases, Release, Done, Dropped, Goto
<1>5. CASE TimesOut(t) \/ Decide(t)
  BY <1>1, <1>5 DEF TimesOut, Decide, Done, Dropped, Goto, lock
<1>6. CASE \/ Named(t) \/ ClearStale(t) \/ FetchFile(t) \/ Materialize(t)
           \/ LinkVariant(t) \/ MarkSource(t) \/ Truncate(t)
  BY <1>1, <1>6 DEF Named, ClearStale, FetchFile, Materialize, LinkVariant, MarkSource, Truncate,
                    Goto, lock
<1>7. CASE Remove(t)
  BY <1>7 DEF Remove, lock
<1>8. CASE Kill(t)
  BY <1>1, <1>8 DEF Ownership, Kill, Done, Dropped, Goto
<1> QED
  BY <1>2, <1>3, <1>4, <1>5, <1>6, <1>7, <1>8 DEF Step

LEMMA OwnershipStep ==
    ASSUME TypeOK, Ownership, NEW t \in Terminals, Step(t)
    PROVE  Ownership'
BY LockingStep, Constants DEF Ownership, Locking, Owner, Downloading

LEMMA OwnershipInit == Init => Ownership
  BY Constants DEF Init, Ownership, Owner, Probing, Downloading, Fetching

------------------------------------------------------------------------------
(* Somebody retries.                                                       *)

RetryInv ==
    /\ deserted => \E t \in Terminals : pc[t] \in Waiting
    /\ \A t \in Terminals : Downloading(t) => ~deserted

LEMMA RetryStep ==
    ASSUME TypeOK, Ownership, RetryInv, NEW t \in Terminals, Step(t)
    PROVE  RetryInv'
<1> USE DEF Downloading, Fetching
<1>1. /\ \A s \in Terminals \ {t} : pc'[s] = pc[s]
      /\ pc \in [Terminals -> PCs] /\ holder \in Terminals \cup {Nobody}
  BY LockingStep DEF TypeOK, People
<1>2. CASE ~deserted'
  BY <1>2 DEF RetryInv
<1>3. CASE deserted' /\ deserted /\ (pc[t] \in Waiting => pc'[t] \in Waiting)
            /\ (Downloading(t)' => Downloading(t))
  BY <1>1, <1>3 DEF RetryInv
<1>4. ASSUME deserted', pc[t] \in {"wait", "retry"}, holder # Nobody,
             pc'[t] = "idle", deserted' = (deserted \/ ~Downloading(holder)) \/ deserted' = deserted
      PROVE  RetryInv'
  <2>1. holder \in Terminals /\ Owner(holder)
    BY <1>1, <1>4 DEF Ownership
  <2>2. holder # t
    BY <1>4, <2>1 DEF Owner, Probing
  <2>3. ~Downloading(holder)
    BY <1>4, <2>1 DEF RetryInv
  <2>4. pc'[holder] \in Waiting
    BY <1>1, <2>1, <2>2, <2>3 DEF Owner, Probing, Waiting
  <2>5. \A s \in Terminals : ~Downloading(s)'
    BY <1>1, <1>4, <2>1, <2>3, Constants DEF Ownership, Owner, RetryInv
  <2> QED
    BY <2>1, <2>4, <2>5 DEF RetryInv
<1>5. CASE Add(t) \/ ReadHolder(t) \/ ProbeNamed(t) \/ ProbeTruncates(t) \/ FetchFails(t)
  BY <1>1, <1>2, <1>3, <1>5
     DEF Add, ReadHolder, ProbeNamed, ProbeTruncates, FetchFails, Goto, Waiting, history
<1>6. CASE Acquire(t) \/ Retry(t)
  BY <1>1, <1>2, <1>3, <1>4, <1>6 DEF Acquire, Retry, Begins, Done, Dropped, Goto, Waiting
<1>7. CASE Probe(t) \/ ProbeReleases(t)
  BY <1>1, <1>2, <1>3, <1>7 DEF Probe, ProbeReleases, Goto, Waiting, history
<1>8. CASE TimesOut(t) \/ Decide(t)
  BY <1>1, <1>2, <1>3, <1>4, <1>8 DEF TimesOut, Decide, Done, Dropped, Goto, Waiting
<1>9. CASE \/ Named(t) \/ ClearStale(t) \/ FetchFile(t) \/ Materialize(t)
           \/ LinkVariant(t) \/ MarkSource(t) \/ Truncate(t)
  <2>1. deserted' = deserted /\ Downloading(t) /\ pc[t] \notin Waiting
    BY <1>9 DEF Named, ClearStale, FetchFile, Materialize, LinkVariant, MarkSource, Truncate,
                history, Waiting
  <2> QED
    BY <1>2, <2>1 DEF RetryInv
<1>10. CASE Release(t)
  <2>1. deserted' = deserted /\ Downloading(t)
    BY <1>10 DEF Release
  <2> QED
    BY <1>2, <2>1 DEF RetryInv
<1>11. CASE Remove(t) \/ Kill(t)
  BY <1>1, <1>2, <1>3, <1>11 DEF Remove, Kill
<1> QED
  BY <1>5, <1>6, <1>7, <1>8, <1>9, <1>10, <1>11 DEF Step

\* "Another download started. Exiting.": two who only look at the lock never both give
\* up because of each other, for the one who looked is still there to retry.
THEOREM RetryHolds == Spec => []SomebodyRetries
<1>1. TypeOK /\ Ownership /\ RetryInv /\ [Next]_vars => Ownership' /\ RetryInv'
  <2>1. ASSUME Ownership, RetryInv, UNCHANGED vars
        PROVE  Ownership' /\ RetryInv'
    BY <2>1 DEF Ownership, RetryInv, Owner, Downloading, vars, lock, history
  <2> QED
    BY <2>1, OwnershipStep, RetryStep DEF Next
<1>2. Init => RetryInv
  BY DEF Init, RetryInv
<1>3. RetryInv => SomebodyRetries
  BY DEF RetryInv, SomebodyRetries
<1> QED
  BY <1>1, <1>2, <1>3, OwnershipInit, DownloadTypeCorrect, PTL DEF Spec

------------------------------------------------------------------------------
(* Whom the lock's text names.                                             *)

TextInv ==
    /\ orphaned \/ meta \in {Nobody, holder}
    /\ \A t \in Terminals : pc[t] \in {"unprobe", "unlock"} => ~orphaned /\ meta = Nobody
    /\ \A t \in Terminals : pc[t] = "refused" => holder \in held[t] \cup {Nobody}

LEMMA TextStep ==
    ASSUME TypeOK, Ownership, TextInv, NEW t \in Terminals, Step(t)
    PROVE  TextInv'
<1> USE DEF Owner, Probing, Downloading, Fetching
<1>1. /\ Locking(t) /\ \A s \in Terminals \ {t} : pc'[s] = pc[s]
      /\ pc \in [Terminals -> PCs] /\ held \in [Terminals -> SUBSET Terminals]
  BY LockingStep DEF TypeOK
\* The text: a step of the holder, or a new holder of a file without one.
<1>2. orphaned' \/ meta' \in {Nobody, holder'}
  <2>1. CASE Acquire(t) \/ Retry(t) \/ Probe(t)
    BY <2>1 DEF TextInv, Acquire, Retry, Probe, Begins, Flock, lock
  <2>2. CASE ProbeNamed(t) \/ ProbeTruncates(t) \/ Named(t) \/ Truncate(t)
    BY <2>2 DEF Ownership, ProbeNamed, ProbeTruncates, Named, Truncate, SetMeta
  <2>3. CASE ProbeReleases(t) \/ Release(t)
    BY <2>3 DEF TextInv, ProbeReleases, Release, history
  <2>4. CASE Kill(t)
    BY <2>4 DEF TextInv, Kill
  <2>5. CASE UNCHANGED <<holder, meta, orphaned>>
    BY <2>5 DEF TextInv
  <2> QED
    BY <2>1, <2>2, <2>3, <2>4, <2>5
       DEF Step, Add, ReadHolder, TimesOut, Decide, ClearStale, FetchFile, Materialize,
           LinkVariant, MarkSource, FetchFails,
           Remove, lock, history
<1>3. ASSUME NEW s \in Terminals, pc'[s] \in {"unprobe", "unlock"}
      PROVE  ~orphaned' /\ meta' = Nobody
  <2>1. CASE s = t
    <3>1. ProbeTruncates(t) \/ Truncate(t) \/ (Remove(t) /\ pc[t] \in {"unprobe", "unlock"})
      BY <1>1, <1>3, <2>1
         DEF Step, Add, Acquire, Begins, ReadHolder, Probe, ProbeNamed, ProbeReleases, TimesOut,
             Decide, Retry, Named, ClearStale, FetchFile, Materialize, LinkVariant, MarkSource,
             FetchFails, Release, Remove,
             Kill, Done, Dropped, Goto
    <3> QED
      BY <3>1 DEF ProbeTruncates, Truncate, SetMeta, Remove
  <2>2. CASE s # t
    <3>1. holder = s /\ ~orphaned /\ meta = Nobody /\ ~Owner(t)
      BY <1>1, <1>3, <2>2 DEF TextInv, Ownership
    <3>2. UNCHANGED <<meta, orphaned>>
      BY <2>2, <3>1, Constants
         DEF Step, Add, Acquire, Begins, Flock, ReadHolder, Probe, ProbeNamed, ProbeTruncates,
             ProbeReleases, TimesOut, Decide, Retry, Named, ClearStale, FetchFile, Materialize,
             LinkVariant, MarkSource,
             FetchFails, Truncate, Release, Remove, Kill, lock, history
    <3> QED
      BY <3>1, <3>2
  <2> QED
    BY <2>1, <2>2
<1>4. ASSUME NEW s \in Terminals, pc'[s] = "refused"
      PROVE  holder' \in held'[s] \cup {Nobody}
  <2>1. CASE s = t
    <3>1. Acquire(t) \/ (Remove(t) /\ pc[t] = "refused")
      BY <1>1, <1>4, <2>1
         DEF Step, Add, ReadHolder, Probe, ProbeNamed, ProbeTruncates, ProbeReleases, TimesOut,
             Decide, Retry, Begins, Named, ClearStale, FetchFile, Materialize, LinkVariant,
             MarkSource, FetchFails, Truncate,
             Release, Remove, Kill, Done, Dropped, Goto
    <3>2. Acquire(t)
      BY <3>1 DEF Remove
    <3>3. ~Begins(t)
      BY <1>1, <1>4, <2>1 DEF Begins, Goto
    <3>4. held' = [held EXCEPT ![t] = {holder}] /\ holder' = holder
      BY <3>2, <3>3 DEF Acquire, lock
    <3> QED
      BY <1>1, <2>1, <3>4
  <2>2. CASE s # t
    <3>1. pc[s] = "refused" /\ holder \in held[s] \cup {Nobody}
      BY <1>1, <1>4, <2>2 DEF TextInv
    <3>2. CASE holder' \in {holder, Nobody} /\ held'[s] = held[s]
      BY <3>1, <3>2
    <3>3. CASE Flock(t)
      BY <1>1, <3>1, <3>3 DEF Flock
    <3>4. CASE Acquire(t) \/ Retry(t) \/ Probe(t)
      BY <1>1, <2>2, <3>2, <3>3, <3>4 DEF Acquire, Retry, Probe, Begins, Done, Dropped, lock
    <3>5. CASE ~Acquire(t) /\ ~Retry(t) /\ ~Probe(t)
      <4>1. held'[s] = held[s]
        BY <1>1, <2>2, <3>5
           DEF Step, Add, ReadHolder, ProbeNamed, ProbeTruncates, ProbeReleases, TimesOut,
               Decide, Named, ClearStale, FetchFile, Materialize, LinkVariant, MarkSource,
               FetchFails, Truncate, Release,
               Remove, Kill, Done, Dropped, history
      <4>2. holder' \in {holder, Nobody}
        BY <3>5 DEF Step, Add, ReadHolder, ProbeNamed, ProbeTruncates, ProbeReleases, TimesOut,
               Decide, Named, ClearStale, FetchFile, Materialize, LinkVariant, MarkSource,
               FetchFails, Truncate, Release,
               Remove, Kill, lock
      <4> QED
        BY <3>2, <4>1, <4>2
    <3> QED
      BY <3>4, <3>5
  <2> QED
    BY <2>1, <2>2
<1> QED
  BY <1>2, <1>3, <1>4 DEF TextInv

\* LockHeld names somebody who had the lock after the flock failed, or nobody: the text
\* follows the lock, and only a holder that died leaves its name behind.
THEOREM HolderNamed == Spec => NamedHolderHeldIt
<1>1. TypeOK /\ Ownership /\ TextInv /\ [Next]_vars => Ownership' /\ TextInv'
  <2>1. ASSUME Ownership, TextInv, UNCHANGED vars
        PROVE  Ownership' /\ TextInv'
    BY <2>1 DEF Ownership, TextInv, Owner, Downloading, vars, lock, history
  <2> QED
    BY <2>1, OwnershipStep, TextStep DEF Next
<1>2. Init => TextInv
  BY DEF Init, TextInv
<1>3. TextInv => [\A t \in Terminals : ReadHolder(t) =>
                      orphaned \/ meta \in held[t] \cup {Nobody}]_vars
  BY DEF TextInv, ReadHolder
<1> QED
  BY <1>1, <1>2, <1>3, OwnershipInit, DownloadTypeCorrect, PTL DEF Spec, NamedHolderHeldIt

------------------------------------------------------------------------------
(* A download that ends well is complete.                                  *)

Has(v, root, but) == FilesOf[v] \subseteq disk[root] \cup but

\* What is on disk already at each place of an undisturbed download.
GgufSoFar(t) ==
    /\ todo[t] \subseteq want[t]
    /\ pc[t] = "fetch" => /\ now[t] \in want[t] \ todo[t]
                          /\ Has(now[t], GgufRoot(now[t]), left[t])
    /\ pc[t] = "success" => todo[t] = {}
    /\ \A v \in want[t] \ todo[t] : pc[t] # "fetch" \/ v # now[t] => Has(v, GgufRoot(v), {})

PlainSoFar(t) ==
    /\ pc[t] = "fetch" => \A v \in want[t] : Has(v, "repo", left[t])
    /\ pc[t] = "link" => \A v \in want[t] : Has(v, "repo", {})
    /\ pc[t] = "sibling" =>
          /\ todo[t] \subseteq ToLink(want[t])
          /\ \A v \in want[t] : Has(v, "repo", {})
          /\ \A v \in ToLink(want[t]) \ todo[t] : Has(v, v, {})
          /\ Single(want[t]) => ~HasTopLevel
    /\ pc[t] = "success" => \A v \in want[t] :
          /\ Has(v, "repo", {}) /\ Has(v, RunRoot(v, want[t]), {})
          /\ RunRoot(v, want[t]) = "repo" => ~ignored /\ Single(want[t]) /\ HasTopLevel

SoFar(t) == IF gguf THEN pc[t] \in {"clear", "fetch", "success"} => GgufSoFar(t)
                    ELSE PlainSoFar(t)

DiskInv ==
    /\ \A t \in Terminals : pc[t] = "named" => todo[t] = want[t]
    /\ \A t \in Terminals : gguf => pc[t] \notin {"link", "sibling"}
    /\ \A t \in Terminals : ~gguf => pc[t] # "clear"
    /\ \A t \in Terminals : t \notin disturbed => SoFar(t)

\* Of the labels at most one is in the name of the model: the roots are then distinct.
OneInName == \A v, w \in InName : v = w

LEMMA DistinctRoots ==
    ASSUME OneInName, NEW v \in Variants, NEW w \in Variants, v # w
    PROVE  GgufRoot(v) # GgufRoot(w)
  BY DownloadAssumption DEF OneInName, GgufRoot

Others(t) == \A s \in Terminals \ {t} :
    UNCHANGED <<pc[s], want[s], todo[s], now[s], left[s]>>

LEMMA OthersStep ==
    ASSUME TypeOK, NEW t \in Terminals, Step(t)
    PROVE  Others(t) /\ disturbed \ {t} \subseteq disturbed'
<1> USE DEF TypeOK, Others, Goto
<1>1. CASE Add(t) \/ Acquire(t) \/ Retry(t)
  BY <1>1 DEF Add, Acquire, Retry, Begins, Done, Dropped, fetch, history
<1>2. CASE ReadHolder(t) \/ Probe(t) \/ ProbeNamed(t) \/ ProbeTruncates(t) \/ ProbeReleases(t)
  BY <1>2 DEF ReadHolder, Probe, ProbeNamed, ProbeTruncates, ProbeReleases, fetch, history
<1>3. CASE TimesOut(t) \/ Decide(t) \/ Release(t) \/ Kill(t)
  BY <1>3 DEF TimesOut, Decide, Release, Kill, Done, Dropped, fetch
<1>4. CASE Named(t) \/ ClearStale(t) \/ FetchFile(t)
  BY <1>4 DEF Named, ClearStale, FetchFile, history
<1>5. CASE \/ Materialize(t) \/ LinkVariant(t) \/ MarkSource(t) \/ FetchFails(t)
           \/ Truncate(t) \/ Remove(t)
  BY <1>5 DEF Materialize, LinkVariant, MarkSource, FetchFails, Dropped, Truncate, Remove, fetch,
              history
<1> QED
  BY <1>1, <1>2, <1>3, <1>4, <1>5 DEF Step

\* What SoFar is about.
Fixed(t) == UNCHANGED <<gguf, pc[t], want[t], todo[t], now[t], left[t]>>

\* Where nothing of a download changes, what it has on disk does not either.
LEMMA SoFarKept ==
    ASSUME NEW t \in Terminals, Fixed(t), SoFar(t), disk' = disk, ignored' = ignored
    PROVE  SoFar(t)'
  BY DEF Fixed, SoFar, GgufSoFar, PlainSoFar, Has, GgufRoot, RunRoot, ToLink, Single, HasTopLevel

\* Nobody but the holder, and a removal that is remembered, touches the disk.
LEMMA DiskOthers ==
    ASSUME TypeOK, Ownership, NEW t \in Terminals, Step(t), files' # files,
           NEW s \in Terminals, s # t, pc[s] \in Fetching
    PROVE  s \in disturbed'
<1>1. ~Owner(t)
  BY DEF Ownership, Owner, Downloading
<1>2. Remove(t)
  BY <1>1 DEF Owner, Downloading, Fetching, Interrupted, files, Step, Add, Acquire, Begins,
              ReadHolder, Probe, ProbeNamed,
       ProbeTruncates, ProbeReleases, TimesOut, Decide, Retry, Named, ClearStale, FetchFile,
       Materialize, LinkVariant, MarkSource, FetchFails, Truncate, Release, Kill
<1> QED
  BY <1>2 DEF Remove

LEMMA OtherSoFar ==
    ASSUME TypeOK, Ownership, DiskInv, gguf' = gguf, NEW t \in Terminals, Step(t),
           NEW s \in Terminals, s # t, s \notin disturbed'
    PROVE  SoFar(s)'
<1>1. Fixed(s) /\ SoFar(s)
  BY OthersStep DEF DiskInv, Others, Fixed
<1>2. CASE files' = files
  BY <1>1, <1>2, SoFarKept DEF files
<1>3. CASE pc[s] \notin Fetching
  BY <1>1, <1>3 DEF Fixed, SoFar, PlainSoFar, Fetching
<1> QED
  BY <1>2, <1>3, DiskOthers

LEMMA NamedSoFar ==
    ASSUME TypeOK, DiskInv, gguf' = gguf, NEW t \in Terminals, Named(t)
    PROVE  SoFar(t)'
<1>1. /\ pc[t] = "named" /\ todo[t] = want[t] /\ UNCHANGED <<disk, want, todo>>
      /\ pc'[t] = IF gguf THEN "clear" ELSE "fetch"
      /\ ~gguf => left'[t] = UNION {FilesOf[v] : v \in want[t]}
  BY DEF TypeOK, DiskInv, Named, Goto, files
<1>2. CASE gguf
  BY <1>1, <1>2 DEF SoFar, GgufSoFar
<1>3. CASE ~gguf
  BY <1>1, <1>3 DEF SoFar, PlainSoFar, Has
<1> QED
  BY <1>2, <1>3

LEMMA ClearSoFar ==
    ASSUME TypeOK, OneInName, DiskInv, gguf' = gguf, NEW t \in Terminals, ClearStale(t),
           t \notin disturbed
    PROVE  SoFar(t)'
<1>1. PICK v \in todo[t] :
        /\ pc[t] = "clear" /\ pc'[t] = "fetch" /\ UNCHANGED want
        /\ todo'[t] = todo[t] \ {v} /\ now'[t] = v /\ left'[t] = FilesOf[v]
        /\ disk' = [disk EXCEPT ![GgufRoot(v)] = {}]
  BY DEF TypeOK, ClearStale, Goto
<1>2. gguf /\ GgufSoFar(t)
  BY <1>1 DEF DiskInv, SoFar
<1>3. v \in want[t] /\ want[t] \subseteq Variants
  BY <1>1, <1>2 DEF GgufSoFar, TypeOK
<1>4. ASSUME NEW w \in want[t] \ todo'[t], w # v
      PROVE  Has(w, GgufRoot(w), {})'
  <2>1. Has(w, GgufRoot(w), {}) /\ GgufRoot(w) # GgufRoot(v)
    BY <1>1, <1>2, <1>3, <1>4, DistinctRoots DEF GgufSoFar
  <2>2. disk'[GgufRoot(w)] = disk[GgufRoot(w)]
    BY <1>1, <1>3, <2>1, Constants DEF TypeOK
  <2> QED
    BY <2>1, <2>2 DEF Has, GgufRoot
<1>5. Has(v, GgufRoot(v), left[t])'
  BY <1>1 DEF Has
<1>6. GgufSoFar(t)'
  BY <1>1, <1>2, <1>3, <1>4, <1>5 DEF GgufSoFar, GgufRoot
<1> QED
  BY <1>2, <1>6 DEF SoFar

LEMMA FetchSoFar ==
    ASSUME TypeOK, DiskInv, gguf' = gguf, NEW t \in Terminals, FetchFile(t), t \notin disturbed
    PROVE  SoFar(t)'
<1> DEFINE r == IF gguf THEN GgufRoot(now[t]) ELSE "repo"
<1>1. PICK f \in left[t] :
        /\ pc[t] = "fetch" /\ UNCHANGED <<want, todo, now>>
        /\ disk' = [disk EXCEPT ![r] = @ \cup {f}] /\ left'[t] = left[t] \ {f}
        /\ pc'[t] = IF left[t] # {f} THEN "fetch" ELSE IF ~gguf THEN "link"
                    ELSE IF todo[t] = {} THEN "success" ELSE "clear"
  BY DEF TypeOK, FetchFile, Goto
<1>2. SoFar(t)
  BY DEF DiskInv
<1>3. ASSUME NEW v, NEW root, Has(v, root, {})
      PROVE  Has(v, root, {})'
  BY <1>1, <1>3 DEF Has, TypeOK
<1>4. ASSUME NEW v, r \in Roots, Has(v, r, left[t])
      PROVE  FilesOf[v] \subseteq disk'[r] \cup left'[t]
  BY <1>1, <1>4 DEF Has, TypeOK
<1>5. left[t] = {f} => left'[t] = {}
  BY <1>1
<1>6. CASE gguf
  <2>1. GgufSoFar(t) /\ now[t] \in want[t] \ todo[t] /\ Has(now[t], GgufRoot(now[t]), left[t])
    BY <1>1, <1>2, <1>6 DEF SoFar, GgufSoFar
  <2>2. r = GgufRoot(now[t]) /\ r \in Roots
    BY <1>6, <2>1, Constants DEF TypeOK
  <2>3. FilesOf[now[t]] \subseteq disk'[GgufRoot(now[t])] \cup left'[t]
    BY <1>4, <2>1, <2>2
  <2>4. ASSUME NEW v \in want[t] \ todo[t], pc'[t] # "fetch" \/ v # now[t]
        PROVE  FilesOf[v] \subseteq disk'[GgufRoot(v)]
    <3>1. CASE v # now[t]
      BY <1>1, <1>3, <2>1, <2>4, <3>1 DEF GgufSoFar, Has
    <3>2. CASE v = now[t]
      BY <1>1, <1>5, <2>3, <2>4, <3>2
    <3> QED
      BY <3>1, <3>2
  <2>5. GgufSoFar(t)'
    BY <1>1, <1>6, <2>1, <2>3, <2>4 DEF GgufSoFar, Has, GgufRoot
  <2> QED
    BY <1>6, <2>5 DEF SoFar
<1>7. CASE ~gguf
  <2>1. \A v \in want[t] : Has(v, "repo", left[t])
    BY <1>1, <1>2, <1>7 DEF SoFar, PlainSoFar
  <2>2. \A v \in want[t] : FilesOf[v] \subseteq disk'["repo"] \cup left'[t]
    BY <1>4, <1>7, <2>1, Constants
  <2> QED
    BY <1>1, <1>5, <1>7, <2>2 DEF SoFar, PlainSoFar, Has
<1> QED
  BY <1>6, <1>7

LEMMA MaterializeSoFar ==
    ASSUME TypeOK, DiskInv, gguf' = gguf, NEW t \in Terminals, Materialize(t), t \notin disturbed
    PROVE  SoFar(t)'
<1>1. /\ pc[t] = "link" /\ UNCHANGED <<want, disk>> /\ ~gguf
      /\ IF Single(want[t]) /\ HasTopLevel THEN ~ignored' /\ pc'[t] = "success"
         ELSE todo'[t] = ToLink(want[t]) /\ pc'[t] = "sibling"
  BY DEF TypeOK, DiskInv, Materialize, Goto
<1>2. \A v \in want[t] : Has(v, "repo", {})
  BY <1>1 DEF DiskInv, SoFar, PlainSoFar
<1>3. (HasTopLevel' <=> HasTopLevel) /\ Single(want[t])' = Single(want[t])
      /\ ToLink(want[t])' = ToLink(want[t]) /\ \A v \in want[t] : Has(v, "repo", {})'
  BY <1>1, <1>2 DEF HasTopLevel, Single, ToLink, Has
<1>4. CASE Single(want[t]) /\ HasTopLevel
  <2>1. \A v \in want[t] : RunRoot(v, want[t])' = "repo"
    BY <1>1, <1>3, <1>4 DEF RunRoot
  <2> QED
    BY <1>1, <1>3, <1>4, <2>1 DEF SoFar, PlainSoFar, Has
<1>5. CASE ~(Single(want[t]) /\ HasTopLevel)
  BY <1>1, <1>3, <1>5 DEF SoFar, PlainSoFar
<1> QED
  BY <1>4, <1>5

LEMMA LinkSoFar ==
    ASSUME TypeOK, DiskInv, gguf' = gguf, NEW t \in Terminals, LinkVariant(t), t \notin disturbed
    PROVE  SoFar(t)'
<1>1. PICK v \in todo[t] :
        /\ pc[t] = "sibling" /\ UNCHANGED <<want, pc>> /\ todo'[t] = todo[t] \ {v}
        /\ disk' = [disk EXCEPT ![v] = @ \cup (disk["repo"] \cap FilesOf[v])]
  BY DEF TypeOK, LinkVariant
<1>2. ~gguf /\ PlainSoFar(t)
  BY <1>1 DEF DiskInv, SoFar
<1>3. v \in Variants /\ v \in Roots /\ v # "repo" /\ v \in want[t]
  BY <1>1, <1>2, Constants DEF TypeOK, Roots, PlainSoFar, ToLink
<1>4. disk'["repo"] = disk["repo"] /\ disk'[v] = disk[v] \cup (disk["repo"] \cap FilesOf[v])
      /\ \A w \in Roots \ {v} : disk'[w] = disk[w]
  BY <1>1, <1>3, Constants DEF TypeOK
<1>5. (HasTopLevel' <=> HasTopLevel) /\ Single(want[t])' = Single(want[t])
      /\ ToLink(want[t])' = ToLink(want[t]) /\ ToLink(want[t]) \subseteq Roots
  BY <1>1, <1>4 DEF HasTopLevel, Single, ToLink, TypeOK, Roots
<1>6. \A w \in want[t] : Has(w, "repo", {})'
  BY <1>1, <1>2, <1>4 DEF PlainSoFar, Has
<1>7. \A w \in ToLink(want[t]) \ todo'[t] : Has(w, w, {})'
  <2>1. FilesOf[v] \subseteq disk'[v]
    BY <1>1, <1>2, <1>3, <1>4 DEF PlainSoFar, Has
  <2>2. \A w \in (ToLink(want[t]) \ todo[t]) \ {v} : Has(w, w, {})'
    BY <1>1, <1>2, <1>4, <1>5 DEF PlainSoFar, Has
  <2> QED
    BY <1>1, <2>1, <2>2 DEF Has
<1>8. todo'[t] \subseteq ToLink(want[t]) /\ (Single(want[t]) => ~HasTopLevel)
  BY <1>1, <1>2 DEF PlainSoFar
<1> QED
  BY <1>1, <1>2, <1>5, <1>6, <1>7, <1>8 DEF SoFar, PlainSoFar

\* A variant that is alone, at the top and on disk makes the repository's root have weights
\* at its top.
LEMMA OwnTopLevel ==
    ASSUME TypeOK, NEW v \in Variants \ InSubdir, Has(v, "repo", {})
    PROVE  HasTopLevel
<1>1. PICK f \in FilesOf[v] : f \in disk["repo"]
  BY DownloadAssumption DEF Has
<1> QED
  BY <1>1 DEF HasTopLevel

LEMMA MarkSoFar ==
    ASSUME TypeOK, DiskInv, gguf' = gguf, NEW t \in Terminals, MarkSource(t), t \notin disturbed
    PROVE  SoFar(t)'
<1>1. /\ pc[t] = "sibling" /\ pc'[t] = "success" /\ UNCHANGED <<disk, want>> /\ todo[t] = {}
  BY DEF TypeOK, MarkSource, Goto
<1>2. ~gguf /\ PlainSoFar(t) /\ want[t] \subseteq Variants
  BY <1>1 DEF DiskInv, SoFar, TypeOK
<1>3. ASSUME NEW v \in want[t]
      PROVE  /\ Has(v, "repo", {}) /\ Has(v, v, {})
             /\ RunRoot(v, want[t])' = v
  <2>1. Has(v, "repo", {}) /\ (Single(want[t]) => ~HasTopLevel)
    BY <1>1, <1>2 DEF PlainSoFar
  <2>2. Single(want[t]) => v \in InSubdir
    BY <1>2, <2>1, OwnTopLevel
  <2>3. v \in ToLink(want[t])
    BY <2>2 DEF ToLink
  <2>4. Has(v, v, {})
    BY <1>1, <1>2, <2>3 DEF PlainSoFar
  <2>5. RunRoot(v, want[t])' = v
    BY <1>1, <1>2, <2>1, <2>2 DEF RunRoot, HasTopLevel, Single
  <2> QED
    BY <2>1, <2>4, <2>5
<1>4. ASSUME NEW v \in want[t]
      PROVE  Has(v, "repo", {})' /\ Has(v, v, {})' /\ v # "repo"
  BY <1>1, <1>2, <1>3, Constants DEF Has
<1> QED
  BY <1>1, <1>2, <1>3, <1>4 DEF SoFar, PlainSoFar

LEMMA OwnSoFar ==
    ASSUME TypeOK, OneInName, DiskInv, gguf' = gguf, NEW t \in Terminals, Step(t),
           t \notin disturbed'
    PROVE  SoFar(t)'
<1>1. CASE pc'[t] \notin {"clear", "fetch", "link", "sibling", "success"}
  BY <1>1 DEF SoFar, PlainSoFar
<1>2. CASE Named(t)
  BY <1>2, NamedSoFar
<1>3. CASE \/ ClearStale(t) \/ FetchFile(t) \/ Materialize(t)
           \/ LinkVariant(t) \/ MarkSource(t)
  <2>1. t \notin disturbed
    BY <1>3 DEF ClearStale, FetchFile, Materialize, LinkVariant, MarkSource, history
  <2> QED
    BY <1>3, <2>1, ClearSoFar, FetchSoFar, MaterializeSoFar, LinkSoFar, MarkSoFar
<1>4. CASE Remove(t)
  BY <1>1, <1>4 DEF Remove
<1>5. CASE ~Named(t) /\ ~ClearStale(t) /\ ~FetchFile(t) /\ ~Materialize(t)
           /\ ~LinkVariant(t) /\ ~MarkSource(t) /\ ~Remove(t)
  <2>1. pc'[t] \notin {"clear", "fetch", "link", "sibling", "success"}
    BY <1>5 DEF TypeOK, Step, Add, Acquire, Begins, ReadHolder, Probe, ProbeNamed, ProbeTruncates,
           ProbeReleases, TimesOut, Decide, Retry, FetchFails, Truncate, Release, Kill, Done,
           Dropped, Goto
  <2> QED
    BY <1>1, <2>1
<1> QED
  BY <1>2, <1>3, <1>4, <1>5

LEMMA PlacesStep ==
    ASSUME TypeOK, DiskInv, gguf' = gguf, NEW t \in Terminals, Step(t)
    PROVE  /\ pc'[t] = "named" => todo'[t] = want'[t]
           /\ gguf => pc'[t] \notin {"link", "sibling"}
           /\ ~gguf => pc'[t] # "clear"
<1>1. CASE Acquire(t) \/ Retry(t)
  BY <1>1 DEF TypeOK, Acquire, Retry, Begins, Done, Dropped, Goto
<1>2. CASE \/ Named(t) \/ ClearStale(t) \/ FetchFile(t) \/ Materialize(t)
           \/ LinkVariant(t) \/ MarkSource(t)
  BY <1>2 DEF TypeOK, DiskInv, Named, ClearStale, FetchFile, Materialize, LinkVariant, MarkSource,
              Goto
<1>3. CASE Remove(t)
  BY <1>3 DEF DiskInv, Remove, fetch
<1>4. CASE ~Acquire(t) /\ ~Retry(t) /\ ~Named(t) /\ ~ClearStale(t) /\ ~FetchFile(t)
             /\ ~Materialize(t) /\ ~LinkVariant(t) /\ ~MarkSource(t) /\ ~Remove(t)
  BY <1>4 DEF TypeOK, Step, Add, ReadHolder, Probe, ProbeNamed, ProbeTruncates,
         ProbeReleases, TimesOut, Decide, FetchFails, Truncate, Release, Kill, Done, Dropped, Goto
<1> QED
  BY <1>1, <1>2, <1>3, <1>4

LEMMA DiskInvStep ==
    ASSUME TypeOK, OneInName, Ownership, DiskInv, gguf' = gguf, NEW t \in Terminals, Step(t)
    PROVE  DiskInv'
<1>1. \A s \in Terminals : s \notin disturbed' => SoFar(s)'
  BY OwnSoFar, OtherSoFar
<1>2. \A s \in Terminals \ {t} : Fixed(s)
  BY OthersStep DEF Others, Fixed
<1> QED
  BY <1>1, <1>2, PlacesStep DEF DiskInv, Fixed

\* A download that ends well has every file of every variant in the root the variant is
\* run from, if at most one of the model's variants has its label in the model's name:
\* what is fetched stays, for nobody else is past the lock and the roots are distinct.
THEOREM DownloadComplete ==
    ASSUME OneInName
    PROVE  Spec => []DownloadedIsComplete
<1>1. TypeOK /\ Ownership /\ DiskInv /\ [Next]_vars => Ownership' /\ DiskInv'
  <2>1. ASSUME Ownership, DiskInv, UNCHANGED vars, gguf' = gguf
        PROVE  Ownership' /\ DiskInv'
    BY <2>1 DEF Ownership, DiskInv, Owner, Downloading, SoFar, GgufSoFar, PlainSoFar, Has, GgufRoot,
                RunRoot, ToLink, Single, HasTopLevel, vars, lock, files, fetch, history
  <2> QED
    BY <2>1, OwnershipStep, DiskInvStep DEF Next, vars
<1>2. Init => DiskInv
  BY DEF Init, DiskInv, SoFar, PlainSoFar
<1>3. TypeOK /\ DiskInv => DownloadedIsComplete
  <2>1. ASSUME TypeOK, DiskInv, NEW t \in Terminals, pc[t] = "success", t \notin disturbed,
               NEW v \in want[t]
        PROVE  /\ FilesOf[v] \subseteq Readable(RunRoot(v, want[t]))
               /\ ~Shadowed(v, want[t]) => Served(v, want[t])
    <3>1. CASE gguf
      <4>1. FilesOf[v] \subseteq disk[GgufRoot(v)] /\ GgufRoot(v) # "repo"
        BY <2>1, <3>1, Constants DEF DiskInv, SoFar, GgufSoFar, Has, GgufRoot, TypeOK
      <4> QED
        BY <3>1, <4>1 DEF Readable, Served, RunRoot
    <3>2. CASE ~gguf
      <4>1. /\ FilesOf[v] \subseteq disk["repo"] /\ FilesOf[v] \subseteq disk[RunRoot(v, want[t])]
            /\ RunRoot(v, want[t]) = "repo" => ~ignored /\ Single(want[t]) /\ HasTopLevel
        BY <2>1, <3>2 DEF DiskInv, SoFar, PlainSoFar, Has
      <4>2. FilesOf[v] \subseteq Readable(RunRoot(v, want[t]))
        BY <3>2, <4>1 DEF Readable
      <4>3. Single(want[t]) => want[t] = {v}
        BY <2>1 DEF Single
      <4> QED
        BY <3>2, <4>1, <4>2, <4>3 DEF Served, Shadowed
    <3> QED
      BY <3>1, <3>2
  <2> QED
    BY <2>1 DEF DownloadedIsComplete
<1> QED
  BY <1>1, <1>2, <1>3, OwnershipInit, DownloadTypeCorrect, PTL DEF Spec
=============================================================================
